-------------------------- MODULE ExporterSetProofs --------------------------
(***************************************************************************)
(* Proofs about ExporterSet, for any set of specs, any number of slots,    *)
(* leases and faults, and any cooldown.                                    *)
(***************************************************************************)
EXTENDS ExporterSet, FiniteSetTheorems, TLAPS

Pools == [Slots -> Exporter \cup {None}]

(* A lease that waits is one that was requested.                           *)
SetInv == TypeOK /\ fresh + pending <= requested

LEMMA EditedType ==
    ASSUME NEW e \in Exporter
    PROVE  /\ \A b \in BOOLEAN : /\ [e EXCEPT !.enabled = b] \in Exporter
                                 /\ [e EXCEPT !.online = b] \in Exporter
                                 /\ [e EXCEPT !.leased = b] \in Exporter
           /\ \A g \in {"new", "ready", "pod", "done"} : [e EXCEPT !.stage = g] \in Exporter
BY Zenon DEF Exporter

LEMMA NewType == New \in Exporter
BY Zenon DEF New, Exporter

LEMMA WithPodsType ==
    ASSUME NEW p \in Pools
    PROVE  WithPods(p) \in Pools
<1>1. \A s \in Slots : p[s] # None => [p[s] EXCEPT !.stage = "pod"] \in Exporter
  BY EditedType, Zenon DEF Pools
<1> QED BY <1>1, Zenon DEF Pools, WithPods

LEMMA WithoutType ==
    ASSUME TypeOK, NEW D
    PROVE  Without(D) \in Pools
BY Zenon DEF TypeOK, Pools, Without

LEMMA DoneType ==
    ASSUME TypeOK, NEW p \in Pools, NEW failed \in BOOLEAN, Done(p, failed)
    PROVE  pool' \in Pools /\ view' \in Pools /\ queued' \in BOOLEAN
<1>1. view' \in Pools
  BY Zenon DEF TypeOK, Pools, Done
<1> QED BY <1>1, Zenon DEF Done

LEMMA RequeueType ==
    ASSUME TypeOK, NEW after \in Delays, Requeue(after)
    PROVE  timer' \in Delays
BY Zenon DEF TypeOK, Requeue

LEMMA SteadyType ==
    ASSUME SetInv, NEW n \in Ages, NEW after \in Delays, Steady(n, after)
    PROVE  SetInv'
<1>1. /\ Done(WithPods(pool), FALSE) /\ since' = n
      /\ Requeue(IF after = None /\ Waiting THEN 1 ELSE after)
      /\ UNCHANGED <<spec, held, leaving, fresh, pending, requested, lastAction, calm, faults>>
  BY Zenon DEF Steady, leases
<1>2. pool' \in Pools /\ view' \in Pools /\ queued' \in BOOLEAN
  BY <1>1, WithPodsType, DoneType, Zenon DEF SetInv, TypeOK, Pools
<1>3. (IF after = None /\ Waiting THEN 1 ELSE after) \in Delays
  BY SetAssumption DEF Delays
<1>4. timer' \in Delays
  BY <1>1, <1>3, RequeueType, Zenon DEF SetInv
<1> QED BY <1>1, <1>2, <1>4, Zenon DEF SetInv, TypeOK, Pools

LEMMA FaultType ==
    ASSUME TypeOK, Fault
    PROVE  faults' \in 0 .. MaxFaults
BY SetAssumption DEF TypeOK, Fault

LEMMA DisableType ==
    ASSUME SetInv, NEW s \in Slots, Disable(s)
    PROVE  SetInv'
<1> DEFINE p == WithPods([pool EXCEPT ![s].enabled = FALSE])
<1>1. /\ UNCHANGED <<spec, held, leaving, fresh, pending, requested>> /\ Requeue(Cooldown)
      /\ lastAction' = 0 /\ calm' = 0 /\ s \in Candidates /\ pool[s] = view[s]
      /\ \/ since' = 0 /\ Done(p, FALSE) /\ UNCHANGED faults
         \/ Fault /\ Done(p, TRUE) /\ UNCHANGED since
  BY Zenon DEF Disable, leases
<1>2. pool[s] \in Exporter
  BY <1>1, Zenon DEF Candidates, Owned, SetInv, TypeOK
<1>3. [pool EXCEPT ![s].enabled = FALSE] \in Pools
  BY <1>2, EditedType, Zenon DEF SetInv, TypeOK, Pools
<1>4. p \in Pools
  BY <1>3, WithPodsType, Zenon
<1> HIDE DEF p
<1>5. pool' \in Pools /\ view' \in Pools /\ queued' \in BOOLEAN
  BY <1>1, <1>4, DoneType, Zenon DEF SetInv
<1>6. since' \in Ages /\ lastAction' \in Ages /\ calm' \in Ages
  <2>1. 0 \in Ages
    BY SetAssumption DEF Ages
  <2>2. since' = 0 \/ since' = since
    BY <1>1, Zenon
  <2> QED BY <1>1, <2>1, <2>2, Zenon DEF SetInv, TypeOK
<1>7. faults' \in 0 .. MaxFaults
  BY <1>1, FaultType, Zenon DEF SetInv, TypeOK
<1>8. timer' \in Delays
  BY <1>1, RequeueType, SetAssumption DEF SetInv, Delays
<1> QED BY <1>1, <1>5, <1>6, <1>7, <1>8, Zenon DEF SetInv, TypeOK, Pools

LEMMA ScaleUpType ==
    ASSUME SetInv, scaleUp \/ scaleUpFails
    PROVE  SetInv'
<1>1. PICK s \in Free : \/ Done(WithPods([pool EXCEPT ![s] = New]), FALSE)
                        \/ Done([pool EXCEPT ![s] = New], TRUE)
  BY Zenon DEF scaleUp, scaleUpFails
<1>2. [pool EXCEPT ![s] = New] \in Pools
  BY NewType, Zenon DEF SetInv, TypeOK, Pools
<1>3. pool' \in Pools /\ view' \in Pools /\ queued' \in BOOLEAN
  BY <1>1, <1>2, WithPodsType, DoneType, Zenon DEF SetInv
<1>4. UNCHANGED <<spec, held, leaving, fresh, pending, requested, since, lastAction, calm>>
  BY Zenon DEF scaleUp, scaleUpFails, leases, clock
<1>5. faults' \in 0 .. MaxFaults
  BY FaultType, Zenon DEF SetInv, TypeOK, scaleUp, scaleUpFails
<1>6. timer' \in Delays
  <2>1. CASE scaleUp
    <3>1. (IF Waiting THEN 1 ELSE None) \in Delays
      BY SetAssumption DEF Delays
    <3> QED BY <2>1, <3>1, RequeueType, Zenon DEF SetInv, scaleUp
  <2>2. CASE scaleUpFails
    BY <2>2, Zenon DEF SetInv, TypeOK, scaleUpFails, clock
  <2> QED BY <2>1, <2>2, Zenon
<1> QED BY <1>3, <1>4, <1>5, <1>6, Zenon DEF SetInv, TypeOK, Pools

LEMMA CleanupType ==
    ASSUME SetInv, Cleanup \/ CleanupFails
    PROVE  SetInv'
<1>1. PICK D \in SUBSET Doomed, f \in BOOLEAN : Done(Without(D), f)
  BY Zenon DEF Cleanup, CleanupFails
<1>2. pool' \in Pools /\ view' \in Pools /\ queued' \in BOOLEAN
  BY <1>1, WithoutType, DoneType, Zenon DEF SetInv
<1>3. UNCHANGED <<spec, held, leaving, fresh, pending, requested, since, lastAction, calm, timer>>
  BY Zenon DEF Cleanup, CleanupFails, leases, clock
<1>4. faults' \in 0 .. MaxFaults
  BY FaultType, Zenon DEF SetInv, TypeOK, Cleanup, CleanupFails
<1> QED BY <1>2, <1>3, <1>4, Zenon DEF SetInv, TypeOK, Pools

LEMMA PassType ==
    ASSUME SetInv, Reconcile
    PROVE  SetInv'
<1>1. CASE clearSurplusAnnotation
  BY <1>1, SteadyType, Zenon DEF clearSurplusAnnotation, Ages, Delays
<1>2. CASE StillCooling
  <2>1. Steady(since, Cooldown - lastAction) /\ lastAction # None /\ lastAction < Cooldown
    BY <1>2, Zenon DEF StillCooling, CoolingDown
  <2>2. Cooldown - lastAction \in Delays /\ since \in Ages
    BY <2>1, SetAssumption DEF SetInv, TypeOK, Ages, Delays
  <2> QED BY <2>1, <2>2, SteadyType, Zenon
<1>3. CASE setSurplusAnnotation
  <2>1. 0 \in Ages /\ Cooldown \in Delays
    BY SetAssumption DEF Ages, Delays
  <2> QED BY <1>3, <2>1, SteadyType, Zenon DEF setSurplusAnnotation
<1>4. CASE StillSurplus
  <2>1. Steady(since, Cooldown - since) /\ since # None /\ since < Cooldown
    BY <1>4, Zenon DEF StillSurplus
  <2>2. Cooldown - since \in Delays /\ since \in Ages
    BY <2>1, SetAssumption DEF SetInv, TypeOK, Ages, Delays
  <2> QED BY <2>1, <2>2, SteadyType, Zenon
<1>5. ASSUME NEW s \in Slots, DisableConflict(s) PROVE SetInv'
  BY <1>5, Zenon DEF DisableConflict, vars, SetInv, TypeOK
<1> QED
  BY <1>1, <1>2, <1>3, <1>4, <1>5, DisableType, ScaleUpType, CleanupType, Zenon DEF Reconcile

(* The steps of the other actors that change one exporter.                 *)
Edited(s) ==
    Credential(s) \/ ComesOnline(s) \/ GoesOffline(s) \/ SetLeaseRef(s) \/ PodFails(s) \/ Exits(s)

LEMMA EditedKeeps ==
    ASSUME TypeOK, NEW s \in Slots, Edited(s)
    PROVE  /\ pool[s] = None => UNCHANGED pool
           /\ pool[s] # None => \E e \in Exporter : /\ e.enabled = pool[s].enabled
                                                    /\ pool' = [pool EXCEPT ![s] = e]
           /\ UNCHANGED <<spec, view, held, fresh, pending, requested, clock, queued>>
           /\ leaving' \subseteq leaving /\ faults' \in 0 .. MaxFaults
<1>1. CASE Exits(s)
  <2>1. [pool EXCEPT ![s].stage = "done"] = [pool EXCEPT ![s] = [pool[s] EXCEPT !.stage = "done"]]
    OBVIOUS
  <2>2. pool[s] # None => [pool[s] EXCEPT !.stage = "done"] \in Exporter
    BY EditedType, Zenon DEF TypeOK
  <2>3. [pool[s] EXCEPT !.stage = "done"].enabled = pool[s].enabled \/ pool[s] = None
    BY Zenon DEF TypeOK, Exporter
  <2>4. pool' = IF pool[s] # None THEN [pool EXCEPT ![s] = [pool[s] EXCEPT !.stage = "done"]] ELSE pool
    BY <1>1, <2>1, Zenon DEF Exits
  <2>5. UNCHANGED <<spec, view, held, fresh, pending, requested, clock, queued, faults>>
       /\ leaving' \subseteq leaving
    BY <1>1, Zenon DEF Exits
  <2> QED BY <2>2, <2>3, <2>4, <2>5, Zenon DEF TypeOK
<1>2. CASE Credential(s) \/ ComesOnline(s) \/ GoesOffline(s) \/ SetLeaseRef(s) \/ PodFails(s)
  <2>1. pool[s] # None /\ pool[s] \in Exporter
    BY <1>2, Zenon DEF Credential, ComesOnline, GoesOffline, SetLeaseRef, PodFails, TypeOK
  <2>2. PICK e \in Exporter : e.enabled = pool[s].enabled /\ Change(s, e)
    <3>1. /\ \A b \in BOOLEAN : /\ [pool[s] EXCEPT !.online = b].enabled = pool[s].enabled
                                /\ [pool[s] EXCEPT !.leased = b].enabled = pool[s].enabled
          /\ \A g \in {"ready", "done"} : [pool[s] EXCEPT !.stage = g].enabled = pool[s].enabled
      BY <2>1, Zenon DEF Exporter
    <3>2. (s \in held) \in BOOLEAN
      OBVIOUS
    <3> QED BY <1>2, <2>1, <3>1, <3>2, EditedType, Zenon
            DEF Credential, ComesOnline, GoesOffline, SetLeaseRef, PodFails
  <2>3. UNCHANGED <<spec, held, leaving, fresh, pending, requested>> /\ faults' \in 0 .. MaxFaults
    BY <1>2, FaultType, Zenon
    DEF Credential, ComesOnline, GoesOffline, SetLeaseRef, PodFails, leases, TypeOK
  <2> QED BY <2>1, <2>2, <2>3, Zenon DEF Change
<1> QED BY <1>1, <1>2, Zenon DEF Edited

(* The steps of a lease that has no exporter and gets none.                *)
Waits == RequestLease \/ SetStatusPending \/ SetStatusUnsatisfiable

LEMMA NextParts ==
    Next <=> \/ Reconcile \/ Waits \/ Restart \/ Tick
             \/ \E s \in Slots : Edited(s) \/ Sync(s) \/ Assign(s) \/ EndLease(s)
BY Zenon DEF Next, Edited, Progress, Waits

LEMMA OlderType ==
    ASSUME NEW age \in Ages
    PROVE  Older(age) \in Ages
BY SetAssumption DEF Older, Ages

LEMMA SetInvNext == SetInv /\ [Next]_vars => SetInv'
<1> SUFFICES ASSUME SetInv, [Next]_vars PROVE SetInv'
  OBVIOUS
<1> USE DEF SetInv
<1>1. CASE UNCHANGED vars
  BY <1>1, Zenon DEF vars, TypeOK
<1>2. CASE Waits
  <2>1. CASE RequestLease
    BY <2>1, SetAssumption DEF RequestLease, TypeOK, clock
  <2>2. CASE SetStatusPending
    BY <2>2, SetAssumption DEF SetStatusPending, TypeOK, clock
  <2>3. CASE SetStatusUnsatisfiable
    BY <2>3, SetAssumption DEF SetStatusUnsatisfiable, NoLongerWaits, TypeOK, clock
  <2> QED BY <1>2, <2>1, <2>2, <2>3, Zenon DEF Waits
<1>3. CASE Restart
  BY <1>3, FaultType, Zenon DEF Restart, TypeOK, leases, Ages, Delays
<1>4. CASE Tick
  <2>1. timer' \in Delays
    BY <1>4, SetAssumption DEF Tick, TypeOK, Delays
  <2>2. since' \in Ages /\ lastAction' \in Ages /\ calm' \in Ages
    BY <1>4, OlderType, Zenon DEF Tick, TypeOK
  <2> QED BY <1>4, <2>1, <2>2, Zenon DEF Tick, TypeOK, leases
<1>5. ASSUME NEW s \in Slots, Edited(s) PROVE SetInv'
  BY <1>5, EditedKeeps, Zenon DEF TypeOK, clock
<1>6. ASSUME NEW s \in Slots, Sync(s) PROVE SetInv'
  BY <1>6, Zenon DEF Sync, TypeOK, leases, clock
<1>7. ASSUME NEW s \in Slots, Assign(s) PROVE SetInv'
  BY <1>7, SetAssumption DEF Assign, NoLongerWaits, TypeOK, clock
<1>8. ASSUME NEW s \in Slots, EndLease(s) PROVE SetInv'
  BY <1>8, Zenon DEF EndLease, TypeOK, clock
<1> QED
  BY <1>1, <1>2, <1>3, <1>4, <1>5, <1>6, <1>7, <1>8, PassType, NextParts, Zenon

LEMMA SetInvariant == Spec => []SetInv
<1>1. Init => SetInv
  BY SetAssumption DEF Init, SetInv, TypeOK, Ages, Delays
<1> QED BY <1>1, SetInvNext, PTL DEF Spec

(* Every variable keeps its type; in particular a requeue is never put off *)
(* by less than a unit or more than a cooldown.                            *)
THEOREM SetTypeCorrect == Spec => []TypeOK
BY SetInvariant, PTL DEF SetInv

-----------------------------------------------------------------------------
(* The size of the pool.                                                   *)

(* What a pass counts in the cache includes every exporter there is.       *)
CacheShowsAll == \A s \in Slots : pool[s] # None => view[s] # None

LEMMA OwnedFinite ==
    ASSUME NEW p
    PROVE  IsFiniteSet(Owned(p)) /\ Cardinality(Owned(p)) \in Nat
<1>1. Owned(p) \subseteq Slots
  BY Zenon DEF Owned
<1> QED BY <1>1, FS_Subset, FS_CardinalityType, SetAssumption, Zenon

LEMMA ShownByDone ==
    ASSUME ReadYourWrites, CacheShowsAll, NEW p, NEW f, Done(p, f)
    PROVE  CacheShowsAll'
BY Zenon DEF CacheShowsAll, Done

(* Apart from scaleUp no step creates an exporter.                         *)
LEMMA OnlyScaleUpCreates ==
    ASSUME SetInv, [Next]_vars, NEW t \in Slots, pool[t] = None, pool'[t] # None
    PROVE  /\ ~atMaxReplicas(Cardinality(Owned(view)))
           /\ \A u \in Slots \ {t} : pool'[u] # None => pool[u] # None
<1>1. ASSUME NEW p, \A u \in Slots : p[u] # None => pool[u] # None, NEW f, Done(p, f)
      PROVE  FALSE
  BY <1>1, Zenon DEF Done
<1>2. \A u \in Slots : WithPods(pool)[u] # None => pool[u] # None
  BY Zenon DEF WithPods
<1>3. ~Cleanup /\ ~CleanupFails
  BY <1>1, Zenon DEF Cleanup, CleanupFails, Without
<1>4. ASSUME NEW n, NEW after, Steady(n, after) PROVE FALSE
  BY <1>1, <1>2, <1>4, Zenon DEF Steady
<1>5. ASSUME NEW s \in Slots, Disable(s) PROVE FALSE
  <2>1. pool[s] # None
    BY <1>5, Zenon DEF Disable, Candidates, Owned
  <2>2. \A u \in Slots : [pool EXCEPT ![s].enabled = FALSE][u] # None => pool[u] # None
    BY <2>1, Zenon DEF SetInv, TypeOK
  <2>3. \A u \in Slots : WithPods([pool EXCEPT ![s].enabled = FALSE])[u] # None => pool[u] # None
    BY <2>2, Zenon DEF WithPods
  <2> QED BY <1>1, <1>5, <2>3, Zenon DEF Disable
<1>6. CASE scaleUp \/ scaleUpFails
  <2>1. PICK s \in Free : \/ pool' = WithPods([pool EXCEPT ![s] = New])
                          \/ pool' = [pool EXCEPT ![s] = New]
    BY <1>6, Zenon DEF scaleUp, scaleUpFails, Done
  <2>2. \A u \in Slots \ {s} : pool'[u] # None => pool[u] # None
    BY <2>1, Zenon DEF WithPods, SetInv, TypeOK
  <2>3. ~atMaxReplicas(computePoolState(view).replicas)
    BY <1>6, Zenon DEF scaleUp, scaleUpFails, Grows
  <2> QED BY <2>2, <2>3, Zenon DEF computePoolState
<1>7. ASSUME NEW s \in Slots, Edited(s) PROVE FALSE
  BY <1>7, EditedKeeps, Zenon DEF SetInv, TypeOK
<1>8. CASE UNCHANGED pool
  BY <1>8, Zenon
<1>9. Waits \/ Restart \/ Tick => UNCHANGED pool
  BY Zenon DEF Waits, RequestLease, SetStatusPending, SetStatusUnsatisfiable, Restart, Tick
<1>10. ASSUME NEW s \in Slots, Sync(s) \/ Assign(s) \/ EndLease(s) \/ DisableConflict(s)
       PROVE  UNCHANGED pool
  BY <1>10, Zenon DEF Sync, Assign, EndLease, DisableConflict, vars
<1>11. Reconcile => scaleUp \/ scaleUpFails
  BY <1>3, <1>4, <1>5, <1>8, <1>10, Zenon
     DEF Reconcile, clearSurplusAnnotation, StillCooling, setSurplusAnnotation, StillSurplus
<1>12. UNCHANGED vars => UNCHANGED pool
  BY Zenon DEF vars
<1> QED BY <1>6, <1>7, <1>8, <1>9, <1>10, <1>11, <1>12, NextParts, Zenon

LEMMA ShownNext ==
    ASSUME ReadYourWrites, SetInv, CacheShowsAll, [Next]_vars
    PROVE  CacheShowsAll'
<1>1. CASE \E p, f : Done(p, f)
  BY <1>1, ShownByDone, Zenon
<1>2. CASE UNCHANGED <<pool, view>>
  BY <1>2, Zenon DEF CacheShowsAll
<1>3. ASSUME NEW s \in Slots, Edited(s) PROVE CacheShowsAll'
  BY <1>3, EditedKeeps, Zenon DEF CacheShowsAll, SetInv, TypeOK
<1>4. ASSUME NEW s \in Slots, Sync(s) PROVE CacheShowsAll'
  BY <1>4, Zenon DEF Sync, CacheShowsAll, SetInv, TypeOK
<1>5. CASE Restart
  BY <1>5, Zenon DEF Restart, CacheShowsAll
<1>6. ASSUME NEW s \in Slots, Assign(s) \/ EndLease(s) \/ DisableConflict(s)
      PROVE  UNCHANGED <<pool, view>>
  BY <1>6, Zenon DEF Assign, EndLease, DisableConflict, vars
<1>7. Waits \/ Tick \/ UNCHANGED vars => UNCHANGED <<pool, view>>
  BY Zenon DEF Waits, RequestLease, SetStatusPending, SetStatusUnsatisfiable, Tick, vars
<1>8. CASE Reconcile
  BY <1>1, <1>2, <1>6, <1>8, Zenon
     DEF Reconcile, Cleanup, CleanupFails, scaleUp, scaleUpFails, clearSurplusAnnotation,
         StillCooling, setSurplusAnnotation, StillSurplus, Steady, Disable
<1> QED BY <1>2, <1>3, <1>4, <1>5, <1>6, <1>7, <1>8, NextParts, Zenon

LEMMA WithinNext ==
    ASSUME SetInv, CacheShowsAll, WithinMax, [Next]_vars
    PROVE  WithinMax'
<1> SUFFICES ASSUME spec'.maxReplicas > 0
             PROVE  Cardinality(Owned(pool')) <= spec'.maxReplicas
  BY Zenon DEF WithinMax, Owned
<1>1. spec' = spec
  BY Zenon DEF Next, Reconcile, Cleanup, CleanupFails, scaleUp, scaleUpFails, clearSurplusAnnotation,
         StillCooling, setSurplusAnnotation, StillSurplus, Steady, Disable, DisableConflict,
         RequestLease, SetStatusPending, SetStatusUnsatisfiable, Restart, Tick,
         Progress, Sync, Credential, ComesOnline, GoesOffline, SetLeaseRef, Exits, PodFails, Assign, EndLease, leases, vars
<1>2. spec.maxReplicas \in Nat
  BY SetAssumption, Zenon DEF SetInv, TypeOK
<1>3. CASE Owned(pool') \subseteq Owned(pool)
  BY <1>1, <1>2, <1>3, OwnedFinite, FS_Subset DEF WithinMax
<1>4. CASE ~(Owned(pool') \subseteq Owned(pool))
  <2>1. PICK t \in Slots : pool[t] = None /\ pool'[t] # None
    BY <1>4, Zenon DEF Owned
  <2>2. /\ ~atMaxReplicas(Cardinality(Owned(view)))
        /\ \A u \in Slots \ {t} : pool'[u] # None => pool[u] # None
    BY <2>1, OnlyScaleUpCreates, Zenon
  <2>3. Owned(pool') \subseteq Owned(view) \cup {t}
    BY <2>2, Zenon DEF Owned, CacheShowsAll
  <2>4. Cardinality(Owned(view)) < spec.maxReplicas
    BY <1>1, <1>2, <2>2, OwnedFinite DEF atMaxReplicas
  <2>5. /\ IsFiniteSet(Owned(view) \cup {t})
        /\ Cardinality(Owned(view) \cup {t}) <= Cardinality(Owned(view)) + 1
    <3>1. IsFiniteSet(Owned(view)) /\ Cardinality(Owned(view)) \in Nat
      BY OwnedFinite, Zenon
    <3>2. /\ IsFiniteSet(Owned(view) \cup {t})
          /\ Cardinality(Owned(view) \cup {t}) =
               IF t \in Owned(view) THEN Cardinality(Owned(view)) ELSE Cardinality(Owned(view)) + 1
      BY <3>1, FS_AddElement, Zenon
    <3> QED BY <3>1, <3>2
  <2>6. Cardinality(Owned(pool')) <= Cardinality(Owned(view) \cup {t})
    BY <2>3, <2>5, FS_Subset, Zenon
  <2>7. Cardinality(Owned(view) \cup {t}) \in Nat
    BY <2>5, FS_CardinalityType, Zenon
  <2> QED BY <1>1, <1>2, <2>4, <2>5, <2>6, <2>7, OwnedFinite
<1> QED BY <1>3, <1>4, Zenon

(* Scale-up never brings the pool over maxReplicas, whatever the other     *)
(* actors, failed passes and restarts do in between, provided the cache    *)
(* shows a pass what earlier passes wrote.                                 *)
THEOREM PoolStaysWithinMax == ReadYourWrites => (Spec => []WithinMax)
<1> SUFFICES ASSUME ReadYourWrites PROVE Spec => []WithinMax
  OBVIOUS
<1>1. Init => CacheShowsAll /\ WithinMax
  <2> SUFFICES ASSUME Init PROVE CacheShowsAll /\ WithinMax
    OBVIOUS
  <2>1. CacheShowsAll
    BY Zenon DEF Init, CacheShowsAll
  <2>2. Owned(pool) = {}
    BY Zenon DEF Init, Owned
  <2>3. Cardinality(Owned(pool)) = 0
    BY <2>2, FS_EmptySet, Zenon
  <2> QED BY <2>1, <2>3, SetAssumption DEF Init, WithinMax
<1>2. SetInv /\ CacheShowsAll /\ WithinMax /\ [Next]_vars => CacheShowsAll' /\ WithinMax'
  BY ShownNext, WithinNext, Zenon
<1> QED BY <1>1, <1>2, SetInvariant, PTL DEF Spec

-----------------------------------------------------------------------------
(* Scaling down.                                                           *)

(* calm and the in-memory time of the last action start and end together.  *)
InMemory == calm = lastAction

LEMMA InMemoryNext == SetInv /\ InMemory /\ [Next]_vars => InMemory'
<1> SUFFICES ASSUME SetInv, InMemory, [Next]_vars PROVE InMemory'
  OBVIOUS
<1>1. CASE UNCHANGED <<calm, lastAction>>
  BY <1>1, Zenon DEF InMemory
<1>2. UNCHANGED vars \/ Waits => UNCHANGED <<calm, lastAction>>
  BY Zenon DEF vars, Waits, RequestLease, SetStatusPending, SetStatusUnsatisfiable, clock
<1>3. CASE Restart \/ Tick
  BY <1>3, Zenon DEF InMemory, Restart, Tick
<1>4. ASSUME NEW s \in Slots, Sync(s) \/ Assign(s) \/ EndLease(s) \/ DisableConflict(s)
      PROVE  UNCHANGED <<calm, lastAction>>
  BY <1>4, Zenon DEF Sync, Assign, EndLease, DisableConflict, clock, vars
<1>5. ASSUME NEW s \in Slots, Edited(s) PROVE UNCHANGED <<calm, lastAction>>
  BY <1>5, EditedKeeps, Zenon DEF SetInv, clock
<1>6. ASSUME NEW s \in Slots, Disable(s) PROVE InMemory'
  BY <1>6, Zenon DEF Disable, InMemory
<1>7. Cleanup \/ CleanupFails \/ scaleUp \/ scaleUpFails => UNCHANGED <<calm, lastAction>>
  BY Zenon DEF Cleanup, CleanupFails, scaleUp, scaleUpFails, clock
<1>8. ASSUME NEW n, NEW after, Steady(n, after) PROVE UNCHANGED <<calm, lastAction>>
  BY <1>8, Zenon DEF Steady
<1>9. CASE Reconcile
  BY <1>1, <1>4, <1>6, <1>7, <1>8, <1>9, Zenon
     DEF Reconcile, clearSurplusAnnotation, StillCooling, setSurplusAnnotation, StillSurplus
<1> QED BY <1>1, <1>2, <1>3, <1>4, <1>5, <1>9, NextParts, Zenon

(* Only Disable turns an exporter off, and not while it is cooling down.   *)
LEMMA OnlyDisableDisables ==
    ASSUME SetInv, [Next]_vars, NEW t \in Slots,
           pool[t] # None, pool'[t] # None, pool[t].enabled, ~pool'[t].enabled
    PROVE  ~CoolingDown
<1>1. ASSUME NEW p \in Pools, pool'[t] = WithPods(p)[t] \/ pool'[t] = p[t]
      PROVE  p[t] # pool[t]
  <2>1. [pool[t] EXCEPT !.stage = "pod"].enabled = pool[t].enabled
    BY Zenon DEF SetInv, TypeOK, Exporter
  <2> QED BY <1>1, <2>1, Zenon DEF WithPods
<1>2. pool \in Pools
  BY Zenon DEF SetInv, TypeOK, Pools
<1>3. ~UNCHANGED pool
  OBVIOUS
<1>4. ~Cleanup /\ ~CleanupFails
  BY Zenon DEF Cleanup, CleanupFails, Done, Without
<1>5. ASSUME NEW n, NEW after, Steady(n, after) PROVE FALSE
  BY <1>1, <1>2, <1>5, Zenon DEF Steady, Done
<1>6. CASE scaleUp \/ scaleUpFails
  <2>1. PICK s \in Free : \/ pool' = WithPods([pool EXCEPT ![s] = New])
                          \/ pool' = [pool EXCEPT ![s] = New]
    BY <1>6, Zenon DEF scaleUp, scaleUpFails, Done
  <2>2. [pool EXCEPT ![s] = New] \in Pools /\ s # t
    BY NewType, Zenon DEF SetInv, TypeOK, Pools, Free
  <2>3. [pool EXCEPT ![s] = New][t] = pool[t]
    BY <2>2
  <2> QED BY <1>1, <2>1, <2>2, <2>3, Zenon
<1>7. ASSUME NEW s \in Slots, Edited(s) PROVE FALSE
  BY <1>7, EditedKeeps, Zenon DEF SetInv, TypeOK
<1>8. Waits \/ Restart \/ Tick \/ UNCHANGED vars => UNCHANGED pool
  BY Zenon DEF Waits, RequestLease, SetStatusPending, SetStatusUnsatisfiable, Restart, Tick, vars
<1>9. ASSUME NEW s \in Slots, Sync(s) \/ Assign(s) \/ EndLease(s) \/ DisableConflict(s)
      PROVE  UNCHANGED pool
  BY <1>9, Zenon DEF Sync, Assign, EndLease, DisableConflict, vars
<1>10. ASSUME NEW s \in Slots, Disable(s) PROVE ~CoolingDown
  BY <1>10, Zenon DEF Disable, MayDisable
<1>11. CASE Reconcile
  BY <1>3, <1>4, <1>5, <1>6, <1>9, <1>10, <1>11
     DEF Reconcile, clearSurplusAnnotation, StillCooling, setSurplusAnnotation, StillSurplus
<1> QED BY <1>3, <1>7, <1>8, <1>9, <1>11, NextParts, Zenon

(* Between two restarts at most one exporter is disabled per cooldown,     *)
(* also when the renewal of the annotation is lost to a conflict.          *)
THEOREM DisablesOncePerCooldown == Spec => OneDisablePerCooldown
<1> DEFINE A == (\E s \in Slots : /\ pool[s] # None /\ pool'[s] # None
                                  /\ pool[s].enabled /\ ~pool'[s].enabled)
                => calm \in {None, Cooldown}
<1>1. SetInv /\ InMemory /\ [Next]_vars => [A]_vars
  <2> SUFFICES ASSUME SetInv, InMemory, [Next]_vars, NEW s \in Slots, pool[s] # None,
                      pool'[s] # None, pool[s].enabled, ~pool'[s].enabled
               PROVE  calm \in {None, Cooldown}
    OBVIOUS
  <2>1. ~CoolingDown
    BY OnlyDisableDisables, Zenon
  <2> QED BY <2>1, SetAssumption DEF SetInv, TypeOK, InMemory, CoolingDown, Ages
<1>2. Init => InMemory
  BY Zenon DEF Init, InMemory
<1>3. OneDisablePerCooldown <=> [][A]_vars
  BY Zenon DEF OneDisablePerCooldown
<1> HIDE DEF A
<1> QED BY <1>1, <1>2, <1>3, InMemoryNext, SetInvariant, PTL DEF Spec

-----------------------------------------------------------------------------
(* When no pass is to come.                                                *)

(* There is nothing for a pass to do about p: nothing to delete, no reason *)
(* to grow or to shrink, no exporter that waits for its pod.               *)
AtRest(p) ==
    /\ Drained(p) = {} /\ Terminal(p) = {}
    /\ ~Grows(computePoolState(p)) /\ ~Surplus(computePoolState(p))
    /\ \A s \in Owned(p) : p[s].enabled => p[s].stage \in {"pod", "done"}

(* The cache shows of s what will not be true again.                       *)
Outdated(s) ==
    \/ view[s] # None /\ pool[s] = None
    \/ view[s] = None /\ pool[s] # None
    \/ /\ view[s] # None /\ pool[s] # None
       /\ \/ view[s].enabled /\ ~pool[s].enabled
          \/ view[s].stage \in {"new", "ready"} /\ pool[s].stage \in {"pod", "done"}

SleepsAtRest == ~queued /\ timer = None => AtRest(view) \/ \E s \in Slots : Outdated(s)

(* The cache shows no credential that the exporter does not have.          *)
NewIsNew ==
    \A s \in Slots : view[s] # None /\ pool[s] # None /\ pool[s].stage = "new" => view[s].stage = "new"

(* An exporter is deleted only if the cache shows it, and made only if the *)
(* cache has forgotten its name; else it goes on from stage to stage, and  *)
(* is not enabled again.                                                   *)
Advances(s) ==
    \/ pool'[s] = pool[s]
    \/ pool'[s] = None /\ view[s] # None
    \/ pool[s] = None /\ view[s] = None
    \/ /\ pool[s] # None /\ pool'[s] # None
       /\ pool'[s].enabled => pool[s].enabled
       /\ pool[s].stage \in {"pod", "done"} => pool'[s].stage \in {"pod", "done"}
       /\ pool'[s].stage = "new" => pool[s].stage = "new"

LEMMA PodsAdvance ==
    ASSUME NEW p \in Pools, NEW t \in Slots
    PROVE  \/ WithPods(p)[t] = p[t]
           \/ /\ p[t] # None /\ p[t].stage = "ready" /\ WithPods(p)[t] # None
              /\ WithPods(p)[t].enabled = p[t].enabled /\ WithPods(p)[t].stage = "pod"
<1>1. \/ WithPods(p)[t] = p[t]
      \/ /\ p[t] # None /\ p[t].stage = "ready"
         /\ WithPods(p)[t] = [p[t] EXCEPT !.stage = "pod"]
  BY Zenon DEF WithPods
<1>2. p[t] # None =>
        /\ [p[t] EXCEPT !.stage = "pod"] \in Exporter
        /\ [p[t] EXCEPT !.stage = "pod"].enabled = p[t].enabled
        /\ [p[t] EXCEPT !.stage = "pod"].stage = "pod"
  BY Zenon DEF Pools, Exporter
<1> QED BY <1>1, <1>2, NoneAssumption, Zenon

LEMMA EditedAdvances ==
    ASSUME TypeOK, NEW s \in Slots, Edited(s)
    PROVE  \A t \in Slots : Advances(t)
<1>1. CASE pool[s] = None
  BY <1>1, EditedKeeps, Zenon DEF Advances
<1>2. CASE pool[s] # None
  <2>0. pool[s] \in Exporter /\ pool \in [Slots -> Exporter \cup {None}]
    BY <1>2, Zenon DEF TypeOK
  <2>1. PICK e \in Exporter : e.enabled = pool[s].enabled /\ pool' = [pool EXCEPT ![s] = e]
    BY <1>2, EditedKeeps, Zenon
  <2>2. pool'[s] = e /\ \A t \in Slots \ {s} : pool'[t] = pool[t]
    BY <2>0, <2>1, Zenon
  <2>3. \/ e.stage = pool[s].stage
        \/ pool[s].stage = "new" /\ e.stage = "ready"
        \/ e.stage = "done"
    <3>1. /\ \A b \in BOOLEAN : /\ [pool[s] EXCEPT !.online = b].stage = pool[s].stage
                                /\ [pool[s] EXCEPT !.leased = b].stage = pool[s].stage
          /\ \A g \in {"ready", "done"} : [pool[s] EXCEPT !.stage = g].stage = g
      BY <2>0, Zenon DEF Exporter
    <3>2. CASE Credential(s)
      <4>1. pool' = [pool EXCEPT ![s] = [pool[s] EXCEPT !.stage = "ready"]] /\ pool[s].stage = "new"
        BY <3>2, Zenon DEF Credential, Change
      <4>2. pool'[s] = [pool[s] EXCEPT !.stage = "ready"]
        BY <2>0, <4>1, Zenon
      <4> QED BY <2>2, <3>1, <4>1, <4>2, Zenon
    <3>3. CASE ComesOnline(s)
      <4>1. pool'[s] = [pool[s] EXCEPT !.online = TRUE]
        BY <2>0, <3>3, Zenon DEF ComesOnline, Change
      <4> QED BY <2>2, <3>1, <4>1, Zenon
    <3>4. CASE GoesOffline(s)
      <4>1. pool'[s] = [pool[s] EXCEPT !.online = FALSE]
        BY <2>0, <3>4, Zenon DEF GoesOffline, Change
      <4> QED BY <2>2, <3>1, <4>1, Zenon
    <3>5. CASE SetLeaseRef(s)
      <4>1. pool'[s] = [pool[s] EXCEPT !.leased = (s \in held)]
        BY <2>0, <3>5, Zenon DEF SetLeaseRef, Change
      <4>2. (s \in held) \in BOOLEAN
        OBVIOUS
      <4> QED BY <2>2, <3>1, <4>1, <4>2, Zenon
    <3>6. CASE PodFails(s)
      <4>1. pool'[s] = [pool[s] EXCEPT !.stage = "done"]
        BY <2>0, <3>6, Zenon DEF PodFails, Change
      <4> QED BY <2>2, <3>1, <4>1, Zenon
    <3>7. CASE Exits(s)
      <4>1. pool'[s] = [pool[s] EXCEPT !.stage = "done"]
        BY <1>2, <2>0, <3>7 DEF Exits
      <4> QED BY <2>2, <3>1, <4>1, Zenon
    <3> QED BY <3>2, <3>3, <3>4, <3>5, <3>6, <3>7, Zenon DEF Edited
  <2>4. Advances(s)
    BY <1>2, <2>1, <2>2, <2>3, NoneAssumption, Zenon DEF Advances
  <2> QED BY <2>2, <2>4, Zenon DEF Advances
<1> QED BY <1>1, <1>2, Zenon

LEMMA PoolAdvances ==
    ASSUME SetInv, [Next]_vars
    PROVE  \A t \in Slots : Advances(t)
<1>0. pool \in Pools /\ TypeOK
  BY Zenon DEF SetInv, TypeOK, Pools
<1>1. CASE UNCHANGED pool
  BY <1>1, Zenon DEF Advances
<1>2. ASSUME NEW D \in SUBSET Doomed, pool' = Without(D)
      PROVE  \A t \in Slots : Advances(t)
  <2>1. \A t \in Doomed : view[t] # None
    BY Zenon DEF Doomed, Drained, Terminal, Owned
  <2> QED BY <1>2, <2>1, Zenon DEF Without, Advances
<1>3. ASSUME pool' = WithPods(pool)
      PROVE  \A t \in Slots : Advances(t)
  BY <1>0, <1>3, PodsAdvance, Zenon DEF Advances
<1>4. CASE scaleUp \/ scaleUpFails
  <2>1. PICK s \in Free : \/ pool' = WithPods([pool EXCEPT ![s] = New])
                          \/ pool' = [pool EXCEPT ![s] = New]
    BY <1>4, Zenon DEF scaleUp, scaleUpFails, Done
  <2>2. /\ [pool EXCEPT ![s] = New] \in Pools /\ pool[s] = None /\ view[s] = None
        /\ \A t \in Slots \ {s} : [pool EXCEPT ![s] = New][t] = pool[t]
    BY <1>0, NewType, Zenon DEF Pools, Free
  <2>3. ASSUME NEW t \in Slots, t # s PROVE Advances(t)
    <3>1. CASE pool'[t] = pool[t]
      BY <3>1, Zenon DEF Advances
    <3>2. CASE pool' = WithPods([pool EXCEPT ![s] = New])
      <4>1. [pool EXCEPT ![s] = New][t] = pool[t]
        BY <2>2, <2>3, Zenon
      <4> DEFINE p == [pool EXCEPT ![s] = New]
      <4>2. p \in Pools /\ p[t] = pool[t] /\ pool' = WithPods(p)
        BY <2>2, <3>2, <4>1, Zenon
      <4> HIDE DEF p
      <4>3. \/ pool'[t] = p[t]
            \/ /\ p[t] # None /\ p[t].stage = "ready" /\ pool'[t] # None
               /\ pool'[t].enabled = p[t].enabled /\ pool'[t].stage = "pod"
        BY <4>2, PodsAdvance, Zenon
      <4> QED BY <4>2, <4>3, Zenon DEF Advances
    <3> QED BY <2>1, <2>2, <2>3, <3>1, <3>2, Zenon
  <2>4. Advances(s)
    BY <2>2, Zenon DEF Advances
  <2> QED BY <2>3, <2>4, Zenon
<1>5. ASSUME NEW s \in Slots, Disable(s) PROVE \A t \in Slots : Advances(t)
  <2>1. pool[s] # None /\ pool[s] \in Exporter
    BY <1>0, <1>5, Zenon DEF Disable, Candidates, Owned, Pools
  <2> DEFINE e == [pool[s] EXCEPT !.enabled = FALSE]
             p == [pool EXCEPT ![s] = e]
  <2>2. e \in Exporter /\ e.enabled = FALSE /\ e.stage = pool[s].stage
    BY <2>1, Zenon DEF Exporter
  <2>3. [pool EXCEPT ![s].enabled = FALSE] = p
    BY <1>0 DEF Pools
  <2>4. pool' = WithPods(p)
    BY <1>5, <2>3, Zenon DEF Disable, Done
  <2> HIDE DEF e
  <2>5. p \in Pools /\ p[s] = e /\ \A t \in Slots \ {s} : p[t] = pool[t]
    BY <1>0, <2>2, Zenon DEF Pools
  <2> HIDE DEF p
  <2>6. ASSUME NEW t \in Slots PROVE Advances(t)
    <3>1. \/ pool'[t] = p[t]
          \/ /\ p[t] # None /\ p[t].stage = "ready" /\ pool'[t] # None
             /\ pool'[t].enabled = p[t].enabled /\ pool'[t].stage = "pod"
      BY <2>4, <2>5, PodsAdvance, Zenon
    <3>2. CASE t = s
      BY <2>1, <2>2, <2>5, <3>1, <3>2, NoneAssumption, Zenon DEF Advances
    <3>3. CASE t # s
      BY <2>5, <3>1, <3>3, Zenon DEF Advances
    <3> QED BY <3>2, <3>3, Zenon
  <2> QED BY <2>6, Zenon
<1>6. CASE Cleanup \/ CleanupFails
  BY <1>2, <1>6, Zenon DEF Cleanup, CleanupFails, Done
<1>7. ASSUME NEW n, NEW after, Steady(n, after) PROVE \A t \in Slots : Advances(t)
  BY <1>3, <1>7, Zenon DEF Steady, Done
<1>8. Waits \/ Restart \/ Tick \/ UNCHANGED vars => UNCHANGED pool
  BY Zenon DEF Waits, RequestLease, SetStatusPending, SetStatusUnsatisfiable, Restart, Tick, vars
<1>9. ASSUME NEW s \in Slots, Sync(s) \/ Assign(s) \/ EndLease(s) \/ DisableConflict(s)
      PROVE  UNCHANGED pool
  BY <1>9, Zenon DEF Sync, Assign, EndLease, DisableConflict, vars
<1>10. CASE Reconcile
  BY <1>1, <1>4, <1>5, <1>6, <1>7, <1>9, <1>10, Zenon
     DEF Reconcile, clearSurplusAnnotation, StillCooling, setSurplusAnnotation, StillSurplus
<1> QED BY <1>0, <1>1, <1>8, <1>9, <1>10, EditedAdvances, NextParts, Zenon

LEMMA NewNext ==
    ASSUME SetInv, NewIsNew, [Next]_vars
    PROVE  NewIsNew'
<1>1. \A t \in Slots : view'[t] = view[t] \/ view'[t] = pool'[t]
  <2>0. view \in [Slots -> Exporter \cup {None}]
    BY Zenon DEF SetInv, TypeOK
  <2>1. CASE UNCHANGED view
    BY <2>1, Zenon
  <2>2. ASSUME NEW p, NEW f, Done(p, f)
        PROVE  \A t \in Slots : view'[t] = view[t] \/ view'[t] = pool'[t]
    BY <2>2, Zenon DEF Done
  <2>3. ASSUME NEW s \in Slots, Sync(s)
        PROVE  \A t \in Slots : view'[t] = view[t] \/ view'[t] = pool'[t]
    BY <2>0, <2>3, Zenon DEF Sync
  <2>4. CASE Restart
    BY <2>4, Zenon DEF Restart
  <2>5. ASSUME NEW s \in Slots, Edited(s) \/ Assign(s) \/ EndLease(s) \/ DisableConflict(s)
        PROVE  UNCHANGED view
    BY <2>5, EditedKeeps, Zenon DEF Assign, EndLease, DisableConflict, vars, SetInv
  <2>6. Waits \/ Tick \/ UNCHANGED vars => UNCHANGED view
    BY Zenon DEF Waits, RequestLease, SetStatusPending, SetStatusUnsatisfiable, Tick, vars
  <2>7. CASE Reconcile
    <3>1. (\E p, f : Done(p, f)) \/ \E s \in Slots : DisableConflict(s)
      BY <2>7, Zenon
         DEF Reconcile, Cleanup, CleanupFails, scaleUp, scaleUpFails, clearSurplusAnnotation,
             StillCooling, setSurplusAnnotation, StillSurplus, Steady, Disable
    <3> QED BY <2>1, <2>2, <2>5, <3>1, Zenon
  <2> QED BY <2>1, <2>3, <2>4, <2>5, <2>6, <2>7, NextParts, Zenon
<1>2. \A t \in Slots : Advances(t)
  BY PoolAdvances, Zenon
<1> SUFFICES ASSUME NEW t \in Slots, view'[t] # None, pool'[t] # None, pool'[t].stage = "new"
             PROVE  view'[t].stage = "new"
  BY Zenon DEF NewIsNew
<1>3. CASE view'[t] = pool'[t]
  BY <1>3, Zenon
<1>4. CASE view'[t] = view[t]
  <2>1. pool[t] # None /\ pool[t].stage = "new"
    BY <1>2, <1>4, Zenon DEF Advances
  <2> QED BY <1>4, <2>1, Zenon DEF NewIsNew
<1> QED BY <1>1, <1>3, <1>4, Zenon

LEMMA OutdatedStays ==
    ASSUME NEW s \in Slots, Outdated(s), Advances(s), view' = view
    PROVE  Outdated(s)'
<1>1. CASE pool'[s] = pool[s]
  BY <1>1, Zenon DEF Outdated
<1>2. CASE pool'[s] = None /\ view[s] # None
  BY <1>2, Zenon DEF Outdated
<1>3. CASE pool[s] # None /\ pool'[s] # None
  BY <1>3, Zenon DEF Outdated, Advances
<1> QED BY <1>1, <1>2, <1>3, Zenon DEF Outdated, Advances

(* No more demand than before, and nothing new to see.                     *)
Still == UNCHANGED <<spec, view>> /\ (pending' > 0 => pending > 0)

LEMMA RestStays ==
    ASSUME Still, AtRest(view)
    PROVE  AtRest(view)'
<1> USE DEF Still
<1>1. Drained(view)' = {} /\ \A s \in Owned(view)' : view'[s].enabled => view'[s].stage \in {"pod", "done"}
  BY Zenon DEF AtRest
<1>2. Terminal(view)' = {}
  BY DEF AtRest, Terminal, Owned
<1>3. computePoolState(view)' = computePoolState(view)
  BY Zenon
<1>4. ~Grows(computePoolState(view))' /\ ~Surplus(computePoolState(view))'
  BY <1>3, Zenon DEF AtRest, Grows, Surplus, atMaxReplicas
<1> QED BY <1>1, <1>2, <1>4, Zenon DEF AtRest

(* A requeue that was asked for is there.                                  *)
LEMMA RequeueSets ==
    ASSUME TypeOK, NEW after \in Delays, Requeue(after), timer' = None
    PROVE  after = None
BY Zenon DEF Requeue

(* What a pass without deletion or creation leaves, if no other is to come.*)
LEMMA SteadyRests ==
    ASSUME SetInv, NewIsNew, NEW n, NEW after \in Delays, Steady(n, after),
           after = None => ~Surplus(computePoolState(view)),
           ~queued', timer' = None
    PROVE  AtRest(view)' \/ \E s \in Slots : Outdated(s)'
<1>0. 1 \in Delays /\ 1 # None
  BY SetAssumption, NoneAssumption DEF Delays
<1>1. /\ view' = view /\ pool' = WithPods(pool) /\ UNCHANGED <<spec, pending>>
      /\ Doomed = {} /\ ~Grows(computePoolState(view))
  BY Zenon DEF Steady, Done, leases
<1>2. after = None /\ ~Waiting
  <2>1. (IF after = None /\ Waiting THEN 1 ELSE after) \in Delays
    BY <1>0, Zenon
  <2>2. (IF after = None /\ Waiting THEN 1 ELSE after) = None
    BY <2>1, RequeueSets, Zenon DEF Steady, SetInv
  <2> QED BY <1>0, <2>2, Zenon
<1>3. Drained(view) = {} /\ Terminal(view) = {}
  BY <1>1, Zenon DEF Doomed
<1>4. CASE \A s \in Owned(view) : view[s].enabled => view[s].stage \in {"pod", "done"}
  <2>1. AtRest(view)
    BY <1>1, <1>2, <1>3, <1>4, Zenon DEF AtRest
  <2> QED BY <1>1, <2>1, RestStays, Zenon DEF Still
<1>5. ASSUME NEW s \in Owned(view), view[s].enabled, view[s].stage \notin {"pod", "done"}
      PROVE  s \in Slots /\ Outdated(s)'
  <2>1. s \in Slots /\ view[s] # None /\ view[s].stage = "ready"
    <3>1. s \in Slots /\ view[s] # None
      BY Zenon DEF Owned
    <3>2. view[s].stage \in {"new", "ready", "pod", "done"}
      BY <3>1, Zenon DEF SetInv, TypeOK, Exporter
    <3>3. view[s].stage # "new"
      BY <1>2, <1>5, Zenon DEF Waiting
    <3> QED BY <1>5, <3>1, <3>2, <3>3, Zenon
  <2>2. CASE pool[s] = None
    <3>1. pool'[s] = None
      BY <1>1, <2>1, <2>2, Zenon DEF WithPods
    <3> QED BY <1>1, <2>1, <3>1, Zenon DEF Outdated
  <2>3. CASE pool[s] # None
    <3>1. pool[s] \in Exporter /\ pool[s].stage \in {"ready", "pod", "done"}
      <4>1. pool[s] \in Exporter
        BY <2>1, <2>3, Zenon DEF SetInv, TypeOK
      <4>2. pool[s].stage # "new"
        BY <2>1, <2>3, Zenon DEF NewIsNew
      <4> QED BY <4>1, <4>2, Zenon DEF Exporter
    <3>2. pool'[s] # None /\ pool'[s].stage \in {"pod", "done"}
      <4>1. pool'[s] = IF pool[s].stage = "ready" THEN [pool[s] EXCEPT !.stage = "pod"] ELSE pool[s]
        BY <1>1, <1>5, <2>1, <2>3, Zenon DEF WithPods
      <4>2. [pool[s] EXCEPT !.stage = "pod"] \in Exporter /\ [pool[s] EXCEPT !.stage = "pod"].stage = "pod"
        BY <3>1, Zenon DEF Exporter
      <4> QED BY <2>3, <3>1, <4>1, <4>2, NoneAssumption, Zenon
    <3> QED BY <1>1, <2>1, <3>2, Zenon DEF Outdated
  <2> QED BY <2>1, <2>2, <2>3, Zenon
<1> QED BY <1>4, <1>5, Zenon

LEMMA RestNext ==
    ASSUME SetInv, NewIsNew, SleepsAtRest, [Next]_vars
    PROVE  SleepsAtRest'
<1> SUFFICES ASSUME ~queued', timer' = None
             PROVE  AtRest(view)' \/ \E s \in Slots : Outdated(s)'
  BY Zenon DEF SleepsAtRest
<1>0. TypeOK /\ \A t \in Slots : Advances(t)
  BY PoolAdvances, Zenon DEF SetInv
<1>1. CASE ~queued /\ timer = None /\ Still
  <2>1. CASE AtRest(view)
    BY <1>1, <2>1, RestStays, Zenon
  <2>2. CASE \E s \in Slots : Outdated(s)
    BY <1>0, <1>1, <2>2, OutdatedStays, Zenon DEF Still
  <2> QED BY <1>1, <2>1, <2>2, Zenon DEF SleepsAtRest
<1>2. ASSUME NEW s \in Slots, Edited(s)
      PROVE  ~queued /\ timer = None /\ Still
  BY <1>0, <1>2, EditedKeeps, Zenon DEF clock, Still
<1>3. ASSUME NEW s \in Slots, EndLease(s)
      PROVE  ~queued /\ timer = None /\ Still
  BY <1>3, Zenon DEF EndLease, clock, Still
<1>4. UNCHANGED vars => ~queued /\ timer = None /\ Still
  BY DEF vars, Still
<1>5. ASSUME Tick
      PROVE  ~queued /\ timer = None /\ Still
  <2>1. /\ queued' = (queued \/ timer = 1) /\ Still
        /\ timer' = IF timer \in {None, 1} THEN None ELSE timer - 1
    BY <1>5, Zenon DEF Tick, leases, Still
  <2>2. ~queued /\ timer # 1
    BY <2>1, Zenon
  <2>3. timer # None => timer - 1 \in 0 .. Cooldown
    BY <1>0, SetAssumption DEF TypeOK, Delays
  <2>4. timer = None
    BY <2>1, <2>2, <2>3, NoneAssumption, Zenon
  <2> QED BY <2>1, <2>2, <2>4, Zenon
<1>6a. ASSUME SetStatusUnsatisfiable
       PROVE  ~queued /\ timer = None /\ Still
  BY <1>0, <1>6a DEF SetStatusUnsatisfiable, NoLongerWaits, clock, Still, TypeOK
<1>6. ~RequestLease /\ ~SetStatusPending /\ ~Restart /\ ~CleanupFails /\ ~scaleUpFails
  BY Zenon DEF RequestLease, SetStatusPending, Restart, CleanupFails, scaleUpFails, Done
<1>7. \A s \in Slots : ~Sync(s) /\ ~Assign(s) /\ ~DisableConflict(s)
  BY <1>4, Zenon DEF Sync, Assign, DisableConflict
<1>8. ASSUME NEW s \in Slots, Disable(s) PROVE FALSE
  <2>1. Cooldown \in Delays /\ Cooldown # None
    BY SetAssumption, NoneAssumption DEF Delays
  <2> QED BY <1>0, <1>8, <2>1, RequeueSets, Zenon DEF Disable
<1>9. CASE Cleanup
  <2>1. PICK s : s \in Doomed
    BY <1>9, Zenon DEF Cleanup
  <2>2. s \in Slots /\ view[s] # None
    BY <2>1, Zenon DEF Doomed, Drained, Terminal, Owned
  <2>3. pool'[s] = None /\ view' = view
    BY <1>9, <2>1, <2>2, Zenon DEF Cleanup, Done, Without
  <2> QED BY <2>2, <2>3, Zenon DEF Outdated
<1>10. CASE scaleUp
  <2>1. PICK s \in Free : pool' = WithPods([pool EXCEPT ![s] = New]) /\ view' = view
    BY <1>10, Zenon DEF scaleUp, Done
  <2>2. s \in Slots /\ view[s] = None
    BY Zenon DEF Free
  <2> DEFINE p == [pool EXCEPT ![s] = New]
  <2>3. p \in Pools /\ p[s] = New
    BY <1>0, <2>2, NewType, Zenon DEF TypeOK, Pools
  <2>4. pool' = WithPods(p)
    BY <2>1, Zenon
  <2> HIDE DEF p
  <2>5. pool'[s] # None
    BY <2>2, <2>3, <2>4, PodsAdvance, NewType, NoneAssumption, Zenon
  <2> QED BY <2>1, <2>2, <2>5, Zenon DEF Outdated
<1>11. CASE clearSurplusAnnotation
  <2>1. None \in Delays
    BY Zenon DEF Delays
  <2> QED BY <1>11, <2>1, SteadyRests, Zenon DEF clearSurplusAnnotation
<1>12. CASE StillCooling
  <2>1. Cooldown - lastAction \in 1 .. Cooldown
    BY <1>0, <1>12, SetAssumption, NoneAssumption DEF StillCooling, CoolingDown, TypeOK, Ages
  <2>2. Cooldown - lastAction \in Delays /\ Cooldown - lastAction # None
    BY <2>1, SetAssumption, NoneAssumption DEF Delays
  <2> QED BY <1>12, <2>2, SteadyRests, Zenon DEF StillCooling
<1>13. CASE setSurplusAnnotation
  <2>1. Cooldown \in Delays /\ Cooldown # None
    BY SetAssumption, NoneAssumption DEF Delays
  <2> QED BY <1>13, <2>1, SteadyRests, Zenon DEF setSurplusAnnotation
<1>14. CASE StillSurplus
  <2>1. Cooldown - since \in 1 .. Cooldown
    BY <1>0, <1>14, SetAssumption, NoneAssumption DEF StillSurplus, TypeOK, Ages
  <2>2. Cooldown - since \in Delays /\ Cooldown - since # None
    BY <2>1, SetAssumption, NoneAssumption DEF Delays
  <2> QED BY <1>14, <2>2, SteadyRests, Zenon DEF StillSurplus
<1>15. CASE Reconcile
  BY <1>6, <1>7, <1>8, <1>9, <1>10, <1>11, <1>12, <1>13, <1>14, <1>15, Zenon DEF Reconcile
<1> QED BY <1>1, <1>2, <1>3, <1>4, <1>5, <1>6a, <1>6, <1>7, <1>15, NextParts, Zenon DEF Waits

(* Without a pass to come, and with a cache that is up to date.            *)
QuietIsSettled == ~queued /\ timer = None /\ view = pool => AtRest(pool)

(* The set never falls asleep over work: when it is neither queued nor to  *)
(* be requeued and the cache is up to date, no exporter is left to delete, *)
(* none is missing or too many, and each enabled one has its pod.  Every   *)
(* early return of Reconcile asks for the requeue, or makes the write      *)
(* whose event brings the next pass.                                       *)
THEOREM SetSleepsSettled == Spec => []QuietIsSettled
<1>1. Init => NewIsNew /\ SleepsAtRest
  BY Zenon DEF Init, NewIsNew, SleepsAtRest
<1>2. SetInv /\ NewIsNew /\ SleepsAtRest /\ [Next]_vars => NewIsNew' /\ SleepsAtRest'
  BY NewNext, RestNext, Zenon
<1>3. SleepsAtRest => QuietIsSettled
  BY Zenon DEF SleepsAtRest, QuietIsSettled, Outdated
<1> QED BY <1>1, <1>2, <1>3, SetInvariant, PTL DEF Spec

=============================================================================
