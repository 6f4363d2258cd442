------------------------ MODULE RHDHNamespaceProofs ------------------------
(***************************************************************************)
(* Proofs about RHDHNamespace for any number of Orchestrator resources,    *)
(* any of their specs, failed calls and restarts.                          *)
(***************************************************************************)
EXTENDS RHDHNamespace, TLAPS

-----------------------------------------------------------------------------
(* A rendered config map is never empty, and has the domain it is given.   *)
LEMMA Renders ==
  ASSUME TypeOK, NEW r \in Orchestrators, NEW c \in ConfigMaps
  PROVE  /\ Rendered(r, c) \in SUBSET Sections
         /\ Rendered(r, c) # Unmade
         /\ c = "app-config-rhdh" /\ host[r] => "domain" \in Rendered(r, c)
<1>1. c \in ConfigMapNames
  BY InputAssumption
<1> QED
  BY <1>1 DEF Rendered, GetOrCreateConfigMaps, ConfigMapTemplateFactory, When,
              Sections, Flags, ConfigMapNames, Unmade

(* One more config map in the namespace.                                   *)
LEMMA OneMore ==
  ASSUME TypeOK, NEW r \in Orchestrators, NEW c \in ConfigMaps,
         space' = [space EXCEPT !.cms[c] = Rendered(r, c)]
  PROVE  /\ space' \in Space
         /\ space'.ns = space.ns /\ space'.backstages = space.backstages
         /\ Made' = Made \union {c}
         /\ \A d \in ConfigMaps \ {c} : space'.cms[d] = space.cms[d]
         /\ space'.cms[c] = Rendered(r, c)
<1> DEFINE cms == [space.cms EXCEPT ![c] = Rendered(r, c)]
<1>1. space' = [space EXCEPT !.cms = cms]
  BY DEF TypeOK, Space
<1>2. cms \in [ConfigMaps -> SUBSET Sections]
  BY Renders DEF TypeOK, Space
<1>3. \A d \in ConfigMaps : cms[d] = IF d = c THEN Rendered(r, c) ELSE space.cms[d]
  BY DEF TypeOK, Space
<1> HIDE DEF cms
<1>4. space' \in Space /\ space'.cms = cms
  BY <1>1, <1>2 DEF TypeOK, Space
<1>5. space'.ns = space.ns /\ space'.backstages = space.backstages
  BY <1>1 DEF TypeOK, Space
<1> QED BY <1>3, <1>4, <1>5, Renders DEF Made, Unmade

(* The rest of what a worker does to the namespace.                        *)
LEMMA SpaceTypes ==
  ASSUME TypeOK, NEW r \in Orchestrators
  PROVE  /\ [space EXCEPT !.secret = TRUE] \in Space
         /\ [space EXCEPT !.backstages = @ \union {r}] \in Space
         /\ [space EXCEPT !.ns = "labelled"] \in Space
         /\ [space EXCEPT !.ns = "terminating"] \in Space
  BY DEF TypeOK, Space, NamespaceStates

LEMMA CountTypes ==
  ASSUME TypeOK, Fault \/ NoFault
  PROVE  faults' \in 0..MaxFaults
  BY InputAssumption DEF TypeOK, Fault, NoFault

(* The worker's own state.                                                 *)
WorkerOK == /\ queue \in SUBSET Orchestrators
            /\ pc \in [Orchestrators -> Steps]
            /\ host \in [Orchestrators -> BOOLEAN]
            /\ left \in [Orchestrators -> SUBSET ConfigMaps]
            /\ known \in [Orchestrators -> SUBSET Orchestrators]

LEMMA MoveTypes ==
  ASSUME WorkerOK, NEW r \in Orchestrators
  PROVE  /\ Return(r) \/ Fail(r) => WorkerOK'
         /\ \A step \in Steps : Goto(r, step) => WorkerOK'
<1>1. Return(r) \/ Fail(r) => WorkerOK'
  BY DEF WorkerOK, Return, Fail, Stop, Steps
<1>2. \A step \in Steps : Goto(r, step) => WorkerOK'
  BY DEF WorkerOK, Goto
<1> QED BY <1>1, <1>2

LEMMA TypeInit == Init => TypeOK
<1> SUFFICES ASSUME Init PROVE TypeOK
  OBVIOUS
<1>1. space \in Space
  BY DEF Init, Space, NamespaceStates, Unmade
<1>2. cache \in Caches
  BY DEF Init, Caches, NamespaceStates
<1>3. domain \in DomainStates
  BY InputAssumption DEF Init, DomainStates
<1>4. pc \in [Orchestrators -> Steps]
  BY DEF Init, Steps
<1>5. /\ host \in [Orchestrators -> BOOLEAN]
      /\ left \in [Orchestrators -> SUBSET ConfigMaps]
      /\ known \in [Orchestrators -> SUBSET Orchestrators]
  BY DEF Init
<1>6. faults \in 0..MaxFaults
  BY InputAssumption DEF Init
<1> QED BY <1>1, <1>2, <1>3, <1>4, <1>5, <1>6 DEF Init, TypeOK

LEMMA TypeReconcileRHDH ==
  ASSUME TypeOK, NEW r \in Orchestrators, reconcileRHDH(r)
  PROVE  TypeOK'
<1>0. WorkerOK
  BY DEF TypeOK, WorkerOK
<1>1. CASE getClusterDomain(r)
  <2>1. WorkerOK'
    BY <1>0, <1>1, MoveTypes DEF getClusterDomain, WorkerOK, Steps
  <2>2. faults' \in 0..MaxFaults
    BY <1>1, CountTypes DEF getClusterDomain
  <2> QED BY <1>1, <2>1, <2>2 DEF getClusterDomain, TypeOK, WorkerOK
<1>2. CASE CreateRHDHSecret(r)
  <2>1. WorkerOK'
    BY <1>0, <1>2, MoveTypes DEF CreateRHDHSecret, WorkerOK, Steps
  <2>2. faults' \in 0..MaxFaults
    BY <1>2, CountTypes DEF CreateRHDHSecret
  <2>3. space' \in Space
    BY <1>2, SpaceTypes DEF CreateRHDHSecret, TypeOK
  <2> QED BY <1>2, <2>1, <2>2, <2>3 DEF CreateRHDHSecret, TypeOK, WorkerOK
<1>3. CASE configMapLoop(r)
  <2>1. ASSUME NEW c \in left[r], CreateConfigMap(r, c) PROVE TypeOK'
    <3>0. c \in ConfigMaps
      BY DEF TypeOK
    <3>1. WorkerOK'
      BY <1>0, <2>1, MoveTypes DEF CreateConfigMap, WorkerOK
    <3>2. faults' \in 0..MaxFaults
      BY <2>1, CountTypes DEF CreateConfigMap
    <3>3. space' \in Space
      BY <2>1, <3>0, OneMore DEF CreateConfigMap, TypeOK
    <3>4. passed' \in BOOLEAN
      BY <2>1 DEF CreateConfigMap, TypeOK
    <3> QED BY <1>3, <3>1, <3>2, <3>3, <3>4 DEF configMapLoop, TypeOK, WorkerOK
  <2>2. CASE NoFault /\ Goto(r, "crd") /\ UNCHANGED <<space, passed>>
    <3>1. WorkerOK'
      BY <1>0, <2>2, MoveTypes DEF Steps
    <3> QED BY <1>3, <2>2, <3>1, CountTypes DEF configMapLoop, TypeOK, WorkerOK
  <2> QED BY <1>3, <2>1, <2>2 DEF configMapLoop
<1>4. CASE CheckCRDExists(r)
  <2>1. WorkerOK'
    BY <1>0, <1>4, MoveTypes DEF CheckCRDExists, Steps
  <2>2. faults' \in 0..MaxFaults
    BY <1>4, CountTypes DEF CheckCRDExists
  <2> QED BY <1>4, <2>1, <2>2 DEF CheckCRDExists, TypeOK, WorkerOK
<1>5. CASE HandleRHDHCR(r)
  <2>1. WorkerOK'
    BY <1>0, <1>5, MoveTypes DEF HandleRHDHCR
  <2>2. faults' \in 0..MaxFaults
    BY <1>5, CountTypes DEF HandleRHDHCR
  <2>3. space' \in Space
    BY <1>5, SpaceTypes DEF HandleRHDHCR, TypeOK
  <2> QED BY <1>5, <2>1, <2>2, <2>3 DEF HandleRHDHCR, TypeOK, WorkerOK
<1> QED BY <1>1, <1>2, <1>3, <1>4, <1>5 DEF reconcileRHDH

LEMMA TypeCleanUp ==
  ASSUME TypeOK, NEW r \in Orchestrators, HandleRHDHCleanUp(r)
  PROVE  TypeOK'
<1>0. WorkerOK
  BY DEF TypeOK, WorkerOK
<1>a. {"list", "delete", "release"} \subseteq Steps
  BY DEF Steps, CleanUpSteps
<1>1. CASE CheckNamespaceExist(r)
  <2>1. WorkerOK'
    BY <1>0, <1>1, <1>a, MoveTypes DEF CheckNamespaceExist
  <2>2. faults' \in 0..MaxFaults
    BY <1>1, CountTypes DEF CheckNamespaceExist
  <2>3. space' \in Space
    BY <1>1, SpaceTypes DEF CheckNamespaceExist, TypeOK
  <2> QED BY <1>1, <2>1, <2>2, <2>3 DEF CheckNamespaceExist, TypeOK, WorkerOK
<1>2. CASE listBackstageCRs(r)
  <2>1. WorkerOK'
    BY <1>0, <1>2, <1>a, MoveTypes DEF listBackstageCRs
  <2>2. faults' \in 0..MaxFaults
    BY <1>2, CountTypes DEF listBackstageCRs
  <2> QED BY <1>2, <2>1, <2>2 DEF listBackstageCRs, TypeOK, WorkerOK
<1>3. CASE CleanUpNamespace(r)
  <2>1. WorkerOK'
    BY <1>0, <1>3, <1>a, MoveTypes DEF CleanUpNamespace
  <2>2. faults' \in 0..MaxFaults
    BY <1>3, CountTypes DEF CleanUpNamespace
  <2>3. space' \in Space
    BY <1>3, SpaceTypes DEF CleanUpNamespace, TypeOK
  <2> QED BY <1>3, <2>1, <2>2, <2>3 DEF CleanUpNamespace, TypeOK, WorkerOK
<1>4. CASE Release(r)
  <2>1. WorkerOK'
    BY <1>0, <1>4, MoveTypes DEF Release
  <2>2. faults' \in 0..MaxFaults
    BY <1>4, CountTypes DEF Release
  <2>3. life' \in [Orchestrators -> {"live", "deleting", "gone"}]
    BY <1>4 DEF Release, TypeOK
  <2> QED BY <1>4, <2>1, <2>2, <2>3 DEF Release, TypeOK, WorkerOK
<1> QED BY <1>1, <1>2, <1>3, <1>4 DEF HandleRHDHCleanUp

LEMMA TypeNext == TypeOK /\ [Next]_vars => TypeOK'
<1> SUFFICES ASSUME TypeOK, [Next]_vars PROVE TypeOK'
  OBVIOUS
<1>0. Made \in SUBSET ConfigMaps
  BY DEF Made
<1>1. ASSUME NEW r \in Orchestrators, Reconcile(r) PROVE TypeOK'
  <2>1. known' \in [Orchestrators -> SUBSET Orchestrators]
    BY <1>1 DEF Reconcile, TypeOK, Caches
  <2>2. pc' \in [Orchestrators -> Steps]
    BY <1>1 DEF Reconcile, TypeOK, Steps, CleanUpSteps
  <2> QED BY <1>1, <2>1, <2>2 DEF Reconcile, TypeOK
<1>2. ASSUME NEW r \in Orchestrators, reconcileRHDH(r) PROVE TypeOK'
  BY <1>2, TypeReconcileRHDH
<1>3. ASSUME NEW r \in Orchestrators, HandleRHDHCleanUp(r) PROVE TypeOK'
  BY <1>3, TypeCleanUp
<1>4. ASSUME NEW r \in Orchestrators, DeleteOrchestrator(r) PROVE TypeOK'
  BY <1>4 DEF DeleteOrchestrator, TypeOK
<1>5. ASSUME NEW r \in Orchestrators, Resync(r) PROVE TypeOK'
  BY <1>5 DEF Resync, TypeOK
<1>6. CASE SetDomain
  BY <1>6 DEF SetDomain, TypeOK, DomainStates
<1>7. CASE OLMInstall
  BY <1>7 DEF OLMInstall, TypeOK
<1>8. CASE Sync
  <2>1. cache' \in Caches
    BY <1>0, <1>8 DEF Sync, TypeOK, Caches, Space
  <2> QED BY <1>8, <2>1 DEF Sync, TypeOK
<1>9. CASE NamespaceGone
  <2>1. space' \in Space
    BY <1>9 DEF NamespaceGone, Space, NamespaceStates, Unmade
  <2> QED BY <1>9, <2>1 DEF NamespaceGone, TypeOK
<1>10. CASE Restart
  <2>1. cache' \in Caches
    BY <1>0, <1>10 DEF Restart, TypeOK, Caches, Space
  <2>2. faults' \in 0..MaxFaults
    BY <1>10, CountTypes DEF Restart
  <2>3. pc' \in [Orchestrators -> Steps]
    BY <1>10 DEF Restart, Steps
  <2> QED BY <1>10, <2>1, <2>2, <2>3 DEF Restart, TypeOK
<1>11. CASE UNCHANGED vars
  BY <1>11 DEF vars, TypeOK
<1> QED
  BY <1>1, <1>2, <1>3, <1>4, <1>5, <1>6, <1>7, <1>8, <1>9, <1>10, <1>11
  DEF Next, Worker, Environment, Cluster

(***************************************************************************)
(* The type invariant holds in every behaviour.                            *)
(***************************************************************************)
THEOREM TypeCorrect == Spec => []TypeOK
<1> QED BY TypeInit, TypeNext, PTL DEF Spec

-----------------------------------------------------------------------------
(* What a step may do to the namespace: until it is gone it only gains     *)
(* objects, it never becomes usable again, and a Backstage is only added   *)
(* at the end of reconcileRHDH, a config map by the loop.                  *)
Grows ==
  /\ Usable' => Usable
  /\ space'.ns # "absent" =>
       /\ space.ns # "absent"
       /\ Made \subseteq Made'
       /\ space.backstages \subseteq space'.backstages
  /\ space'.backstages \subseteq space.backstages \union {r \in Orchestrators : pc[r] = "cr"}

(* The objects of the namespace are the same.                              *)
Kept == space'.cms = space.cms /\ space'.backstages = space.backstages

LEMMA KeptMade == Kept => Made' = Made
  BY DEF Kept, Made

LEMMA GrowsStep ==
  ASSUME TypeOK, [Next]_vars
  PROVE  Grows
<1>0. space \in Space
  BY DEF TypeOK
<1>a. ASSUME Kept, Usable' => Usable, space'.ns # "absent" => space.ns # "absent" PROVE Grows
  BY <1>a, KeptMade DEF Grows, Kept
<1>b. space' = space => Grows
  BY <1>a DEF Kept, Usable
<1>1. ASSUME NEW r \in Orchestrators, Reconcile(r) PROVE Grows
  BY <1>1, <1>b DEF Reconcile
<1>2. ASSUME NEW r \in Orchestrators, getClusterDomain(r) \/ CheckCRDExists(r) PROVE Grows
  BY <1>2, <1>b DEF getClusterDomain, CheckCRDExists
<1>3. ASSUME NEW r \in Orchestrators, CreateRHDHSecret(r) PROVE Grows
  <2>1. CASE space' = space
    BY <2>1, <1>b
  <2>2. CASE space' = [space EXCEPT !.secret = TRUE]
    BY <1>0, <2>2, <1>a DEF Kept, Usable, Space
  <2> QED BY <1>3, <2>1, <2>2 DEF CreateRHDHSecret
<1>4. ASSUME NEW r \in Orchestrators, configMapLoop(r) PROVE Grows
  <2>1. CASE space' = space
    BY <2>1, <1>b
  <2>2. ASSUME NEW c \in ConfigMaps, space' = [space EXCEPT !.cms[c] = Rendered(r, c)]
        PROVE  Grows
    BY <2>2, OneMore DEF Grows, Usable
  <2>3. left[r] \subseteq ConfigMaps
    BY DEF TypeOK
  <2> QED BY <1>4, <2>1, <2>2, <2>3 DEF configMapLoop, CreateConfigMap
<1>5. ASSUME NEW r \in Orchestrators, HandleRHDHCR(r) PROVE Grows
  <2>1. CASE space' = space
    BY <2>1, <1>b
  <2>2. CASE space' = [space EXCEPT !.backstages = @ \union {r}]
    <3>1. /\ space'.ns = space.ns /\ space'.cms = space.cms
          /\ space'.backstages = space.backstages \union {r}
      BY <1>0, <2>2 DEF Space
    <3>2. pc[r] = "cr"
      BY <1>5 DEF HandleRHDHCR
    <3> QED BY <3>1, <3>2 DEF Grows, Usable, Made
  <2> QED BY <1>5, <2>1, <2>2 DEF HandleRHDHCR
<1>6. ASSUME NEW r \in Orchestrators, CheckNamespaceExist(r) PROVE Grows
  <2>1. CASE space' = space
    BY <2>1, <1>b
  <2>2. CASE space.ns = "plain" /\ space' = [space EXCEPT !.ns = "labelled"]
    BY <1>0, <2>2, <1>a DEF Kept, Usable, Space
  <2> QED BY <1>6, <2>1, <2>2 DEF CheckNamespaceExist
<1>7. ASSUME NEW r \in Orchestrators, listBackstageCRs(r) \/ Release(r) PROVE Grows
  BY <1>7, <1>b DEF listBackstageCRs, Release
<1>8. ASSUME NEW r \in Orchestrators, CleanUpNamespace(r) PROVE Grows
  <2>1. CASE space' = space
    BY <2>1, <1>b
  <2>2. CASE Usable /\ space' = [space EXCEPT !.ns = "terminating"]
    BY <1>0, <2>2, <1>a DEF Kept, Usable, Space
  <2> QED BY <1>8, <2>1, <2>2 DEF CleanUpNamespace
<1>9. ASSUME NEW r \in Orchestrators, DeleteOrchestrator(r) \/ Resync(r) PROVE Grows
  BY <1>9, <1>b DEF DeleteOrchestrator, Resync
<1>10. CASE SetDomain \/ OLMInstall \/ Sync \/ Restart
  BY <1>10, <1>b DEF SetDomain, OLMInstall, Sync, Restart
<1>11. CASE NamespaceGone
  BY <1>11 DEF NamespaceGone, Grows, Usable
<1>12. CASE UNCHANGED vars
  BY <1>12, <1>b DEF vars
<1> QED
  BY <1>1, <1>2, <1>3, <1>4, <1>5, <1>6, <1>7, <1>8, <1>9, <1>10, <1>11, <1>12
  DEF Next, Worker, reconcileRHDH, HandleRHDHCleanUp, Environment, Cluster

LEMMA CacheInit == Init => CacheInv
  BY DEF Init, CacheInv, Made

(* The caches are copies of an earlier state of the namespace.             *)
LEMMA CacheStep == TypeOK /\ CacheInv /\ [Next]_vars => CacheInv'
<1> SUFFICES ASSUME TypeOK, CacheInv, [Next]_vars PROVE CacheInv'
  OBVIOUS
<1>1. Grows
  BY GrowsStep
<1>2. CASE cache' = cache
  BY <1>1, <1>2 DEF Grows, CacheInv
<1>3. CASE Sync
  <2>1. cache \in Caches
    BY DEF TypeOK
  <2>2. Made' = Made /\ space' = space
    BY <1>3 DEF Sync, Made
  <2>3. cache'.cms \in {cache.cms, Made}
        /\ cache'.backstages \in {cache.backstages, space.backstages}
    BY <1>3, <2>1 DEF Sync, Caches
  <2> QED BY <2>2, <2>3 DEF CacheInv
<1>4. CASE Restart
  <2>1. Made' = Made /\ space' = space
    BY <1>4 DEF Restart, Made
  <2>2. cache'.cms = Made /\ cache'.backstages = space.backstages
    BY <1>4 DEF Restart
  <2> QED BY <2>1, <2>2 DEF CacheInv
<1>5. cache' = cache \/ Sync \/ Restart
  BY DEF Next, vars, Worker, Reconcile, reconcileRHDH, getClusterDomain, CreateRHDHSecret,
         configMapLoop, CheckCRDExists, HandleRHDHCR, HandleRHDHCleanUp,
         CheckNamespaceExist, listBackstageCRs, CleanUpNamespace, Release, Environment,
         DeleteOrchestrator, Resync, SetDomain, Cluster, OLMInstall, NamespaceGone
<1> QED BY <1>2, <1>3, <1>4, <1>5

-----------------------------------------------------------------------------
(* The config maps and the Backstage resources.                            *)
ConfiguredInv == CacheInv /\ ConfigMapInv /\ BackstageConfigured

LEMMA ConfiguredInit == Init => ConfiguredInv
<1> SUFFICES ASSUME Init PROVE ConfiguredInv
  OBVIOUS
<1>1. ConfigMapInv
  BY DEF Init, ConfigMapInv
<1>2. BackstageConfigured
  BY DEF Init, BackstageConfigured
<1> QED BY <1>1, <1>2, CacheInit DEF ConfiguredInv

LEMMA PassedStays == [Next]_vars /\ ~passed' /\ passed \in BOOLEAN => ~passed
  BY DEF Next, vars, Worker, Reconcile, reconcileRHDH, getClusterDomain, CreateRHDHSecret,
         configMapLoop, CreateConfigMap, CheckCRDExists, HandleRHDHCR, HandleRHDHCleanUp,
         CheckNamespaceExist, listBackstageCRs, CleanUpNamespace, Release, Environment,
         DeleteOrchestrator, Resync, SetDomain, Cluster, OLMInstall, NamespaceGone, Sync,
         Restart

(* What a step does to one worker's place in the loop.                     *)
LEMMA LoopStep ==
  ASSUME TypeOK, ConfiguredInv, [Next]_vars, ~passed', Usable', NEW q \in Orchestrators
  PROVE  /\ pc'[q] = "configmaps" => ConfigMaps \ left'[q] \subseteq Made'
         /\ pc'[q] \in {"crd", "cr"} => ConfigMaps \subseteq Made'
<1> DEFINE Placed == /\ pc[q] = "configmaps" => ConfigMaps \ left[q] \subseteq Made
                     /\ pc[q] \in {"crd", "cr"} => ConfigMaps \subseteq Made
           Goal   == /\ pc'[q] = "configmaps" => ConfigMaps \ left'[q] \subseteq Made'
                     /\ pc'[q] \in {"crd", "cr"} => ConfigMaps \subseteq Made'
<1>0. Usable /\ Made \subseteq Made'
  BY GrowsStep DEF Grows, Usable
<1>a. ~passed => Placed
  BY <1>0 DEF ConfiguredInv, ConfigMapInv
<1>b. CASE ~passed /\ pc'[q] = pc[q] /\ left'[q] = left[q]
  BY <1>0, <1>a, <1>b
<1>c. CASE pc'[q] \notin {"configmaps", "crd", "cr"}
  BY <1>c
<1>t. pc \in [Orchestrators -> Steps] /\ left \in [Orchestrators -> SUBSET ConfigMaps]
  BY DEF TypeOK
<1>d. ASSUME NEW r \in Orchestrators, Return(r) \/ Fail(r), UNCHANGED passed PROVE Goal
  BY <1>t, <1>b, <1>c, <1>d DEF Return, Fail, Stop
<1>e. ASSUME NEW r \in Orchestrators, NEW step \in {"release", "list", "delete"},
             Goto(r, step), UNCHANGED passed
      PROVE  Goal
  BY <1>t, <1>b, <1>c, <1>e DEF Goto
<1>1. ASSUME NEW r \in Orchestrators, Reconcile(r) PROVE Goal
  BY <1>t, <1>1, <1>b, <1>c DEF Reconcile
<1>2. ASSUME NEW r \in Orchestrators, getClusterDomain(r) PROVE Goal
  BY <1>t, <1>2, <1>b, <1>c, <1>d DEF getClusterDomain
<1>3. ASSUME NEW r \in Orchestrators, CreateRHDHSecret(r) PROVE Goal
  <2>1. CASE Fail(r)
    BY <1>3, <2>1, <1>d DEF CreateRHDHSecret
  <2>2. CASE r # q
    BY <1>t, <1>3, <2>1, <2>2, <1>b DEF CreateRHDHSecret
  <2>3. CASE r = q /\ pc'[q] = "configmaps" /\ left'[q] = ConfigMaps
    BY <2>3
  <2> QED BY <1>t, <1>3, <2>1, <2>2, <2>3 DEF CreateRHDHSecret
<1>4. ASSUME NEW r \in Orchestrators, configMapLoop(r) PROVE Goal
  <2>1. ASSUME NEW c \in left[r], CreateConfigMap(r, c) PROVE Goal
    <3>1. CASE Fail(r)
      BY <2>1, <3>1, <1>d DEF CreateConfigMap
    <3>2. CASE left' = [left EXCEPT ![r] = @ \ {c}] /\ UNCHANGED pc
      <4>1. ~passed
        BY <2>1 DEF CreateConfigMap, TypeOK
      <4>2. CASE r # q
        BY <1>t, <3>2, <4>1, <4>2, <1>b
      <4>3. CASE r = q
        <5>1. c \in Made'
          <6>1. CASE c \in cache.cms
            <7>1. cache.cms \subseteq Made
              BY <1>0 DEF ConfiguredInv, CacheInv, Usable
            <7> QED BY <6>1, <7>1, <1>0
          <6>2. CASE space' = [space EXCEPT !.cms[c] = Rendered(r, c)]
            BY <6>2, <1>t, OneMore
          <6>3. CASE Fail(r)
            BY <6>3, <3>2, <1>t, <1>4 DEF Fail, Stop, configMapLoop
          <6>4. CASE passed' = TRUE
            BY <6>4
          <6> QED BY <2>1, <6>1, <6>2, <6>3, <6>4 DEF CreateConfigMap
        <5>2. ConfigMaps \ left[q] \subseteq Made /\ pc'[q] = "configmaps"
          BY <1>4, <1>a, <4>1, <4>3, <3>2 DEF configMapLoop
        <5>3. left'[q] = left[q] \ {c}
          BY <1>t, <3>2, <4>3
        <5> QED BY <1>0, <5>1, <5>2, <5>3
      <4> QED BY <4>2, <4>3
    <3> QED BY <2>1, <3>1, <3>2 DEF CreateConfigMap
  <2>2. CASE left[r] = {} /\ Goto(r, "crd") /\ UNCHANGED passed
    <3>1. CASE r # q
      BY <1>t, <2>2, <3>1, <1>b DEF Goto
    <3>2. CASE r = q
      <4>1. ConfigMaps \subseteq Made /\ pc'[q] = "crd"
        BY <1>t, <1>4, <2>2, <3>2, <1>a DEF configMapLoop, Goto
      <4> QED BY <4>1, <1>0
    <3> QED BY <3>1, <3>2
  <2> QED BY <1>4, <2>1, <2>2 DEF configMapLoop
<1>5. ASSUME NEW r \in Orchestrators, CheckCRDExists(r) PROVE Goal
  <2>1. CASE Fail(r)
    BY <1>5, <2>1, <1>d DEF CheckCRDExists
  <2>2. CASE r # q
    BY <1>t, <1>5, <2>1, <2>2, <1>b DEF CheckCRDExists, Goto
  <2>3. CASE r = q /\ Goto(r, "cr") /\ ~passed
    <3>1. ConfigMaps \subseteq Made /\ pc'[q] = "cr"
      BY <1>t, <1>5, <2>3, <1>a DEF CheckCRDExists, Goto
    <3> QED BY <3>1, <1>0
  <2> QED BY <1>5, <2>1, <2>2, <2>3 DEF CheckCRDExists
<1>6. ASSUME NEW r \in Orchestrators, HandleRHDHCR(r) PROVE Goal
  BY <1>6, <1>d DEF HandleRHDHCR
<1>7. ASSUME NEW r \in Orchestrators, HandleRHDHCleanUp(r) PROVE Goal
  BY <1>7, <1>d, <1>e DEF HandleRHDHCleanUp, CheckNamespaceExist, listBackstageCRs,
     CleanUpNamespace, Release
<1>8. ASSUME NEW r \in Orchestrators, DeleteOrchestrator(r) \/ Resync(r) PROVE Goal
  BY <1>8, <1>b DEF DeleteOrchestrator, Resync
<1>9. CASE SetDomain \/ Cluster
  BY <1>9, <1>b DEF SetDomain, Cluster, Sync, OLMInstall, NamespaceGone
<1>10. CASE Restart
  BY <1>10, <1>c DEF Restart
<1>11. CASE UNCHANGED vars
  BY <1>11, <1>b DEF vars
<1> QED
  BY <1>1, <1>2, <1>3, <1>4, <1>5, <1>6, <1>7, <1>8, <1>9, <1>10, <1>11
  DEF Next, Worker, reconcileRHDH, Environment

LEMMA ConfiguredStep == TypeOK /\ ConfiguredInv /\ [Next]_vars => ConfiguredInv'
<1> SUFFICES ASSUME TypeOK, ConfiguredInv, [Next]_vars PROVE ConfiguredInv'
  OBVIOUS
<1>1. CacheInv'
  BY CacheStep DEF ConfiguredInv
<1>2. ConfigMapInv'
  BY LoopStep DEF ConfigMapInv
<1>3. BackstageConfigured'
  <2> SUFFICES ASSUME ~passed', Usable', space'.backstages # {} PROVE Made' = ConfigMaps
    BY DEF BackstageConfigured
  <2>1. Usable /\ Made \subseteq Made' /\ Made' \subseteq ConfigMaps
        /\ space'.backstages \subseteq
             space.backstages \union {r \in Orchestrators : pc[r] = "cr"}
    BY GrowsStep DEF Grows, Usable, Made
  <2>2. ~passed
    BY PassedStays DEF TypeOK
  <2>3. CASE space.backstages # {}
    BY <2>1, <2>2, <2>3 DEF ConfiguredInv, BackstageConfigured
  <2>4. CASE \E r \in Orchestrators : pc[r] = "cr"
    BY <2>1, <2>2, <2>4 DEF ConfiguredInv, ConfigMapInv
  <2> QED BY <2>1, <2>3, <2>4
<1> QED BY <1>1, <1>2, <1>3 DEF ConfiguredInv

(***************************************************************************)
(* Whatever workers, caches, failed calls and restarts do, a Backstage     *)
(* resource finds every config map it refers to in its namespace, unless   *)
(* an error of reading one was passed over.                                *)
(***************************************************************************)
THEOREM ConfigMapsCorrect == Spec => []BackstageConfigured
<1>1. Init => TypeOK /\ ConfiguredInv
  BY TypeInit, ConfiguredInit
<1>2. TypeOK /\ ConfiguredInv /\ [Next]_vars => (TypeOK /\ ConfiguredInv)'
  BY TypeNext, ConfiguredStep
<1>3. ConfiguredInv => BackstageConfigured
  BY DEF ConfiguredInv
<1> QED BY <1>1, <1>2, <1>3, PTL DEF Spec

-----------------------------------------------------------------------------
(* The domain in the base URL.                                             *)
DomainInv == HostInv /\ HostComplete

LEMMA DomainInit == Init => DomainInv
<1> SUFFICES ASSUME Init PROVE DomainInv
  OBVIOUS
<1>1. HostInv
  BY DEF Init, HostInv
<1>2. HostComplete
  BY DEF Init, HostComplete, Made
<1> QED BY <1>1, <1>2 DEF DomainInv

(* A config map is made by the loop or was there before.                   *)
LEMMA MadeBy ==
  ASSUME TypeOK, [Next]_vars, NEW c \in Made'
  PROVE  \/ c \in Made /\ space'.cms[c] = space.cms[c]
         \/ \E r \in Orchestrators :
              pc[r] = "configmaps" /\ c \in ConfigMaps /\ space'.cms[c] = Rendered(r, c)
<1> DEFINE Goal ==
      \/ c \in Made /\ space'.cms[c] = space.cms[c]
      \/ \E r \in Orchestrators :
           pc[r] = "configmaps" /\ c \in ConfigMaps /\ space'.cms[c] = Rendered(r, c)
<1>0. space \in Space /\ c \in ConfigMaps
  BY DEF TypeOK, Made
<1>a. CASE space'.cms = space.cms
  BY <1>a DEF Made
<1>1. ASSUME NEW r \in Orchestrators, configMapLoop(r) PROVE Goal
  <2>1. CASE space' = space
    BY <1>a, <2>1
  <2>2. ASSUME NEW d \in ConfigMaps, space' = [space EXCEPT !.cms[d] = Rendered(r, d)]
        PROVE  Goal
    <3>1. pc[r] = "configmaps"
      BY <1>1 DEF configMapLoop
    <3>2. CASE c = d
      BY <3>1, <3>2, <2>2, OneMore
    <3>3. CASE c # d
      BY <3>3, <2>2, <1>0, OneMore
    <3> QED BY <3>2, <3>3
  <2>3. left[r] \subseteq ConfigMaps
    BY DEF TypeOK
  <2> QED BY <1>1, <2>1, <2>2, <2>3 DEF configMapLoop, CreateConfigMap
<1>2. CASE NamespaceGone
  BY <1>2, <1>0 DEF NamespaceGone, Made
<1>3. CASE UNCHANGED vars
  BY <1>3, <1>a DEF vars
<1>4. ASSUME NEW r \in Orchestrators, Worker(r), ~configMapLoop(r) PROVE Goal
  <2>1. space'.cms = space.cms
    BY <1>0, <1>4 DEF Worker, Reconcile, reconcileRHDH, getClusterDomain, CreateRHDHSecret,
       CheckCRDExists, HandleRHDHCR, HandleRHDHCleanUp, CheckNamespaceExist,
       listBackstageCRs, CleanUpNamespace, Release, Space
  <2> QED BY <1>a, <2>1
<1>5. CASE Environment /\ ~NamespaceGone
  BY <1>5, <1>a DEF Environment, DeleteOrchestrator, Resync, SetDomain, Cluster, Sync,
     OLMInstall, Restart
<1> QED BY <1>1, <1>2, <1>3, <1>4, <1>5 DEF Next

LEMMA HostStep ==
  ASSUME TypeOK, HostInv, [Next]_vars, domain' = "set", NEW q \in Orchestrators,
         pc'[q] \in {"secret", "configmaps"}
  PROVE  host'[q]
<1>0. domain = "set"
  BY DEF Next, vars, Worker, Reconcile, reconcileRHDH, getClusterDomain, CreateRHDHSecret,
         configMapLoop, CheckCRDExists, HandleRHDHCR, HandleRHDHCleanUp,
         CheckNamespaceExist, listBackstageCRs, CleanUpNamespace, Release, Environment,
         DeleteOrchestrator, Resync, SetDomain, Cluster, OLMInstall, NamespaceGone, Sync,
         Restart
<1>t. pc \in [Orchestrators -> Steps] /\ host \in [Orchestrators -> BOOLEAN]
  BY DEF TypeOK
<1>a. CASE pc'[q] = pc[q] /\ host'[q] = host[q]
  BY <1>0, <1>a DEF HostInv
<1>b. ASSUME NEW r \in Orchestrators, Return(r) \/ Fail(r) PROVE host'[q]
  BY <1>t, <1>a, <1>b DEF Return, Fail, Stop
<1>c. ASSUME NEW r \in Orchestrators, NEW step \in Steps \ {"secret", "configmaps"},
             Goto(r, step)
      PROVE  host'[q]
  BY <1>t, <1>a, <1>c DEF Goto
<1>1. ASSUME NEW r \in Orchestrators, Reconcile(r) PROVE host'[q]
  BY <1>t, <1>1, <1>a DEF Reconcile
<1>2. ASSUME NEW r \in Orchestrators, getClusterDomain(r) PROVE host'[q]
  <2>1. CASE r = q
    BY <1>t, <1>0, <1>2, <1>b, <2>1 DEF getClusterDomain
  <2>2. CASE r # q
    BY <1>t, <1>2, <1>a, <1>b, <2>2 DEF getClusterDomain
  <2> QED BY <2>1, <2>2
<1>3. ASSUME NEW r \in Orchestrators, CreateRHDHSecret(r) PROVE host'[q]
  <2>1. CASE r = q /\ UNCHANGED host
    BY <1>0, <1>3, <2>1 DEF CreateRHDHSecret, HostInv
  <2>2. CASE r # q /\ UNCHANGED host /\ pc' = [pc EXCEPT ![r] = "configmaps"]
    BY <1>t, <1>a, <2>2
  <2> QED BY <1>3, <1>b, <2>1, <2>2 DEF CreateRHDHSecret
<1>4. ASSUME NEW r \in Orchestrators, configMapLoop(r) PROVE host'[q]
  <2>1. CASE UNCHANGED <<pc, host>>
    BY <2>1, <1>a
  <2> QED BY <1>4, <1>b, <1>c, <2>1 DEF configMapLoop, CreateConfigMap, Steps
<1>5. ASSUME NEW r \in Orchestrators, CheckCRDExists(r) \/ HandleRHDHCR(r) PROVE host'[q]
  BY <1>5, <1>b, <1>c DEF CheckCRDExists, HandleRHDHCR, Steps
<1>6. ASSUME NEW r \in Orchestrators, HandleRHDHCleanUp(r) PROVE host'[q]
  <2>1. {"release", "list", "delete"} \subseteq Steps \ {"secret", "configmaps"}
    BY DEF Steps, CleanUpSteps
  <2> QED BY <1>6, <1>b, <1>c, <2>1 DEF HandleRHDHCleanUp, CheckNamespaceExist,
     listBackstageCRs, CleanUpNamespace, Release
<1>7. ASSUME NEW r \in Orchestrators, DeleteOrchestrator(r) \/ Resync(r) PROVE host'[q]
  BY <1>7, <1>a DEF DeleteOrchestrator, Resync
<1>8. CASE SetDomain \/ Cluster
  BY <1>8, <1>a DEF SetDomain, Cluster, Sync, OLMInstall, NamespaceGone
<1>9. CASE Restart
  BY <1>9 DEF Restart
<1>10. CASE UNCHANGED vars
  BY <1>10, <1>a DEF vars
<1> QED
  BY <1>1, <1>2, <1>3, <1>4, <1>5, <1>6, <1>7, <1>8, <1>9, <1>10
  DEF Next, Worker, reconcileRHDH, Environment

LEMMA DomainStep == TypeOK /\ DomainInv /\ [Next]_vars => DomainInv'
<1> SUFFICES ASSUME TypeOK, DomainInv, [Next]_vars PROVE DomainInv'
  OBVIOUS
<1>1. HostInv'
  BY HostStep DEF DomainInv, HostInv
<1>2. HostComplete'
  <2> SUFFICES ASSUME domain' = "set", NEW c \in Made', c = "app-config-rhdh"
               PROVE  "domain" \in space'.cms[c]
    BY DEF HostComplete
  <2>1. domain = "set"
    BY DEF Next, vars, Worker, Reconcile, reconcileRHDH, getClusterDomain, CreateRHDHSecret,
         configMapLoop, CheckCRDExists, HandleRHDHCR, HandleRHDHCleanUp,
         CheckNamespaceExist, listBackstageCRs, CleanUpNamespace, Release, Environment,
         DeleteOrchestrator, Resync, SetDomain, Cluster, OLMInstall, NamespaceGone, Sync,
         Restart
  <2>2. CASE c \in Made /\ space'.cms[c] = space.cms[c]
    BY <2>1, <2>2 DEF DomainInv, HostComplete
  <2>3. ASSUME NEW r \in Orchestrators, pc[r] = "configmaps", c \in ConfigMaps,
               space'.cms[c] = Rendered(r, c)
        PROVE  "domain" \in space'.cms[c]
    <3>1. host[r]
      BY <2>1, <2>3 DEF DomainInv, HostInv
    <3> QED BY <2>3, <3>1, Renders
  <2> QED BY <2>2, <2>3, MadeBy
<1> QED BY <1>1, <1>2 DEF DomainInv

(***************************************************************************)
(* Where the cluster has a domain, the config map made from it has it.     *)
(***************************************************************************)
THEOREM HostCorrect == Spec => []HostComplete
<1>1. Init => TypeOK /\ DomainInv
  BY TypeInit, DomainInit
<1>2. TypeOK /\ DomainInv /\ [Next]_vars => (TypeOK /\ DomainInv)'
  BY TypeNext, DomainStep
<1>3. DomainInv => HostComplete
  BY DEF DomainInv
<1> QED BY <1>1, <1>2, <1>3, PTL DEF Spec

-----------------------------------------------------------------------------
(* What a clean up knew when it began.                                     *)
LEMMA KnownInit == Init => KnownInv
  BY DEF Init, KnownInv

LEMMA KnownStep == TypeOK /\ CacheInv /\ KnownInv /\ [Next]_vars => KnownInv'
<1> DEFINE K(q) == /\ pc[q] \in {"check", "list"} => known[q] \subseteq cache.backstages
                   /\ pc[q] = "delete" => \A o, p \in known[q] : o = p
           Goal(q) == /\ pc'[q] \in {"check", "list"} => known'[q] \subseteq cache'.backstages
                      /\ pc'[q] = "delete" => \A o, p \in known'[q] : o = p
<1> SUFFICES ASSUME TypeOK, CacheInv, KnownInv, [Next]_vars, Usable', NEW q \in Orchestrators
             PROVE  Goal(q)
  BY DEF KnownInv, Usable
<1>0. Usable
  BY GrowsStep DEF Grows
<1>1. K(q)
  BY <1>0 DEF KnownInv
<1>t. pc \in [Orchestrators -> Steps] /\ known \in [Orchestrators -> SUBSET Orchestrators]
  BY DEF TypeOK
<1>a. CASE pc'[q] = pc[q] /\ known'[q] = known[q]
           /\ cache.backstages \subseteq cache'.backstages
  BY <1>1, <1>a
<1>b. CASE pc'[q] \notin {"check", "list", "delete"}
  BY <1>b
<1>c. ASSUME NEW r \in Orchestrators, Return(r) \/ Fail(r), UNCHANGED cache PROVE Goal(q)
  BY <1>t, <1>a, <1>b, <1>c DEF Return, Fail, Stop
<1>d. ASSUME NEW r \in Orchestrators, NEW step \in {"secret", "crd", "cr", "release"},
             Goto(r, step), UNCHANGED cache
      PROVE  Goal(q)
  BY <1>t, <1>a, <1>b, <1>d DEF Goto
<1>2. ASSUME NEW r \in Orchestrators, Reconcile(r) PROVE Goal(q)
  <2>1. CASE r # q
    BY <1>t, <1>2, <2>1, <1>a DEF Reconcile
  <2>2. CASE r = q /\ life[r] = "deleting"
    BY <1>t, <1>2, <2>2 DEF Reconcile
  <2>3. CASE r = q /\ life[r] # "deleting"
    BY <1>t, <1>2, <2>3, <1>a, <1>b DEF Reconcile
  <2> QED BY <2>1, <2>2, <2>3
<1>3. ASSUME NEW r \in Orchestrators, getClusterDomain(r) PROVE Goal(q)
  <2>1. CASE r # q
    BY <1>t, <1>3, <2>1, <1>a, <1>c DEF getClusterDomain
  <2>2. CASE r = q
    BY <1>t, <1>3, <2>2, <1>b, <1>c DEF getClusterDomain
  <2> QED BY <2>1, <2>2
<1>4. ASSUME NEW r \in Orchestrators, CreateRHDHSecret(r) PROVE Goal(q)
  <2>1. CASE pc' = [pc EXCEPT ![r] = "configmaps"] /\ UNCHANGED <<known, cache>>
    BY <1>t, <2>1, <1>a, <1>b
  <2> QED BY <1>4, <2>1, <1>c DEF CreateRHDHSecret
<1>5. ASSUME NEW r \in Orchestrators, configMapLoop(r) PROVE Goal(q)
  <2>1. CASE UNCHANGED <<pc, known, cache>>
    BY <2>1, <1>a
  <2> QED BY <1>5, <2>1, <1>c, <1>d DEF configMapLoop, CreateConfigMap
<1>6. ASSUME NEW r \in Orchestrators, CheckCRDExists(r) \/ HandleRHDHCR(r) \/ Release(r)
      PROVE  Goal(q)
  BY <1>6, <1>c, <1>d DEF CheckCRDExists, HandleRHDHCR, Release
<1>7. ASSUME NEW r \in Orchestrators, CheckNamespaceExist(r) PROVE Goal(q)
  <2>1. CASE r = q /\ Goto(r, "list") /\ UNCHANGED cache
    <3>1. pc[q] = "check" /\ pc'[q] = "list" /\ known'[q] = known[q]
      BY <1>t, <1>7, <2>1 DEF CheckNamespaceExist, Goto
    <3> QED BY <1>1, <2>1, <3>1
  <2>2. CASE r # q /\ Goto(r, "list") /\ UNCHANGED cache
    BY <1>t, <2>2, <1>a DEF Goto
  <2> QED BY <1>7, <1>d, <2>1, <2>2 DEF CheckNamespaceExist
<1>8. ASSUME NEW r \in Orchestrators, listBackstageCRs(r) PROVE Goal(q)
  <2>1. ASSUME NEW o \in Orchestrators, cache.backstages = {o}, r = q, Goto(r, "delete")
        PROVE  Goal(q)
    <3>1. pc[q] = "list" /\ pc'[q] = "delete" /\ known'[q] = known[q]
      BY <1>t, <1>8, <2>1 DEF listBackstageCRs, Goto
    <3>2. known[q] \subseteq {o}
      BY <1>1, <2>1, <3>1
    <3> QED BY <3>1, <3>2
  <2>2. CASE r # q /\ Goto(r, "delete") /\ UNCHANGED cache
    BY <1>t, <2>2, <1>a DEF Goto
  <2>3. UNCHANGED cache
    BY <1>8 DEF listBackstageCRs
  <2> QED BY <1>8, <1>c, <1>d, <2>1, <2>2, <2>3 DEF listBackstageCRs
<1>9. ASSUME NEW r \in Orchestrators, CleanUpNamespace(r) PROVE Goal(q)
  BY <1>9, <1>c, <1>d DEF CleanUpNamespace
<1>10. ASSUME NEW r \in Orchestrators, DeleteOrchestrator(r) \/ Resync(r) PROVE Goal(q)
  BY <1>10, <1>a DEF DeleteOrchestrator, Resync
<1>11. CASE SetDomain \/ OLMInstall \/ NamespaceGone
  BY <1>11, <1>a DEF SetDomain, OLMInstall, NamespaceGone
<1>12. CASE Sync
  <2>1. cache.backstages \subseteq space.backstages
    BY <1>0 DEF CacheInv, Usable
  <2>2. cache'.backstages \in {cache.backstages, space.backstages}
    BY <1>12 DEF Sync, TypeOK, Caches
  <2> QED BY <1>12, <1>a, <2>1, <2>2 DEF Sync
<1>13. CASE Restart
  BY <1>13 DEF Restart
<1>14. CASE UNCHANGED vars
  BY <1>14, <1>a DEF vars
<1> QED
  BY <1>2, <1>3, <1>4, <1>5, <1>6, <1>7, <1>8, <1>9, <1>10, <1>11, <1>12, <1>13, <1>14
  DEF Next, Worker, reconcileRHDH, HandleRHDHCleanUp, Environment, Cluster

(***************************************************************************)
(* A clean up whose cache showed several Backstage resources when it began *)
(* never takes the namespace.                                              *)
(***************************************************************************)
THEOREM KnownBackstageCorrect == Spec => KnownBackstageKept
<1>1. Init => TypeOK /\ CacheInv /\ KnownInv
  BY TypeInit, CacheInit, KnownInit
<1>2. TypeOK /\ CacheInv /\ KnownInv /\ [Next]_vars => (TypeOK /\ CacheInv /\ KnownInv)'
  BY TypeNext, CacheStep, KnownStep
<1>3. KnownInv => NeighbourKept
  BY DEF KnownInv, NeighbourKept, NamespaceTaken
<1> QED BY <1>1, <1>2, <1>3, PTL DEF Spec, KnownBackstageKept

-----------------------------------------------------------------------------
(* No resource is forgotten.                                               *)
LEMMA AttendedInit == Init => AttendedInv
  BY DEF Init, AttendedInv, CleanUpSteps

LEMMA AttendedStep == TypeOK /\ CacheInv /\ AttendedInv /\ [Next]_vars => AttendedInv'
<1> DEFINE Goal(q) ==
      /\ life'[q] = "deleting" => q \in queue' \/ pc'[q] \in CleanUpSteps
      /\ pc'[q] \in CleanUpSteps => life'[q] = "deleting"
      /\ life'[q] = "live" /\ pc'[q] = "idle" /\ q \notin queue' /\ Usable' =>
           q \in space'.backstages
<1> SUFFICES ASSUME TypeOK, CacheInv, AttendedInv, [Next]_vars, NEW q \in Orchestrators
             PROVE  Goal(q)
  BY DEF AttendedInv
<1>0. /\ life[q] = "deleting" => q \in queue \/ pc[q] \in CleanUpSteps
      /\ pc[q] \in CleanUpSteps => life[q] = "deleting"
      /\ life[q] = "live" /\ pc[q] = "idle" /\ q \notin queue /\ Usable =>
           q \in space.backstages
  BY DEF AttendedInv
<1>s. Usable' => Usable /\ space.backstages \subseteq space'.backstages
  BY GrowsStep DEF Grows, Usable
<1>t. /\ pc \in [Orchestrators -> Steps] /\ queue \in SUBSET Orchestrators
      /\ life \in [Orchestrators -> {"live", "deleting", "gone"}]
  BY DEF TypeOK
<1>c. "idle" \notin CleanUpSteps
  BY DEF CleanUpSteps
<1>a. CASE pc'[q] = pc[q] /\ life'[q] = life[q] /\ (q \in queue => q \in queue')
  BY <1>0, <1>s, <1>a
<1>b. CASE pc'[q] = "idle" /\ q \in queue'
  BY <1>b, <1>c
<1>d. ASSUME NEW r \in Orchestrators, Fail(r), UNCHANGED life PROVE Goal(q)
  <2>1. CASE r = q
    BY <1>t, <1>b, <1>d, <2>1 DEF Fail, Stop
  <2>2. CASE r # q
    BY <1>t, <1>a, <1>d, <2>2 DEF Fail, Stop
  <2> QED BY <2>1, <2>2
<1>e. ASSUME NEW r \in Orchestrators, pc[r] # "idle", NEW step \in Steps \ {"idle"},
             pc' = [pc EXCEPT ![r] = step], UNCHANGED <<life, queue>>,
             pc[r] \in CleanUpSteps <=> step \in CleanUpSteps
      PROVE  Goal(q)
  <2>1. CASE r = q
    BY <1>0, <1>t, <1>e, <2>1
  <2>2. CASE r # q
    BY <1>t, <1>a, <1>e, <2>2
  <2> QED BY <2>1, <2>2
<1>1. ASSUME NEW r \in Orchestrators, Reconcile(r) PROVE Goal(q)
  <2>1. CASE r = q
    BY <1>t, <1>c, <1>1, <2>1 DEF Reconcile, CleanUpSteps
  <2>2. CASE r # q
    BY <1>t, <1>1, <2>2, <1>a DEF Reconcile
  <2> QED BY <2>1, <2>2
<1>2. ASSUME NEW r \in Orchestrators, getClusterDomain(r) \/ CheckCRDExists(r) PROVE Goal(q)
  BY <1>2, <1>d, <1>e DEF getClusterDomain, CheckCRDExists, Goto, Steps, CleanUpSteps
<1>3. ASSUME NEW r \in Orchestrators, CreateRHDHSecret(r) PROVE Goal(q)
  BY <1>3, <1>d, <1>e DEF CreateRHDHSecret, Steps, CleanUpSteps
<1>4. ASSUME NEW r \in Orchestrators, configMapLoop(r) PROVE Goal(q)
  <2>1. ASSUME NEW c \in left[r], CreateConfigMap(r, c) PROVE Goal(q)
    BY <1>4, <2>1, <1>a, <1>d DEF CreateConfigMap, configMapLoop
  <2>2. CASE Goto(r, "crd")
    BY <1>4, <2>2, <1>e DEF configMapLoop, Goto, Steps, CleanUpSteps
  <2> QED BY <1>4, <2>1, <2>2 DEF configMapLoop
<1>5. ASSUME NEW r \in Orchestrators, HandleRHDHCR(r) PROVE Goal(q)
  <2>1. UNCHANGED life /\ pc[r] = "cr"
    BY <1>5 DEF HandleRHDHCR
  <2>2. CASE Fail(r)
    BY <2>1, <2>2, <1>d
  <2>3. CASE Return(r) /\ r # q
    BY <1>t, <2>1, <2>3, <1>a DEF Return, Stop
  <2>4. CASE Return(r) /\ ~Fail(r) /\ r = q
    <3>1. life[q] # "deleting" \/ q \in queue
      BY <1>0, <2>1, <2>4 DEF CleanUpSteps
    <3>2. pc'[q] = "idle" /\ queue' = queue
      BY <1>t, <2>4 DEF Return, Stop
    <3>3. Usable' => q \in space'.backstages
      <4>1. CASE q \in cache.backstages
        BY <1>s, <4>1 DEF CacheInv, Usable
      <4>2. CASE space' = [space EXCEPT !.backstages = @ \union {q}]
        BY <4>2 DEF TypeOK, Space
      <4> QED BY <1>5, <2>4, <4>1, <4>2 DEF HandleRHDHCR
    <3> QED BY <1>c, <2>1, <3>1, <3>2, <3>3
  <2> QED BY <1>5, <2>2, <2>3, <2>4 DEF HandleRHDHCR
<1>6. ASSUME NEW r \in Orchestrators,
             CheckNamespaceExist(r) \/ listBackstageCRs(r) \/ CleanUpNamespace(r)
      PROVE  Goal(q)
  BY <1>6, <1>d, <1>e DEF CheckNamespaceExist, listBackstageCRs, CleanUpNamespace, Goto,
     Steps, CleanUpSteps
<1>7. ASSUME NEW r \in Orchestrators, Release(r) PROVE Goal(q)
  <2>1. CASE Fail(r) /\ UNCHANGED life
    BY <2>1, <1>d
  <2>2. CASE Return(r) /\ life' = [life EXCEPT ![r] = "gone"]
    <3>1. CASE r = q
      BY <1>t, <1>c, <2>2, <3>1 DEF Return, Stop
    <3>2. CASE r # q
      BY <1>t, <1>a, <2>2, <3>2 DEF Return, Stop
    <3> QED BY <3>1, <3>2
  <2> QED BY <1>7, <2>1, <2>2 DEF Release
<1>8. ASSUME NEW r \in Orchestrators, DeleteOrchestrator(r) PROVE Goal(q)
  <2>1. CASE r = q
    BY <1>0, <1>t, <1>8, <2>1 DEF DeleteOrchestrator
  <2>2. CASE r # q
    BY <1>t, <1>a, <1>8, <2>2 DEF DeleteOrchestrator
  <2> QED BY <2>1, <2>2
<1>9. ASSUME NEW r \in Orchestrators, Resync(r) PROVE Goal(q)
  BY <1>9, <1>a DEF Resync
<1>10. CASE SetDomain \/ Cluster
  BY <1>10, <1>a DEF SetDomain, Cluster, Sync, OLMInstall, NamespaceGone
<1>11. CASE Restart
  <2>1. pc'[q] = "idle" /\ life'[q] = life[q] /\ (life[q] # "gone" => q \in queue')
    BY <1>11 DEF Restart
  <2> QED BY <1>c, <2>1
<1>12. CASE UNCHANGED vars
  BY <1>12, <1>a DEF vars
<1> QED
  BY <1>1, <1>2, <1>3, <1>4, <1>5, <1>6, <1>7, <1>8, <1>9, <1>10, <1>11, <1>12
  DEF Next, Worker, reconcileRHDH, HandleRHDHCleanUp, Environment

(***************************************************************************)
(* A resource that no worker has and nothing has queued is gone, or its    *)
(* own Backstage resource and the config maps are there, for any number of *)
(* resources in the namespace.                                             *)
(***************************************************************************)
THEOREM NoneForgottenCorrect == Spec => []NoneForgotten
<1>1. Init => TypeOK /\ ConfiguredInv /\ AttendedInv
  BY TypeInit, ConfiguredInit, AttendedInit
<1>2. TypeOK /\ ConfiguredInv /\ AttendedInv /\ [Next]_vars
      => (TypeOK /\ ConfiguredInv /\ AttendedInv)'
  BY TypeNext, ConfiguredStep, AttendedStep DEF ConfiguredInv
<1>3. TypeOK /\ ConfiguredInv /\ AttendedInv => NoneForgotten
  BY DEF TypeOK, ConfiguredInv, BackstageConfigured, AttendedInv, NoneForgotten, CleanUpSteps
<1> QED BY <1>1, <1>2, <1>3, PTL DEF Spec

-----------------------------------------------------------------------------
(* A clean up goes for a namespace with somebody in it, and whoever is gone *)
(* has no worker.                                                          *)
LEMMA TenantInit == Init => TenantInv
  BY DEF Init, TenantInv

LEMMA TenantStep ==
  TypeOK /\ CacheInv /\ AttendedInv /\ TenantInv /\ [Next]_vars => TenantInv'
<1> DEFINE Goal(q) == /\ pc'[q] = "delete" /\ Usable' => space'.backstages # {}
                      /\ pc'[q] # "idle" => life'[q] # "gone"
<1> SUFFICES ASSUME TypeOK, CacheInv, AttendedInv, TenantInv, [Next]_vars,
                    NEW q \in Orchestrators
             PROVE  Goal(q)
  BY DEF TenantInv
<1>0. /\ pc[q] = "delete" /\ Usable => space.backstages # {}
      /\ pc[q] # "idle" => life[q] # "gone"
  BY DEF TenantInv
<1>s. Usable' => Usable /\ space.backstages \subseteq space'.backstages
  BY GrowsStep DEF Grows, Usable
<1>t. /\ pc \in [Orchestrators -> Steps]
      /\ life \in [Orchestrators -> {"live", "deleting", "gone"}]
  BY DEF TypeOK
<1>a. ASSUME pc'[q] \in {pc[q], "idle"}, life'[q] \in {life[q], "deleting"} PROVE Goal(q)
  BY <1>0, <1>s, <1>a
<1>b. ASSUME pc[q] # "idle", pc'[q] # "delete", life'[q] = life[q] PROVE Goal(q)
  BY <1>0, <1>b, Zenon
<1>c. ASSUME NEW r \in Orchestrators, Return(r) \/ Fail(r), UNCHANGED life PROVE Goal(q)
  BY <1>t, <1>a, <1>c DEF Return, Fail, Stop
<1>d. ASSUME NEW r \in Orchestrators, pc[r] # "idle", NEW step, step # "delete",
             pc' = [pc EXCEPT ![r] = step], UNCHANGED life
      PROVE  Goal(q)
  BY <1>t, <1>a, <1>b, <1>d
<1>1. ASSUME NEW r \in Orchestrators, Reconcile(r) PROVE Goal(q)
  <2>1. CASE r = q
    <3>1. /\ UNCHANGED life
          /\ pc'[q] = pc[q] \/ (pc'[q] \in {"domain", "check"} /\ life[q] # "gone")
      BY <1>t, <1>1, <2>1 DEF Reconcile
    <3> QED BY <1>a, <3>1, Zenon
  <2>2. CASE r # q
    BY <1>t, <1>1, <2>2, <1>a DEF Reconcile
  <2> QED BY <2>1, <2>2
<1>2. ASSUME NEW r \in Orchestrators, getClusterDomain(r) \/ CreateRHDHSecret(r) PROVE Goal(q)
  BY <1>2, <1>c, <1>d DEF getClusterDomain, CreateRHDHSecret
<1>3. ASSUME NEW r \in Orchestrators, configMapLoop(r) PROVE Goal(q)
  <2>1. CASE UNCHANGED <<pc, life>>
    BY <2>1, <1>a
  <2> QED BY <1>3, <2>1, <1>c, <1>d DEF configMapLoop, CreateConfigMap, Goto
<1>4. ASSUME NEW r \in Orchestrators, CheckCRDExists(r) \/ HandleRHDHCR(r) PROVE Goal(q)
  BY <1>4, <1>c, <1>d DEF CheckCRDExists, HandleRHDHCR, Goto
<1>5. ASSUME NEW r \in Orchestrators, CheckNamespaceExist(r) \/ CleanUpNamespace(r)
      PROVE  Goal(q)
  BY <1>5, <1>c, <1>d DEF CheckNamespaceExist, CleanUpNamespace, Goto
<1>6. ASSUME NEW r \in Orchestrators, listBackstageCRs(r) PROVE Goal(q)
  <2>1. ASSUME NEW o \in Orchestrators, cache.backstages = {o}, Goto(r, "delete")
        PROVE  Goal(q)
    <3>1. Usable' => space'.backstages # {}
      BY <1>s, <2>1 DEF CacheInv, Usable
    <3>2. pc[r] # "idle" /\ UNCHANGED life
      BY <1>6 DEF listBackstageCRs
    <3>3. pc'[q] # "idle" => pc[q] # "idle"
      BY <1>t, <2>1, <3>2 DEF Goto
    <3> QED BY <1>0, <3>1, <3>2, <3>3
  <2> QED BY <1>6, <1>c, <1>d, <2>1 DEF listBackstageCRs, Goto
<1>7. ASSUME NEW r \in Orchestrators, Release(r) PROVE Goal(q)
  <2>1. CASE Fail(r) /\ UNCHANGED life
    BY <2>1, <1>c
  <2>2. CASE Return(r) /\ life' = [life EXCEPT ![r] = "gone"] /\ r = q
    BY <1>t, <2>2 DEF Return, Stop
  <2>3. CASE Return(r) /\ life' = [life EXCEPT ![r] = "gone"] /\ r # q
    BY <1>t, <1>a, <2>3 DEF Return, Stop
  <2> QED BY <1>7, <2>1, <2>2, <2>3 DEF Release
<1>8. ASSUME NEW r \in Orchestrators, DeleteOrchestrator(r) PROVE Goal(q)
  BY <1>t, <1>8, <1>a DEF DeleteOrchestrator
<1>9. CASE SetDomain \/ Cluster \/ \E r \in Orchestrators : Resync(r)
  BY <1>9, <1>a DEF SetDomain, Cluster, Sync, OLMInstall, NamespaceGone, Resync
<1>10. CASE Restart
  BY <1>10, <1>a DEF Restart
<1>11. CASE UNCHANGED vars
  BY <1>11, <1>a DEF vars
<1> QED
  BY <1>1, <1>2, <1>3, <1>4, <1>5, <1>6, <1>7, <1>8, <1>9, <1>10, <1>11
  DEF Next, Worker, reconcileRHDH, HandleRHDHCleanUp, Environment

(* What a resource may write into a config map.                            *)
LEMMA TextsRead ==
  ASSUME NEW setting \in Settings, NEW hosts \in SUBSET BOOLEAN,
         NEW r \in Orchestrators, NEW c \in ConfigMaps
  PROVE  Texts[<<setting, hosts>>][r][c] =
           {GetOrCreateConfigMaps(c, hasDomain, "argocd" \in setting[r], "tekton" \in setting[r],
              setting[r]) : hasDomain \in hosts}
  BY DEF Texts

LEMMA TextsWritten ==
  ASSUME NEW setting \in Settings, NEW hosts \in SUBSET BOOLEAN,
         NEW r \in Orchestrators, NEW c \in ConfigMaps
  PROVE  Unmade \notin Texts[<<setting, hosts>>][r][c]
<1>1. \A hasDomain, argoCD, tekton, config :
        "base" \in GetOrCreateConfigMaps(c, hasDomain, argoCD, tekton, config)
  BY DEF GetOrCreateConfigMaps, ConfigMapTemplateFactory
<1> QED BY <1>1, TextsRead DEF Unmade

LEMMA RenderedOffered ==
  ASSUME TypeOK, HostInv, NEW r \in Orchestrators, pc[r] = "configmaps", NEW c \in ConfigMaps
  PROVE  Rendered(r, c) \in Texts[<<spec, Hosts>>][r][c]
<1>1. spec \in Settings /\ host[r] \in BOOLEAN /\ Hosts \in SUBSET BOOLEAN
  BY DEF TypeOK, Hosts
<1>2. host[r] \in Hosts
  <2>1. CASE domain = "set"
    <3>1. host[r] <=> TRUE
      BY <2>1 DEF HostInv
    <3>2. host[r] = TRUE
      BY <1>1, <3>1
    <3> QED BY <2>1, <3>2 DEF Hosts
  <2>2. CASE domain # "set"
    BY <1>1, <2>2 DEF Hosts
  <2> QED BY <2>1, <2>2
<1>3. Texts[<<spec, Hosts>>][r][c] =
           {GetOrCreateConfigMaps(c, hasDomain, "argocd" \in spec[r], "tekton" \in spec[r],
              spec[r]) : hasDomain \in Hosts}
  BY <1>1, TextsRead
<1> QED BY <1>2, <1>3 DEF Rendered

(* The steps of the model towards SharedNamespace.                         *)
SharingGoal == [Sharing!Next]_(Sharing!place)

LEMMA SharingStutter ==
  ASSUME UNCHANGED <<spec, domain, life, passed>>, Kept, State' = State
  PROVE  SharingGoal
  BY DEF SharingGoal, Sharing!place, Kept, Hosts

LEMMA SharingWrite ==
  ASSUME TypeOK, HostInv, TenantInv, NEW r \in Orchestrators, NEW c \in ConfigMaps,
         pc[r] = "configmaps", Usable, c \notin Made,
         space' = [space EXCEPT !.cms[c] = Rendered(r, c)],
         UNCHANGED <<spec, domain, life, passed>>
  PROVE  SharingGoal
<1>1. space.cms[c] = Unmade
  BY DEF Made
<1>2. space'.cms = [space.cms EXCEPT ![c] = Rendered(r, c)] /\ State' = State /\ State = "open"
      /\ space'.backstages = space.backstages
  BY OneMore DEF TypeOK, Space, State, Usable
<1>3. r \notin {q \in Orchestrators : life[q] = "gone"}
  BY DEF TenantInv
<1>4. Rendered(r, c) \in Texts[<<spec, Hosts>>][r][c]
  BY RenderedOffered
<1>5. Sharing!Write(r, c)
  BY <1>1, <1>2, <1>3, <1>4 DEF Sharing!Write, Hosts
<1> QED BY <1>5 DEF SharingGoal, Sharing!Next

LEMMA SharingMoveIn ==
  ASSUME TypeOK, ConfigMapInv, TenantInv, NEW r \in Orchestrators,
         pc[r] = "cr", Usable, r \notin space.backstages,
         space' = [space EXCEPT !.backstages = @ \union {r}],
         UNCHANGED <<spec, domain, life, passed>>
  PROVE  SharingGoal
<1>1. space'.cms = space.cms /\ space'.ns = space.ns
      /\ space'.backstages = space.backstages \union {r}
  BY DEF TypeOK, Space
<1>2. r \notin {q \in Orchestrators : life[q] = "gone"}
  BY DEF TenantInv
<1>3. passed \/ \A c \in ConfigMaps : space.cms[c] # Unmade
  BY DEF ConfigMapInv, Made
<1>4. State' = State /\ State = "open"
  BY <1>1 DEF State, Usable
<1>5. Sharing!MoveIn(r)
  BY <1>1, <1>2, <1>3, <1>4 DEF Sharing!MoveIn, Hosts
<1> QED BY <1>5 DEF SharingGoal, Sharing!Next

(* What a worker does while its resource is reconciled.                    *)
LEMMA SharingReconcile ==
  ASSUME TypeOK, ConfigMapInv, HostInv, TenantInv, NEW r \in Orchestrators,
         Reconcile(r) \/ reconcileRHDH(r)
  PROVE  SharingGoal
<1>k. space' = space => Kept /\ State' = State
  BY DEF Kept, State, Usable
<1>a. ASSUME UNCHANGED <<space, spec, domain, life, passed>> PROVE SharingGoal
  BY <1>a, <1>k, SharingStutter
<1>1. CASE Reconcile(r) \/ getClusterDomain(r) \/ CheckCRDExists(r)
  BY <1>1, <1>a DEF Reconcile, getClusterDomain, CheckCRDExists
<1>2. CASE CreateRHDHSecret(r)
  <2>1. CASE space' = [space EXCEPT !.secret = TRUE]
    <3>1. Kept /\ State' = State
      BY <2>1 DEF TypeOK, Space, Kept, State, Usable
    <3> QED BY <1>2, <3>1, SharingStutter DEF CreateRHDHSecret
  <2> QED BY <1>2, <1>a, <2>1 DEF CreateRHDHSecret
<1>3. CASE configMapLoop(r)
  <2>0. pc[r] = "configmaps" /\ UNCHANGED <<spec, domain, life>> /\ left[r] \subseteq ConfigMaps
    BY <1>3 DEF configMapLoop, TypeOK
  <2>1. ASSUME NEW c \in left[r], CreateConfigMap(r, c) PROVE SharingGoal
    <3>1. CASE UNCHANGED <<space, passed>>
      BY <1>a, <2>0, <3>1
    <3>2. CASE /\ Usable /\ c \notin Made /\ space' = [space EXCEPT !.cms[c] = Rendered(r, c)]
               /\ UNCHANGED passed
      BY <2>0, <3>2, SharingWrite
    <3>3. CASE passed' = TRUE /\ UNCHANGED space
      <4>1. Sharing!MissMap
        BY <1>k, <2>0, <3>3 DEF Sharing!MissMap, Hosts
      <4> QED BY <4>1 DEF SharingGoal, Sharing!Next
    <3> QED BY <2>1, <3>1, <3>2, <3>3 DEF CreateConfigMap
  <2> QED BY <1>3, <1>a, <2>0, <2>1 DEF configMapLoop
<1>4. CASE HandleRHDHCR(r)
  <2>1. CASE UNCHANGED space
    BY <1>4, <1>a, <2>1 DEF HandleRHDHCR
  <2>2. CASE Usable /\ r \notin space.backstages
             /\ space' = [space EXCEPT !.backstages = @ \union {r}]
    BY <1>4, <2>2, SharingMoveIn DEF HandleRHDHCR
  <2> QED BY <1>4, <2>1, <2>2 DEF HandleRHDHCR
<1> QED BY <1>1, <1>2, <1>3, <1>4 DEF reconcileRHDH

(* What a worker does while its resource is cleaned up.                    *)
LEMMA SharingCleanUp ==
  ASSUME TypeOK, AttendedInv, TenantInv, NEW r \in Orchestrators, HandleRHDHCleanUp(r)
  PROVE  SharingGoal
<1>k. space' = space => Kept /\ State' = State
  BY DEF Kept, State, Usable
<1>a. ASSUME UNCHANGED <<space, spec, domain, life, passed>> PROVE SharingGoal
  BY <1>a, <1>k, SharingStutter
<1>l. pc[r] \in CleanUpSteps => life[r] = "deleting"
  BY DEF AttendedInv
<1>1. CASE CheckNamespaceExist(r)
  <2>1. CASE space.ns = "plain" /\ space' = [space EXCEPT !.ns = "labelled"]
    <3>1. Kept /\ State' = State
      BY <2>1 DEF TypeOK, Space, Kept, State, Usable
    <3> QED BY <1>1, <3>1, SharingStutter DEF CheckNamespaceExist
  <2> QED BY <1>1, <1>a, <2>1 DEF CheckNamespaceExist
<1>2. CASE listBackstageCRs(r)
  BY <1>2, <1>a DEF listBackstageCRs
<1>3. CASE CleanUpNamespace(r)
  <2>0. UNCHANGED <<spec, domain, life, passed>> /\ pc[r] = "delete" /\ life[r] = "deleting"
    BY <1>3, <1>l DEF CleanUpNamespace, CleanUpSteps
  <2>1. CASE Usable /\ space' = [space EXCEPT !.ns = "terminating"]
    <3>1. Kept /\ State = "open" /\ State' = "closing"
      BY <2>1 DEF TypeOK, Space, Kept, State, Usable
    <3>2. space.backstages # {}
      BY <2>0, <2>1 DEF TenantInv
    <3>3. Sharing!Close(r)
      BY <2>0, <3>1, <3>2 DEF Sharing!Close, Kept, Hosts
    <3> QED BY <3>3 DEF SharingGoal, Sharing!Next
  <2> QED BY <1>3, <1>a, <2>0, <2>1 DEF CleanUpNamespace
<1>4. CASE Release(r)
  <2>1. CASE UNCHANGED life
    BY <1>4, <1>a, <2>1 DEF Release
  <2>2. CASE life' = [life EXCEPT ![r] = "gone"]
    <3>1. life \in [Orchestrators -> {"live", "deleting", "gone"}] /\ life[r] = "deleting"
      BY <1>4, <1>l DEF Release, CleanUpSteps, TypeOK
    <3>2. {q \in Orchestrators : life'[q] = "deleting"}
            = {q \in Orchestrators : life[q] = "deleting"} \ {r}
      BY <2>2, <3>1
    <3>3. {q \in Orchestrators : life'[q] = "gone"}
            = {q \in Orchestrators : life[q] = "gone"} \union {r}
      BY <2>2, <3>1
    <3>4. UNCHANGED <<space, spec, domain, passed>>
      BY <1>4 DEF Release
    <3>5. Sharing!Go(r)
      BY <1>k, <3>1, <3>2, <3>3, <3>4 DEF Sharing!Go, Kept, Hosts
    <3> QED BY <3>5 DEF SharingGoal, Sharing!Next
  <2> QED BY <1>4, <2>1, <2>2 DEF Release
<1> QED BY <1>1, <1>2, <1>3, <1>4 DEF HandleRHDHCleanUp

(* What users, informers and the namespace controller do.                  *)
LEMMA SharingEnvironment ==
  ASSUME TypeOK, Environment
  PROVE  SharingGoal
<1>k. space' = space => Kept /\ State' = State
  BY DEF Kept, State, Usable
<1>a. ASSUME UNCHANGED <<space, spec, domain, life, passed>> PROVE SharingGoal
  BY <1>a, <1>k, SharingStutter
<1>1. ASSUME NEW r \in Orchestrators, DeleteOrchestrator(r) PROVE SharingGoal
  <2>1. life \in [Orchestrators -> {"live", "deleting", "gone"}] /\ life[r] = "live"
        /\ life' = [life EXCEPT ![r] = "deleting"]
    BY <1>1 DEF DeleteOrchestrator, TypeOK
  <2>2. {q \in Orchestrators : life'[q] = "deleting"}
          = {q \in Orchestrators : life[q] = "deleting"} \union {r}
    BY <2>1
  <2>3. {q \in Orchestrators : life'[q] = "gone"} = {q \in Orchestrators : life[q] = "gone"}
    BY <2>1
  <2>4. UNCHANGED <<space, spec, domain, passed>>
    BY <1>1 DEF DeleteOrchestrator
  <2>5. Sharing!Leave(r)
    BY <1>k, <2>1, <2>2, <2>3, <2>4 DEF Sharing!Leave, Kept, Hosts
  <2> QED BY <2>5 DEF SharingGoal, Sharing!Next
<1>2. CASE SetDomain
  <2>2. Hosts' = Hosts
    BY <1>2 DEF SetDomain, Hosts
  <2>3. UNCHANGED <<spec, Hosts>>
    BY <1>2, <2>2 DEF SetDomain
  <2>4. UNCHANGED <<space, life, passed>>
    BY <1>2 DEF SetDomain
  <2> QED BY <1>k, <2>3, <2>4 DEF SharingGoal, Sharing!place, Kept
<1>3. CASE NamespaceGone
  <2>1. State = "closing" /\ State' = "closed" /\ space'.backstages = {}
        /\ space'.cms = [c \in ConfigMaps |-> Unmade]
    BY <1>3 DEF NamespaceGone, State, Usable
  <2>2. Sharing!Vanish
    BY <1>3, <2>1 DEF NamespaceGone, Sharing!Vanish, Hosts
  <2> QED BY <2>2 DEF SharingGoal, Sharing!Next
<1>4. CASE Sync \/ OLMInstall \/ Restart \/ \E r \in Orchestrators : Resync(r)
  BY <1>4, <1>a DEF Sync, OLMInstall, Restart, Resync
<1> QED BY <1>1, <1>2, <1>3, <1>4 DEF Environment, Cluster

(***************************************************************************)
(* The Orchestrator resources that name one namespace share it as          *)
(* SharedNamespace promises, for any number of them.                       *)
(***************************************************************************)
THEOREM SharingImplemented == Spec => ImplementsSharing
<1>1. Init => Sharing!Init
  <2> SUFFICES ASSUME Init PROVE Sharing!Init
    OBVIOUS
  <2>0. spec \in Settings /\ Hosts \in SUBSET BOOLEAN
    BY DEF Init, Hosts
  <2>1. \A r \in Orchestrators : \A c \in ConfigMaps :
          Unmade \notin Texts[<<spec, Hosts>>][r][c]
    BY <2>0, TextsWritten
  <2>2. State = "open" /\ passed = FALSE /\ space.cms = [c \in ConfigMaps |-> Unmade]
        /\ space.backstages = {}
    BY DEF Init, State, Usable
  <2>3. {r \in Orchestrators : life[r] = "deleting"} = {}
        /\ {r \in Orchestrators : life[r] = "gone"} = {}
    BY DEF Init
  <2> QED BY <2>1, <2>2, <2>3 DEF Sharing!Init
<1>2. TypeOK /\ ConfiguredInv /\ DomainInv /\ AttendedInv /\ TenantInv /\ [Next]_vars
      => [Sharing!Next]_(Sharing!place)
  <2> SUFFICES ASSUME TypeOK, ConfiguredInv, DomainInv, AttendedInv, TenantInv, [Next]_vars
               PROVE  SharingGoal
    BY DEF SharingGoal
  <2>1. CASE UNCHANGED vars
    <3>1. UNCHANGED <<spec, domain, life, passed>> /\ Kept /\ State' = State
      BY <2>1 DEF vars, Kept, State, Usable
    <3> QED BY <3>1, SharingStutter
  <2> QED BY <2>1, SharingReconcile, SharingCleanUp, SharingEnvironment
          DEF Next, Worker, ConfiguredInv, DomainInv
<1>3. Init => TypeOK /\ ConfiguredInv /\ DomainInv /\ AttendedInv /\ TenantInv
  BY TypeInit, ConfiguredInit, DomainInit, AttendedInit, TenantInit
<1>4. TypeOK /\ ConfiguredInv /\ DomainInv /\ AttendedInv /\ TenantInv /\ [Next]_vars
      => (TypeOK /\ ConfiguredInv /\ DomainInv /\ AttendedInv /\ TenantInv)'
  BY TypeNext, ConfiguredStep, DomainStep, AttendedStep, TenantStep DEF ConfiguredInv
<1> QED BY <1>1, <1>2, <1>3, <1>4, PTL DEF Spec, ImplementsSharing, Sharing!Spec
=============================================================================
