--------------------------- MODULE RHDHNamespace ---------------------------
(***************************************************************************)
(* Orchestrator resources that share spec.rhdh.namespace: each has a       *)
(* Backstage resource of its own there, all use the same config maps, and  *)
(* the clean up of one may take the namespace.                             *)
(*   orchestrator_controller.go  reconcileRHDH, getClusterDomain           *)
(*   rhdh/backstage.go           CreateRHDHSecret, GetOrCreateConfigMaps,  *)
(*                               HandleRHDHCR, HandleRHDHCleanUp           *)
(*   rhdh/cm_template.go, rhdh_config*.go, rhdh_dynamic_plugin.go          *)
(*                               what the config maps are rendered to      *)
(*                                                                         *)
(* Two workers reconcile different resources at the same time.  They read  *)
(* through informer caches that lag the API server, one per kind; any call *)
(* may fail, with or without having taken effect; the process may restart. *)
(* The operator is installed here but for its CRD (OperatorInstall), and   *)
(* the rest of the clean up is CleanUp's.                                  *)
(***************************************************************************)
EXTENDS Naturals

CONSTANTS
  Orchestrators,  \* the resources with this spec.rhdh.namespace
  ConfigMaps,     \* the names in ConfigMapNameAndConfigDataKey considered
  Settings,       \* the specs considered: what each resource enables
  Domains,        \* what is considered of the cluster's ingress domain
  MaxFaults       \* bound on failed calls and restarts

ConfigMapNames == {"app-config-rhdh", "app-config-rhdh-auth",
                   "app-config-rhdh-catalog", "dynamic-plugins-rhdh"}
Flags == {"argocd", "tekton", "devMode", "notifications"}

(* The domain is set from the beginning, not set, or set later.            *)
DomainStates == {"set", "unset", "late"}

ASSUME InputAssumption ==
  /\ ConfigMaps \subseteq ConfigMapNames
  /\ Settings \subseteq [Orchestrators -> SUBSET Flags]
  /\ Domains \subseteq {"set", "unset"}
  /\ MaxFaults \in Nat

VARIABLES
  spec,    \* what each resource enables; one of the Settings
  life,    \* of each resource: live, being deleted, gone
  domain,  \* the domain of the cluster's Ingress resource
  crd,     \* the CRD of Backstage exists
  space,   \* the namespace and what is in it
  cache,   \* the informers' copy of it
  queue,   \* the resources in the work queue
  pc,      \* where the worker of each resource is
  host,    \* the worker's clusterDomain is not empty
  left,    \* the config maps the worker's loop has not come to
  known,   \* Backstage resources the cache showed when this clean up began
  passed,  \* an error of reading a config map was passed over
  faults   \* faults so far

vars == <<spec, life, domain, crd, space, cache, queue, pc, host, left, known, passed, faults>>

(* A config map is the sections it was rendered with; every one has some.  *)
Sections == Flags \union {"domain", "argocdPlugins", "users", "base"}
Unmade   == {}

NamespaceStates == {"absent", "plain", "labelled", "terminating"}
Space  == [ns: NamespaceStates, secret: BOOLEAN, cms: [ConfigMaps -> SUBSET Sections],
           backstages: SUBSET Orchestrators]
Caches == [ns: NamespaceStates, secret: BOOLEAN, cms: SUBSET ConfigMaps,
           backstages: SUBSET Orchestrators]
CleanUpSteps == {"check", "list", "delete", "release"}
Steps == {"idle", "domain", "secret", "configmaps", "crd", "cr"} \union CleanUpSteps

(***************************************************************************)
(* Type correctness of the model.                                          *)
(***************************************************************************)
TypeOK ==
  /\ spec \in Settings
  /\ life \in [Orchestrators -> {"live", "deleting", "gone"}]
  /\ domain \in DomainStates
  /\ crd \in BOOLEAN
  /\ space \in Space
  /\ cache \in Caches
  /\ queue \in SUBSET Orchestrators
  /\ pc \in [Orchestrators -> Steps]
  /\ host \in [Orchestrators -> BOOLEAN]
  /\ left \in [Orchestrators -> SUBSET ConfigMaps]
  /\ known \in [Orchestrators -> SUBSET Orchestrators]
  /\ passed \in BOOLEAN
  /\ faults \in 0..MaxFaults

Made   == {c \in ConfigMaps : space.cms[c] # Unmade}
Usable == space.ns \in {"plain", "labelled"}

-----------------------------------------------------------------------------
(* The namespace is its users' and exists from the beginning; once it has  *)
(* been deleted nobody makes it again.                                     *)
Init ==
  /\ spec \in Settings
  /\ life = [r \in Orchestrators |-> "live"]
  /\ domain \in Domains
  /\ crd = FALSE
  /\ space = [ns |-> "plain", secret |-> FALSE, cms |-> [c \in ConfigMaps |-> Unmade],
              backstages |-> {}]
  /\ cache = [ns |-> "plain", secret |-> FALSE, cms |-> {}, backstages |-> {}]
  /\ queue = Orchestrators
  /\ pc = [r \in Orchestrators |-> "idle"]
  /\ host = [r \in Orchestrators |-> FALSE]
  /\ left = [r \in Orchestrators |-> {}]
  /\ known = [r \in Orchestrators |-> {}]
  /\ passed = FALSE
  /\ faults = 0

Fault   == faults < MaxFaults /\ faults' = faults + 1
NoFault == UNCHANGED faults

-----------------------------------------------------------------------------
(***************************************************************************)
(* What the templates render, by the conditions in them.  The constants of *)
(* the package that they test (tokens, URLs, user names) are never empty.  *)
(***************************************************************************)
When(flag, condition) == IF condition THEN {flag} ELSE {}

(* The parameters follow ConfigMapTemplateFactory; "domain" in app-config  *)
(* stands for a base URL that has one.                                     *)
ConfigMapTemplateFactory(c, hasDomain, argoCDEnabled, tektonEnabled, rhdhConfig) ==
  {"base"} \union
  CASE c = "app-config-rhdh" ->
         When("domain", hasDomain) \union When("argocd", argoCDEnabled)
    [] c = "app-config-rhdh-auth" -> When("devMode", "devMode" \in rhdhConfig)
    [] c = "app-config-rhdh-catalog" -> When("users", "devMode" \in rhdhConfig)
    [] c = "dynamic-plugins-rhdh" ->
         When("tekton", tektonEnabled) \union When("argocdPlugins", argoCDEnabled)
         \union When("notifications", "notifications" \in rhdhConfig)

(* reconcileRHDH passes (argoCDEnabled, tektonEnabled) to parameters that  *)
(* are declared (tektonEnabled, argoCDEnabled).                            *)
GetOrCreateConfigMaps(c, hasDomain, tektonEnabled, argoCDEnabled, rhdhConfig) ==
  ConfigMapTemplateFactory(c, hasDomain, argoCDEnabled, tektonEnabled, rhdhConfig)

Rendered(r, c) ==
  GetOrCreateConfigMaps(c, host[r], "argocd" \in spec[r], "tekton" \in spec[r], spec[r])

-----------------------------------------------------------------------------
(* The end of a call of Reconcile: of its local variables, and with an     *)
(* error back into the work queue.                                         *)
Stop(r) ==
  /\ pc' = [pc EXCEPT ![r] = "idle"]
  /\ host' = [host EXCEPT ![r] = FALSE]
  /\ left' = [left EXCEPT ![r] = {}]
  /\ known' = [known EXCEPT ![r] = {}]
Return(r) == Stop(r) /\ UNCHANGED queue
Fail(r)   == Stop(r) /\ queue' = queue \union {r}
Goto(r, step) == pc' = [pc EXCEPT ![r] = step] /\ UNCHANGED <<queue, host, left, known>>

(* A worker takes a resource from the queue, unless one has it already.    *)
Reconcile(r) ==
  /\ pc[r] = "idle" /\ r \in queue
  /\ queue' = queue \ {r}
  /\ \/ life[r] = "live"
        /\ pc' = [pc EXCEPT ![r] = "domain"] /\ UNCHANGED known
     \/ life[r] = "deleting"
        /\ pc' = [pc EXCEPT ![r] = "check"]
        /\ known' = [known EXCEPT ![r] = cache.backstages]
     \/ life[r] = "gone" /\ UNCHANGED <<pc, known>>
  /\ UNCHANGED <<spec, life, domain, crd, space, cache, host, left, passed, faults>>

(* Mutant: an Ingress resource that cannot be read counts as one without.  *)
getClusterDomain_Swallow(r) ==
  /\ pc[r] = "domain"
  /\ \/ NoFault /\ host' = [host EXCEPT ![r] = (domain # "unset")]
     \/ Fault /\ UNCHANGED host
  /\ pc' = [pc EXCEPT ![r] = "secret"] /\ UNCHANGED <<queue, left, known>>
  /\ UNCHANGED <<spec, life, domain, crd, space, cache, passed>>

(* An Ingress resource without a domain is logged as an error, but the     *)
(* error returned is nil.                                                  *)
getClusterDomain(r) ==
  /\ pc[r] = "domain"
  /\ \/ /\ NoFault
        /\ host' = [host EXCEPT ![r] = (domain # "unset")]
        /\ pc' = [pc EXCEPT ![r] = "secret"] /\ UNCHANGED <<queue, left, known>>
     \/ Fault /\ Fail(r)
  /\ UNCHANGED <<spec, life, domain, crd, space, cache, passed>>

CreateRHDHSecret(r) ==
  /\ pc[r] = "secret"
  /\ LET start == /\ pc' = [pc EXCEPT ![r] = "configmaps"]
                  /\ left' = [left EXCEPT ![r] = ConfigMaps]
                  /\ UNCHANGED <<queue, host, known>>
         free  == Usable /\ ~space.secret
         done  == [space EXCEPT !.secret = TRUE]
     IN \/ NoFault /\ cache.secret /\ start /\ UNCHANGED space
        \/ NoFault /\ ~cache.secret /\ free /\ start /\ space' = done
        \/ NoFault /\ ~cache.secret /\ ~free /\ Fail(r) /\ UNCHANGED space
        \/ Fault /\ Fail(r) /\ UNCHANGED space
        \/ Fault /\ ~cache.secret /\ free /\ Fail(r) /\ space' = done
  /\ UNCHANGED <<spec, life, domain, crd, cache, passed>>

(* Mutant: an error of a Create is passed over like one of a Get.          *)
CreateConfigMap_Swallow(r, c) ==
  LET next == /\ left' = [left EXCEPT ![r] = @ \ {c}]
              /\ UNCHANGED <<queue, pc, host, known>>
      free == Usable /\ c \notin Made
  IN \/ /\ NoFault /\ next /\ c \notin cache.cms /\ free
        /\ space' = [space EXCEPT !.cms[c] = Rendered(r, c)] /\ UNCHANGED passed
     \/ NoFault /\ next /\ (c \in cache.cms \/ ~free) /\ UNCHANGED <<space, passed>>
     \/ Fault /\ next /\ UNCHANGED <<space, passed>>

(* Mutant: a config map that another worker made is written over.          *)
CreateConfigMap_Overwrite(r, c) ==
  LET next == /\ left' = [left EXCEPT ![r] = @ \ {c}]
              /\ UNCHANGED <<queue, pc, host, known>>
      free == c \notin cache.cms /\ Usable
      done == [space EXCEPT !.cms[c] = Rendered(r, c)]
  IN \/ /\ \/ NoFault /\ c \in cache.cms /\ next /\ UNCHANGED space
           \/ NoFault /\ free /\ next /\ space' = done
           \/ Fault /\ Fail(r) /\ UNCHANGED space
        /\ UNCHANGED passed
     \/ Fault /\ next /\ passed' = TRUE /\ UNCHANGED space

(* One round of the loop, for any of the config maps left: Go iterates a   *)
(* map in any order.  One the cache shows is kept as it is; an error of    *)
(* the Get other than NotFound is passed over; the Create fails if another *)
(* worker was first, or the namespace is not there.                        *)
CreateConfigMap(r, c) ==
  LET next == /\ left' = [left EXCEPT ![r] = @ \ {c}]
              /\ UNCHANGED <<queue, pc, host, known>>
      free == c \notin cache.cms /\ Usable /\ c \notin Made
      done == [space EXCEPT !.cms[c] = Rendered(r, c)]
  IN \/ /\ \/ NoFault /\ c \in cache.cms /\ next /\ UNCHANGED space
           \/ NoFault /\ free /\ next /\ space' = done
           \/ NoFault /\ c \notin cache.cms /\ ~free /\ Fail(r) /\ UNCHANGED space
           \/ Fault /\ c \notin cache.cms /\ Fail(r) /\ UNCHANGED space
           \/ Fault /\ free /\ Fail(r) /\ space' = done
        /\ UNCHANGED passed
     \/ Fault /\ next /\ passed' = TRUE /\ UNCHANGED space

configMapLoop(r) ==
  /\ pc[r] = "configmaps"
  /\ \/ \E c \in left[r] : CreateConfigMap(r, c)
     \/ left[r] = {} /\ NoFault /\ Goto(r, "crd") /\ UNCHANGED <<space, passed>>
  /\ UNCHANGED <<spec, life, domain, crd, cache>>

(* HandleRHDHCR waits for the CRD by failing.                              *)
CheckCRDExists(r) ==
  /\ pc[r] = "crd"
  /\ \/ NoFault /\ crd /\ Goto(r, "cr")
     \/ ((NoFault /\ ~crd) \/ Fault) /\ Fail(r)
  /\ UNCHANGED <<spec, life, domain, crd, space, cache, passed>>

(* Mutant: any Backstage resource in the namespace will do.                *)
HandleRHDHCR_Any(r) ==
  /\ pc[r] = "cr"
  /\ \/ NoFault /\ cache.backstages # {} /\ Return(r) /\ UNCHANGED space
     \/ NoFault /\ cache.backstages = {} /\ Usable /\ Return(r)
        /\ space' = [space EXCEPT !.backstages = @ \union {r}]
     \/ NoFault /\ cache.backstages = {} /\ ~Usable /\ Fail(r) /\ UNCHANGED space
     \/ Fault /\ Fail(r) /\ UNCHANGED space
  /\ UNCHANGED <<spec, life, domain, crd, cache, passed>>

HandleRHDHCR(r) ==
  /\ pc[r] = "cr"
  /\ LET free == Usable /\ r \notin space.backstages
         done == [space EXCEPT !.backstages = @ \union {r}]
     IN \/ NoFault /\ r \in cache.backstages /\ Return(r) /\ UNCHANGED space
        \/ NoFault /\ r \notin cache.backstages /\ free /\ Return(r) /\ space' = done
        \/ NoFault /\ r \notin cache.backstages /\ ~free /\ Fail(r) /\ UNCHANGED space
        \/ Fault /\ Fail(r) /\ UNCHANGED space
        \/ Fault /\ r \notin cache.backstages /\ free /\ Fail(r) /\ space' = done
  /\ UNCHANGED <<spec, life, domain, crd, cache, passed>>

reconcileRHDH(r) ==
  \/ getClusterDomain(r)
  \/ CreateRHDHSecret(r)
  \/ configMapLoop(r)
  \/ CheckCRDExists(r)
  \/ HandleRHDHCR(r)

-----------------------------------------------------------------------------
(* HandleRHDHCleanUp.  CheckNamespaceExist labels the namespace if need be *)
(* (an error of the Update is logged only); an error of its Get counts as  *)
(* a namespace that does not exist.                                        *)
CheckNamespaceExist(r) ==
  /\ pc[r] = "check"
  /\ LET marked == IF space.ns = "plain" THEN [space EXCEPT !.ns = "labelled"] ELSE space
     IN \/ NoFault /\ cache.ns = "absent" /\ UNCHANGED space /\ Goto(r, "release")
        \/ NoFault /\ cache.ns = "plain" /\ space' = marked /\ Goto(r, "list")
        \/ NoFault /\ cache.ns \in {"labelled", "terminating"} /\ UNCHANGED space
           /\ Goto(r, "list")
        \/ Fault /\ UNCHANGED space /\ Goto(r, "release")
        \/ Fault /\ cache.ns = "plain" /\ UNCHANGED space /\ Goto(r, "list")
  /\ UNCHANGED <<spec, life, domain, crd, cache, passed>>

(* Mutant: any Backstage resource will do.                                 *)
listBackstageCRs_Any(r) ==
  /\ pc[r] = "list"
  /\ \/ NoFault /\ crd /\ Goto(r, IF cache.backstages = {} THEN "release" ELSE "delete")
     \/ ((NoFault /\ ~crd) \/ Fault) /\ Fail(r)
  /\ UNCHANGED <<spec, life, domain, crd, space, cache, passed>>

(* Exactly one labelled Backstage resource, whosever it is: the namespace  *)
(* goes; none or more: it stays.                                           *)
listBackstageCRs(r) ==
  /\ pc[r] = "list"
  /\ \/ /\ NoFault /\ crd
        /\ Goto(r, IF \E q \in Orchestrators : cache.backstages = {q}
                   THEN "delete" ELSE "release")
     \/ ((NoFault /\ ~crd) \/ Fault) /\ Fail(r)
  /\ UNCHANGED <<spec, life, domain, crd, space, cache, passed>>

(* Mutant: the answer of the Delete is taken for the end of the namespace. *)
CleanUpNamespace_AtOnce(r) ==
  /\ pc[r] = "delete"
  /\ \/ NoFault /\ space' = [space EXCEPT !.ns = "deleted"] /\ Goto(r, "release")
     \/ Fault /\ UNCHANGED space /\ Fail(r)
  /\ UNCHANGED <<spec, life, domain, crd, cache, passed>>

CleanUpNamespace(r) ==
  /\ pc[r] = "delete"
  /\ LET deleted == IF cache.ns \in {"labelled", "terminating"} /\ Usable
                    THEN [space EXCEPT !.ns = "terminating"] ELSE space
     IN \/ NoFault /\ space' = deleted /\ Goto(r, "release")
        \/ Fault /\ space' \in {space, deleted} /\ Fail(r)
  /\ UNCHANGED <<spec, life, domain, crd, cache, passed>>

(* The operator's namespace goes, then the finalizer and with it the       *)
(* resource, unless either call fails.                                     *)
Release(r) ==
  /\ pc[r] = "release"
  /\ \/ NoFault /\ life' = [life EXCEPT ![r] = "gone"] /\ Return(r)
     \/ Fault /\ UNCHANGED life /\ Fail(r)
  /\ UNCHANGED <<spec, domain, crd, space, cache, passed>>

HandleRHDHCleanUp(r) ==
  \/ CheckNamespaceExist(r)
  \/ listBackstageCRs(r)
  \/ CleanUpNamespace(r)
  \/ Release(r)

Worker(r) == Reconcile(r) \/ reconcileRHDH(r) \/ HandleRHDHCleanUp(r)

-----------------------------------------------------------------------------
(* The environment.  A user deletes a resource, as the worker sees it.     *)
DeleteOrchestrator(r) ==
  /\ life[r] = "live"
  /\ life' = [life EXCEPT ![r] = "deleting"]
  /\ queue' = queue \union {r}
  /\ UNCHANGED <<spec, domain, crd, space, cache, pc, host, left, known, passed, faults>>

SetDomain ==
  /\ domain = "unset"
  /\ domain' = "late"
  /\ UNCHANGED <<spec, life, crd, space, cache, queue, pc, host, left, known, passed, faults>>

OLMInstall ==
  /\ ~crd
  /\ crd' = TRUE
  /\ UNCHANGED <<spec, life, domain, space, cache, queue, pc, host, left, known, passed, faults>>

(* The informers, one per kind, catch up.  (What only ever appears, the    *)
(* CRD and the domain, appears when the informer shows it.)                *)
Sync ==
  /\ \/ cache.ns # space.ns /\ cache' = [cache EXCEPT !.ns = space.ns]
     \/ cache.secret # space.secret /\ cache' = [cache EXCEPT !.secret = space.secret]
     \/ cache.cms # Made /\ cache' = [cache EXCEPT !.cms = Made]
     \/ /\ cache.backstages # space.backstages
        /\ cache' = [cache EXCEPT !.backstages = space.backstages]
  /\ UNCHANGED <<spec, life, domain, crd, space, queue, pc, host, left, known, passed, faults>>

(* The namespace controller empties and removes the namespace.             *)
NamespaceGone ==
  /\ space.ns = "terminating"
  /\ space' = [ns |-> "absent", secret |-> FALSE, cms |-> [c \in ConfigMaps |-> Unmade],
               backstages |-> {}]
  /\ UNCHANGED <<spec, life, domain, crd, cache, queue, pc, host, left, known, passed, faults>>

(* The informers' periodic resync (during a call it counts at its end).    *)
Resync(r) ==
  /\ life[r] # "gone" /\ r \notin queue /\ pc[r] = "idle"
  /\ queue' = queue \union {r}
  /\ UNCHANGED <<spec, life, domain, crd, space, cache, pc, host, left, known, passed, faults>>

Restart ==
  /\ Fault
  /\ pc' = [r \in Orchestrators |-> "idle"]
  /\ host' = [r \in Orchestrators |-> FALSE]
  /\ left' = [r \in Orchestrators |-> {}]
  /\ known' = [r \in Orchestrators |-> {}]
  /\ queue' = {r \in Orchestrators : life[r] # "gone"}
  /\ cache' = [ns |-> space.ns, secret |-> space.secret, cms |-> Made,
               backstages |-> space.backstages]
  /\ UNCHANGED <<spec, life, domain, crd, space, passed>>

Cluster == Sync \/ OLMInstall \/ NamespaceGone

Environment ==
  \/ \E r \in Orchestrators : DeleteOrchestrator(r) \/ Resync(r)
  \/ SetDomain
  \/ Cluster
  \/ Restart

Next == (\E r \in Orchestrators : Worker(r)) \/ Environment

(* Workers are scheduled and resources resynced when nothing is queued;    *)
(* informers, OLM and the namespace controller do their work until there   *)
(* is none left.                                                           *)
Fairness ==
  /\ \A r \in Orchestrators : WF_vars(Worker(r) \/ Resync(r))
  /\ WF_vars(Cluster)

Spec == Init /\ [][Next]_vars /\ Fairness

-----------------------------------------------------------------------------
(***************************************************************************)
(* A Backstage resource never refers to a config map that is not there,    *)
(* although several workers make them in any order from lagging caches,    *)
(* calls fail and the process restarts; the exception is an error of       *)
(* reading a config map, which the code passes over.                       *)
(***************************************************************************)
BackstageConfigured ==
  ~passed /\ Usable /\ space.backstages # {} => Made = ConfigMaps

(***************************************************************************)
(* Where the cluster has an ingress domain, the base URL in the config     *)
(* map has it, whatever calls fail: the map is never updated, so one made  *)
(* without would be wrong for good.  (getClusterDomain passes an empty     *)
(* domain on with a nil error.)                                            *)
(***************************************************************************)
HostComplete ==
  domain = "set" => \A c \in Made :
    c = "app-config-rhdh" => "domain" \in space.cms[c]

(***************************************************************************)
(* A clean up that began when the cache showed the Backstage resources of  *)
(* two Orchestrators does not take the namespace from under them, whatever *)
(* happens between the steps of the clean up.                              *)
(***************************************************************************)
NamespaceTaken(r) ==
  pc[r] = "delete" /\ Usable /\ space'.ns = "terminating"
NeighbourKept ==
  \A r \in Orchestrators : NamespaceTaken(r) =>
    \A p, q \in known[r] : p = q
KnownBackstageKept == [][NeighbourKept]_vars

(***************************************************************************)
(* Each resource gets its Backstage and all config maps in the end, after  *)
(* any faults and in competition with the others, unless it is deleted, or *)
(* the clean up of another takes the namespace.                            *)
(***************************************************************************)
Provided(r) == r \in space.backstages /\ Made = ConfigMaps
RHDHProvided ==
  <>(\A r \in Orchestrators : Provided(r) \/ life[r] # "live" \/ ~Usable)

(***************************************************************************)
(* No resource is forgotten: one that no worker has and that is not in the *)
(* work queue is gone, or it is live and, as long as the namespace is      *)
(* usable, its own Backstage resource is there and every config map,       *)
(* whatever the caches showed of the others', and whichever calls failed   *)
(* (but for the reading of a config map).                                  *)
(***************************************************************************)
NoneForgotten ==
  \A r \in Orchestrators : pc[r] = "idle" /\ r \notin queue /\ life[r] # "gone" =>
    /\ life[r] = "live"
    /\ Usable => r \in space.backstages /\ (~passed => Made = ConfigMaps)

-----------------------------------------------------------------------------
(* The namespace as its users see it, and what each may write there: a     *)
(* worker has the domain when there was one from the beginning.            *)
State == IF Usable THEN "open" ELSE IF space.ns = "terminating" THEN "closing" ELSE "closed"
Hosts == IF domain = "set" THEN {TRUE} ELSE BOOLEAN
Texts ==
  [terms \in Settings \X SUBSET BOOLEAN |->
    [r \in Orchestrators |-> [c \in ConfigMaps |->
      LET config == terms[1][r]
      IN {GetOrCreateConfigMaps(c, hasDomain, "argocd" \in config, "tekton" \in config, config) :
            hasDomain \in terms[2]}]]]

(***************************************************************************)
(* However workers, lagging caches, failed calls and clean ups interleave, *)
(* the namespace is a SharedNamespace to the Orchestrators that name it:   *)
(* the config maps are those of the first worker to come by, rendered with *)
(* the domain if there is one, and are never written again; a Backstage    *)
(* resource finds them all and keeps them; and only a resource that is     *)
(* being deleted takes the namespace, from somebody.                       *)
(***************************************************************************)
Sharing == INSTANCE SharedNamespace WITH
  Users   <- Orchestrators,
  Maps    <- ConfigMaps,
  Blank   <- Unmade,
  Offers  <- Texts,
  terms   <- <<spec, Hosts>>,
  state   <- State,
  content <- space.cms,
  tenants <- space.backstages,
  leaving <- {r \in Orchestrators : life[r] = "deleting"},
  gone    <- {r \in Orchestrators : life[r] = "gone"},
  gap     <- passed

ImplementsSharing == Sharing!Spec

(***************************************************************************)
(* api/v1alpha3/orchestrator_types.go: argocd.enabled "Determines whether  *)
(* to install the ArgoCD plugin".                                          *)
(***************************************************************************)
ArgoCDPluginInstalled ==
  (\A r \in Orchestrators : "argocd" \in spec[r]) =>
    \A c \in Made : c = "dynamic-plugins-rhdh" => "argocdPlugins" \in space.cms[c]

-----------------------------------------------------------------------------
(***************************************************************************)
(* The strengthenings by which the safety properties are inductive (proved *)
(* in RHDHNamespaceProofs).  Nothing leaves the namespace before it is     *)
(* gone, and so the caches only show what is there.                        *)
(***************************************************************************)
CacheInv ==
  space.ns # "absent" => /\ cache.cms \subseteq Made
                         /\ cache.backstages \subseteq space.backstages

(* The loop leaves no gap behind it.                                       *)
ConfigMapInv ==
  ~passed /\ Usable => \A r \in Orchestrators :
    /\ pc[r] = "configmaps" => ConfigMaps \ left[r] \subseteq Made
    /\ pc[r] \in {"crd", "cr"} => ConfigMaps \subseteq Made

(* A worker past getClusterDomain has the domain.                          *)
HostInv ==
  domain = "set" => \A r \in Orchestrators :
    pc[r] \in {"secret", "configmaps"} => host[r]

(* A resource that is being deleted is queued or being cleaned up, and     *)
(* only such a one is.                                                     *)
AttendedInv ==
  \A r \in Orchestrators :
    /\ life[r] = "deleting" => r \in queue \/ pc[r] \in CleanUpSteps
    /\ pc[r] \in CleanUpSteps => life[r] = "deleting"
    /\ life[r] = "live" /\ pc[r] = "idle" /\ r \notin queue /\ Usable =>
         r \in space.backstages

(* A clean up that goes for the namespace has seen somebody in it, and a   *)
(* resource that is gone has no worker.                                    *)
TenantInv ==
  \A r \in Orchestrators :
    /\ pc[r] = "delete" /\ Usable => space.backstages # {}
    /\ pc[r] # "idle" => life[r] # "gone"

(* What a clean up knew at its beginning is still in the cache when it     *)
(* lists, and no more than one Backstage when it deletes.                  *)
KnownInv ==
  Usable => \A r \in Orchestrators :
    /\ pc[r] \in {"check", "list"} => known[r] \subseteq cache.backstages
    /\ pc[r] = "delete" => \A p, q \in known[r] : p = q
=============================================================================
