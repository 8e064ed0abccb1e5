------------------------------ MODULE Webhook ------------------------------
(***************************************************************************)
(* pkg/webhook: the admission webhook, which turns requests for synthetic  *)
(* resources into ResourceClaimTemplates and references to them, and the   *)
(* reconciler that deletes templates no pod refers to.  One namespace.     *)
(*                                                                         *)
(* Admissions run concurrently with each other and with the reconciler.    *)
(* API server and resource claim controller are external.                  *)
(***************************************************************************)
EXTENDS Naturals, Sequences, FiniteSets

CONSTANTS
  Pods,          \* pod creations
  Containers,    \* container indices: 1 .. n
  Resources,     \* sequence of the synthetic resource names, sorted
  Classes,       \* device classes
  Class,         \* ResourceMappings: resource name -> class
  Prefix,        \* podPrefix: the pod's generateName, which pods may share, or
                 \*   its name
  Request,       \* [Pods -> [Containers -> [resource names -> Nat]]]
  OwnClaims,     \* [Pods -> SUBSET Containers]: containers that come with
                 \*   claim references of their own
  TemplateName,  \* <<prefix, class>> -> "prefix-class", cut to 63 bytes
  PodClaimName,  \* class -> "composite-class", cut to 63 bytes
  MaxErrors      \* bound on failing requests

Names == {Resources[k] : k \in DOMAIN Resources}

ASSUME WebhookAssumption ==
  /\ IsFiniteSet(Containers) /\ Containers \subseteq Nat
  /\ Resources \in Seq(Names)
  /\ \A k, l \in DOMAIN Resources : k # l => Resources[k] # Resources[l]
  /\ Class \in [Names -> Classes]
  /\ Request \in [Pods -> [Containers -> [Names -> Nat]]]
  /\ OwnClaims \in [Pods -> SUBSET Containers]
  /\ MaxErrors \in Nat

VARIABLES
  phase,      \* [Pods -> Phases]
  todo,       \* [Pods -> SUBSET Nat]: the compositions, as positions in
              \*   Resources, whose templates its admission has yet to make
  claims,     \* [Pods -> set of [name, template]]: pod.spec.resourceClaims
  refs,       \* [Pods -> [Containers -> set of [claim, pair]]]: container
              \*   references to the requests pair-0, pair-1, ... of a claim
  templates,  \* the ResourceClaimTemplates
  made,       \* [Pods -> set of [name, class, count]]: ResourceClaims made
              \*   from the templates by the resource claim controller
  listed,     \* templates a reconciler pass has listed
  victims,    \* names it is going to delete
  errors

podVars     == <<phase, todo, claims, refs, made>>
webhookVars == <<podVars, templates, listed, victims, errors>>

Phases == {"new", "admitting", "patched", "live", "rejected", "gone"}

\* Admission requests are answered within seconds, the grace period is minutes.
InAdmission(p) == phase[p] \in {"admitting", "patched"}

WebhookInit ==
  /\ phase = [p \in Pods |-> "new"]
  /\ todo = [p \in Pods |-> {}]
  /\ claims = [p \in Pods |-> {}]
  /\ refs = [p \in Pods |-> [i \in Containers |-> {}]]
  /\ made = [p \in Pods |-> {}]
  /\ templates = {} /\ listed = {} /\ victims = {} /\ errors = 0

\* A request fails; it may have taken effect.
Failure == errors < MaxErrors /\ errors' = errors + 1
Success == UNCHANGED errors

----------------------------------------------------------------------------
(* Mutate                                                                  *)

\* findResourceRequests: the single devices that a set of containers asks for.
Units(p, r, J) == UNION {{i} \X (1 .. Request[p][i][r]) : i \in J}

\* Summed up per composition, and the compositions that are asked for.
TotalCount(p, r) == Cardinality(Units(p, r, Containers))
compKeys(p) == {k \in DOMAIN Resources : TotalCount(p, Resources[k]) > 0}

compositionTemplateName(p, r) == TemplateName[Prefix[p], Class[r]]

\* Mutant: one request too few.
BuildClaimSpecShort(p, r) == [class |-> Class[r], count |-> TotalCount(p, r) - 1]

\* The requests pair-0 .. pair-(count-1) of one class.
BuildClaimSpec(p, r) == [class |-> Class[r], count |-> TotalCount(p, r)]

\* Mutant: every container's references start at pair-0.
claimRefsRestart(p, r, i) ==
  {[claim |-> PodClaimName[Class[r]], pair |-> k] : k \in 0 .. Request[p][i][r] - 1}

\* pairIdx runs on from container to container.
claimRefs(p, r, i) ==
  LET pairIdx == Cardinality(Units(p, r, {j \in Containers : j < i}))
  IN {[claim |-> PodClaimName[Class[r]], pair |-> pairIdx + k] : k \in 0 .. Request[p][i][r] - 1}

\* buildPatches, applied to the pod.  An "add" of /resources/claims replaces
\* what an earlier patch put there, so that the last composition's references
\* stay; a container with claims of its own gets them all appended.
patchedRefs(p) ==
  [i \in Containers |->
     LET asked == {k \in compKeys(p) : Request[p][i][Resources[k]] > 0}
     IN UNION {claimRefs(p, Resources[k], i) :
                 k \in {l \in asked : i \in OwnClaims[p] \/ \A m \in asked : m <= l}}]

patchedClaims(p) ==
  {[name |-> PodClaimName[Class[Resources[k]]],
    template |-> compositionTemplateName(p, Resources[k])] : k \in compKeys(p)}

\* The pod arrives; without synthetic resources, or when it carries the
\* annotation of an earlier mutation, it is let through.
Admit(p) ==
  /\ phase[p] = "new"
  /\ phase' = [phase EXCEPT ![p] = IF compKeys(p) = {} THEN "patched" ELSE "admitting"]
  /\ todo' = [todo EXCEPT ![p] = compKeys(p)]
  /\ UNCHANGED <<claims, refs, made, templates, listed, victims, errors>>

\* One template per composition, in their order.  An existing one is used as
\* it is; another error refuses the pod and leaves the templates made so far.
CreateTemplate(p) ==
  /\ phase[p] = "admitting"
  /\ \E k \in todo[p] :
       LET n     == compositionTemplateName(p, Resources[k])
           added == IF \E t \in templates : t.name = n THEN templates
                    ELSE templates \cup {[name |-> n, spec |-> BuildClaimSpec(p, Resources[k]),
                                          by |-> p, old |-> FALSE]}
       IN /\ \A l \in todo[p] : k <= l
          /\ \/ /\ Success
                /\ templates' = added
                /\ todo' = [todo EXCEPT ![p] = @ \ {k}]
                /\ UNCHANGED phase
             \/ /\ Failure
                /\ templates' \in {templates, added}
                /\ phase' = [phase EXCEPT ![p] = "rejected"]
                /\ UNCHANGED todo
  /\ UNCHANGED <<claims, refs, made, listed, victims>>

\* handleAdmission answers with the patch.
Respond(p) ==
  /\ phase[p] = "admitting" /\ todo[p] = {}
  /\ phase' = [phase EXCEPT ![p] = "patched"]
  /\ claims' = [claims EXCEPT ![p] = patchedClaims(p)]
  /\ refs' = [refs EXCEPT ![p] = patchedRefs(p)]
  /\ UNCHANGED <<todo, made, templates, listed, victims, errors>>

----------------------------------------------------------------------------
(* API server and resource claim controller (external)                     *)

\* Names of claims in a pod are unique.
Valid(p) == Cardinality({c.name : c \in claims[p]}) = Cardinality(compKeys(p))

\* The patched pod is stored, or refused (a later webhook, a quota).
Store(p) ==
  /\ phase[p] = "patched"
  /\ \/ Valid(p) /\ phase' = [phase EXCEPT ![p] = "live"]
     \/ phase' = [phase EXCEPT ![p] = "rejected"]
  /\ UNCHANGED <<todo, claims, refs, made, templates, listed, victims, errors>>

\* A ResourceClaim is made from the template the pod names.
MakeClaim(p) ==
  /\ phase[p] = "live"
  /\ \E c \in claims[p] : \E t \in templates :
       /\ t.name = c.template
       /\ \A m \in made[p] : m.name # c.name
       /\ made' = [made EXCEPT ![p] = @ \cup {[name |-> c.name, spec |-> t.spec]}]
  /\ UNCHANGED <<phase, todo, claims, refs, templates, listed, victims, errors>>

DeletePod(p) ==
  /\ phase[p] = "live"
  /\ phase' = [phase EXCEPT ![p] = "gone"]
  /\ UNCHANGED <<todo, claims, refs, made, templates, listed, victims, errors>>

----------------------------------------------------------------------------
(* Template reconciler                                                     *)

\* The grace period of a template is over.
Age ==
  /\ \E t \in templates : /\ ~t.old /\ ~InAdmission(t.by)
                          /\ templates' = (templates \ {t}) \cup {[t EXCEPT !.old = TRUE]}
  /\ UNCHANGED <<podVars, listed, victims, errors>>

\* The templates are listed and their age is taken ...
ListTemplates ==
  /\ listed = {} /\ victims = {}
  /\ listed' = templates
  /\ UNCHANGED <<podVars, templates, victims, errors>>

\* Mutant: pods that no longer exist count, too.
referencedEver(n) == \E p \in Pods : \E c \in claims[p] : c.template = n

referenced(n) == \E p \in Pods : phase[p] = "live" /\ \E c \in claims[p] : c.template = n

\* Mutant: no grace period.
orphanedAnyAge == {t.name : t \in {u \in listed : ~referenced(u.name)}}

orphaned == {t.name : t \in {u \in listed : u.old /\ ~referenced(u.name)}}

\* ... before the pods are.  Without a list of pods nothing is deleted.
ListPods ==
  /\ listed # {}
  /\ listed' = {}
  /\ \/ Success /\ victims' = orphaned
     \/ Failure /\ victims' = {}
  /\ UNCHANGED <<podVars, templates>>

\* Deletion is by name; an error is only logged.
DeleteTemplate(n) ==
  /\ n \in victims
  /\ victims' = victims \ {n}
  /\ LET rest == {t \in templates : t.name # n}
     IN \/ Success /\ templates' = rest
        \/ Failure /\ templates' \in {templates, rest}
  /\ UNCHANGED <<podVars, listed>>

reconcileTemplates == ListTemplates \/ ListPods \/ \E n \in victims : DeleteTemplate(n)

----------------------------------------------------------------------------
WebhookNext ==
  \/ \E p \in Pods : \/ Admit(p) \/ CreateTemplate(p) \/ Respond(p)
                     \/ Store(p) \/ MakeClaim(p) \/ DeletePod(p)
  \/ Age
  \/ reconcileTemplates

\* Time passes, and the ticker starts one pass after the other.  Nothing is
\* assumed of pods and their admission.
WebhookFairness == WF_webhookVars(Age) /\ WF_webhookVars(reconcileTemplates)

WebhookSpec == WebhookInit /\ [][WebhookNext]_webhookVars /\ WebhookFairness

----------------------------------------------------------------------------
(* Properties                                                              *)

Specs == [class : Classes, count : Nat \ {0}]

\* Type correctness of the webhook.
WebhookTypeOK ==
  /\ phase \in [Pods -> Phases]
  /\ todo \in [Pods -> SUBSET DOMAIN Resources]
  /\ \A t \in templates : t.spec \in Specs /\ t.by \in Pods /\ t.old \in BOOLEAN
  /\ \A p \in Pods : \A m \in made[p] : m.spec \in Specs
  /\ listed \in SUBSET [name : {t.name : t \in listed}, spec : Specs, by : Pods, old : BOOLEAN]
  /\ errors \in 0 .. MaxErrors

RefsTo(p, i, r) == {x \in refs[p][i] : x.claim = PodClaimName[Class[r]]}

\* A pod gets what its containers asked for (Mutate, buildPatches): each
\* container refers to as many devices of each composition as it requested,
\* no two containers to the same one, and every reference is to a claim of
\* the pod and to a request the claim made for it really has, also when the
\* template was another pod's.
PodGetsItsDevices ==
  \A p \in Pods : phase[p] = "live" =>
    \A i \in Containers :
      /\ \A x \in refs[p][i] : \E c \in claims[p] : c.name = x.claim
      /\ \A r \in {Resources[k] : k \in compKeys(p)} :
           /\ Cardinality(RefsTo(p, i, r)) = Request[p][i][r]
           /\ \A j \in Containers \ {i} : RefsTo(p, i, r) \cap RefsTo(p, j, r) = {}
           /\ \A x \in RefsTo(p, i, r) : \A m \in made[p] :
                m.name = x.claim => m.spec.class = Class[r] /\ x.pair < m.spec.count

(* What PodGetsItsDevices depends on: the code does not see to it.         *)

\* A container without claims of its own asks for one composition at most.
OneComposition ==
  \A p \in Pods : \A i \in Containers \ OwnClaims[p] : \A r, s \in Names :
    Request[p][i][r] > 0 /\ Request[p][i][s] > 0 => r = s

\* Pods whose templates have the same name ask for the same.
TemplatesAgree ==
  \A p, q \in Pods : \A k \in compKeys(p) : \A l \in compKeys(q) :
    compositionTemplateName(p, Resources[k]) = compositionTemplateName(q, Resources[l])
      => BuildClaimSpec(p, Resources[k]) = BuildClaimSpec(q, Resources[l])

(* The strengthenings that make OwnTemplateKept and PodGetsItsDevices      *)
(* inductive.                                                              *)

\* Names of the templates a pod's admission makes or uses.
TemplatesOf(p) == {compositionTemplateName(p, Resources[k]) : k \in compKeys(p)}

\* An admission makes templates for what its pod asks for.
TodoInv ==
  /\ todo \in [Pods -> SUBSET DOMAIN Resources]
  /\ \A p \in Pods : todo[p] \subseteq compKeys(p)

\* The name and the content of a template that a pod's admission may make.
MadeFor(p, n, spec) ==
  \E k \in compKeys(p) : /\ n = compositionTemplateName(p, Resources[k])
                         /\ spec = BuildClaimSpec(p, Resources[k])

\* A template is one of its maker's, and is not old during the admission.
Accounted(t) ==
  /\ t \in [name : {t.name}, spec : {t.spec}, by : Pods, old : BOOLEAN]
  /\ phase[t.by] # "new"
  /\ MadeFor(t.by, t.name, t.spec)
  /\ t.old => ~InAdmission(t.by)

\* A pod that was let through names all templates its admission may have made.
ClaimsNameTemplates ==
  \A p \in Pods : phase[p] \in {"patched", "live"} =>
    TemplatesOf(p) \subseteq {c.template : c \in claims[p]}

NamesUnique == \A t, u \in templates : t.name = u.name => t = u

\* While a pass has its list, nothing on it is deleted and made anew.
ListedExist ==
  /\ listed # {} => victims = {}
  /\ \A u \in listed : \E t \in templates : t.name = u.name /\ t.by = u.by

\* The template to be deleted still is that of a pod that is no more.
VictimsUnused ==
  \A n \in victims : \E t \in templates : t.name = n /\ phase[t.by] \in {"rejected", "gone"}

\* Templates, lists and deletions of the reconciler are accounted for.
TemplatesInv ==
  /\ phase \in [Pods -> Phases]
  /\ DOMAIN claims = Pods
  /\ \A t \in templates \cup listed : Accounted(t)
  /\ ClaimsNameTemplates /\ NamesUnique /\ ListedExist /\ VictimsUnused

\* A pod that was let through is as the patch left it, and the claims made
\* for it are what some admission wrote into the templates it names.
PodInv(p) ==
  /\ phase[p] = "new" => claims[p] = {} /\ refs[p] = [i \in Containers |-> {}]
  /\ phase[p] \in {"patched", "live", "gone"}
       => claims[p] = patchedClaims(p) /\ refs[p] = patchedRefs(p)
  /\ phase[p] = "live" => Valid(p)
  /\ made[p] # {} => phase[p] \in {"live", "gone"}
  /\ \A m \in made[p] : \E c \in claims[p] : \E q \in Pods :
       m.name = c.name /\ MadeFor(q, c.template, m.spec)

PodsInv ==
  /\ DOMAIN refs = Pods /\ DOMAIN made = Pods
  /\ \A p \in Pods : PodInv(p)

\* The reconciler does not take the template of a pod from under it: a
\* template disappears neither while the admission that made it is in
\* progress nor while the pod of that admission exists (the grace period and
\* the order of the two lists in reconcileTemplates).
OwnTemplateKept ==
  [][\A t \in templates :
       (\A u \in templates' : u.name # t.name)
         => ~InAdmission(t.by) /\ phase[t.by] # "live"]_webhookVars

\* Templates are collected when the pods they were made for are gone or were
\* never stored (reconcileTemplates), whatever fails on the way.
TemplatesCollected ==
  (\A p \in Pods : phase[p] \in {"rejected", "gone"}) ~> templates = {}
=============================================================================
