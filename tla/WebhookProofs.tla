--------------------------- MODULE WebhookProofs ---------------------------
(***************************************************************************)
(* Proofs about Webhook, for every set of pods and of containers, whatever  *)
(* they request and however they share templates.  What the mutator adds    *)
(* up in loops is a cardinality in Webhook, so that no induction over data *)
(* is needed for what a pod gets.                                          *)
(***************************************************************************)
EXTENDS Webhook, FiniteSetTheorems, TLAPS

USE DEF webhookVars, podVars

LEMMA TemplatesInit == WebhookInit => TemplatesInv
  BY DEF WebhookInit, TemplatesInv, ClaimsNameTemplates, NamesUnique, ListedExist,
         VictimsUnused, Phases

----------------------------------------------------------------------------
(* How a change of phases disturbs the invariant                           *)

\* A pod goes on with its admission or its life.
Onward(p, f) ==
  /\ phase' = [phase EXCEPT ![p] = f]
  /\ f \in Phases \ {"new"}
  /\ phase[p] \notin {"rejected", "gone"}
  /\ phase[p] \in {"admitting", "patched", "new"} \/ f \in {"rejected", "gone"}

\* Accounted survives every step in which the phase of the maker does not
\* return to admission.
LEMMA AccountedKept ==
  ASSUME NEW t, Accounted(t), phase \in [Pods -> Phases], NEW p \in Pods, NEW f, Onward(p, f)
  PROVE  Accounted(t)'
  <1>1. phase'[t.by] # "new" /\ t.by \in Pods
    BY DEF Accounted, Onward
  <1>2. ~InAdmission(t.by) => ~InAdmission(t.by)'
    BY DEF Accounted, Onward, InAdmission
  <1> QED BY <1>1, <1>2 DEF Accounted, MadeFor

\* A step of a pod that leaves templates and reconciler alone.
LEMMA PodStep ==
  ASSUME TemplatesInv, NEW p \in Pods, NEW f, Onward(p, f),
         UNCHANGED <<templates, listed, victims>>, DOMAIN claims' = Pods, ClaimsNameTemplates'
  PROVE  TemplatesInv'
  <1>1. phase' \in [Pods -> Phases]
    BY DEF TemplatesInv, Onward
  <1>2. \A t \in templates' \cup listed' : Accounted(t)'
    BY AccountedKept DEF TemplatesInv
  <1>3. NamesUnique' /\ ListedExist'
    BY DEF TemplatesInv, NamesUnique, ListedExist
  <1>4. VictimsUnused'
    BY DEF TemplatesInv, VictimsUnused, Onward, Accounted
  <1> QED BY <1>1, <1>2, <1>3, <1>4 DEF TemplatesInv

\* Nothing that happens to other pods or templates changes what a pod names.
LEMMA ClaimsKept ==
  ASSUME TemplatesInv, NEW p \in Pods, NEW f, phase' = [phase EXCEPT ![p] = f],
         UNCHANGED claims, f \in {"patched", "live"} => phase[p] \in {"patched", "live"}
  PROVE  ClaimsNameTemplates'
  BY DEF TemplatesInv, ClaimsNameTemplates, TemplatesOf

----------------------------------------------------------------------------
(* Admission                                                               *)

LEMMA AdmitKeeps ==
  ASSUME TemplatesInv, NEW p \in Pods, Admit(p) PROVE TemplatesInv'
  <1>1. CASE compKeys(p) = {}
    <2>1. Onward(p, "patched")
      BY <1>1 DEF Admit, Onward, Phases
    <2>2. TemplatesOf(p) = {}
      BY <1>1 DEF TemplatesOf
    <2>3. ClaimsNameTemplates'
      BY <2>1, <2>2 DEF Admit, Onward, TemplatesInv, ClaimsNameTemplates, TemplatesOf
    <2> QED BY <2>1, <2>3, PodStep DEF Admit, TemplatesInv
  <1>2. CASE compKeys(p) # {}
    <2>1. Onward(p, "admitting")
      BY <1>2 DEF Admit, Onward, Phases
    <2>2. ClaimsNameTemplates'
      BY <2>1, ClaimsKept DEF Admit, Onward
    <2> QED BY <2>1, <2>2, PodStep DEF Admit, TemplatesInv
  <1> QED BY <1>1, <1>2

\* What one more template of an admission that goes on or fails does.
LEMMA AddKeeps ==
  ASSUME TemplatesInv, NEW p \in Pods, phase[p] = "admitting", NEW k \in compKeys(p),
         UNCHANGED phase \/ Onward(p, "rejected"),
         UNCHANGED <<claims, listed, victims>>,
         LET n == compositionTemplateName(p, Resources[k])
         IN /\ \A t \in templates : t.name # n
            /\ templates' = templates \cup {[name |-> n, spec |-> BuildClaimSpec(p, Resources[k]),
                                            by |-> p, old |-> FALSE]}
  PROVE  TemplatesInv'
  <1> DEFINE n    == compositionTemplateName(p, Resources[k])
             spec == BuildClaimSpec(p, Resources[k])
             new  == [name |-> n, spec |-> spec, by |-> p, old |-> FALSE]
  <1>1. /\ \A t \in templates : t.name # n
        /\ templates' = templates \cup {new}
        /\ new.name = n /\ new.by = p /\ new.old = FALSE /\ new.spec = spec
    OBVIOUS
  <1>2. phase \in [Pods -> Phases] /\ phase' \in [Pods -> Phases]
    BY DEF TemplatesInv, Onward
  <1>3. \A t : Accounted(t) => Accounted(t)'
    <2>1. CASE UNCHANGED phase
      BY <2>1 DEF Accounted, MadeFor, InAdmission
    <2>2. CASE Onward(p, "rejected")
      BY <1>2, <2>2, AccountedKept
    <2> QED BY <2>1, <2>2
  <1>4. MadeFor(p, n, spec)
    BY DEF MadeFor
  <1> HIDE DEF n, spec
  <1>5. Accounted(new)
    BY <1>4 DEF Accounted
  <1> HIDE DEF new
  <1>6. \A t \in templates' \cup listed' : Accounted(t)'
    BY <1>1, <1>3, <1>5 DEF TemplatesInv
  <1>7. NamesUnique' /\ ListedExist'
    BY <1>1 DEF TemplatesInv, NamesUnique, ListedExist
  <1>8. \A q \in Pods : phase'[q] = phase[q] \/ (q = p /\ phase'[q] = "rejected")
    BY <1>2 DEF Onward
  <1>9. VictimsUnused'
    BY <1>1, <1>8 DEF TemplatesInv, VictimsUnused, Accounted
  <1>10. ClaimsNameTemplates'
    BY <1>8 DEF TemplatesInv, ClaimsNameTemplates, TemplatesOf
  <1> QED BY <1>2, <1>6, <1>7, <1>9, <1>10 DEF TemplatesInv

\* A step that changes nothing the invariant is about.
LEMMA Unrelated ==
  ASSUME TemplatesInv, UNCHANGED <<phase, claims, templates, listed, victims>>
  PROVE  TemplatesInv'
  BY DEF TemplatesInv, Accounted, ClaimsNameTemplates, NamesUnique, ListedExist, VictimsUnused,
         TemplatesOf, MadeFor, InAdmission

LEMMA CreateTemplateKeeps ==
  ASSUME TemplatesInv, TodoInv, NEW p \in Pods, CreateTemplate(p) PROVE TemplatesInv'
  <1> DEFINE n(k)   == compositionTemplateName(p, Resources[k])
             new(k) == [name |-> n(k), spec |-> BuildClaimSpec(p, Resources[k]),
                        by |-> p, old |-> FALSE]
  <1>1. /\ phase[p] = "admitting"
        /\ UNCHANGED <<claims, listed, victims>>
        /\ UNCHANGED phase \/ phase' = [phase EXCEPT ![p] = "rejected"]
    BY DEF CreateTemplate
  <1>2. UNCHANGED phase \/ Onward(p, "rejected")
    BY <1>1 DEF Onward, Phases
  <1>3. PICK k \in compKeys(p) :
          \/ UNCHANGED templates
          \/ (\A t \in templates : t.name # n(k)) /\ templates' = templates \cup {new(k)}
    BY DEF CreateTemplate, TodoInv
  <1>4. CASE UNCHANGED templates
    <2>1. CASE UNCHANGED phase
      BY <1>1, <1>4, <2>1, Unrelated
    <2>2. CASE Onward(p, "rejected")
      <3>1. ClaimsNameTemplates'
        BY <1>1, <2>2, ClaimsKept DEF Onward
      <3> QED BY <1>1, <1>4, <2>2, <3>1, PodStep DEF TemplatesInv
    <2> QED BY <1>2, <2>1, <2>2
  <1>5. CASE (\A t \in templates : t.name # n(k)) /\ templates' = templates \cup {new(k)}
    BY <1>1, <1>2, <1>5, AddKeeps
  <1> QED BY <1>3, <1>4, <1>5

LEMMA RespondKeeps ==
  ASSUME TemplatesInv, NEW p \in Pods, Respond(p) PROVE TemplatesInv'
  <1>1. Onward(p, "patched")
    BY DEF Respond, Onward, Phases
  <1>2. claims' = [claims EXCEPT ![p] = patchedClaims(p)]
    BY DEF Respond
  <1>3. TemplatesOf(p) \subseteq {c.template : c \in claims'[p]}
    <2> SUFFICES ASSUME NEW k \in compKeys(p)
                 PROVE  compositionTemplateName(p, Resources[k]) \in {c.template : c \in claims'[p]}
      BY DEF TemplatesOf
    <2> DEFINE d == [name |-> PodClaimName[Class[Resources[k]]],
                     template |-> compositionTemplateName(p, Resources[k])]
    <2>1. d \in patchedClaims(p)
      BY DEF patchedClaims
    <2>2. claims'[p] = patchedClaims(p)
      BY <1>2 DEF TemplatesInv
    <2>3. d.template = compositionTemplateName(p, Resources[k])
      OBVIOUS
    <2> QED BY <2>1, <2>2, <2>3
  <1>4. ClaimsNameTemplates'
    BY <1>1, <1>2, <1>3 DEF TemplatesInv, ClaimsNameTemplates, TemplatesOf, Onward
  <1> QED BY <1>1, <1>2, <1>4, PodStep DEF Respond, TemplatesInv

\* The API server stores, refuses or deletes the pod.
LEMMA LifeKeeps ==
  ASSUME TemplatesInv, NEW p \in Pods, Store(p) \/ DeletePod(p) PROVE TemplatesInv'
  <1>1. PICK f \in {"live", "rejected", "gone"} : Onward(p, f) /\ (f = "live" => phase[p] = "patched")
    BY DEF Store, DeletePod, Onward, Phases
  <1>2. UNCHANGED <<claims, templates, listed, victims>>
    BY DEF Store, DeletePod
  <1>3. ClaimsNameTemplates'
    BY <1>1, <1>2, ClaimsKept DEF Onward
  <1> QED BY <1>1, <1>2, <1>3, PodStep DEF TemplatesInv

----------------------------------------------------------------------------
(* The template reconciler                                                 *)

\* While the phases stay as they are, so does what is said of a template.
LEMMA AccountedSame ==
  ASSUME UNCHANGED phase PROVE \A t : Accounted(t)' <=> Accounted(t)
  BY DEF Accounted, MadeFor, InAdmission

LEMMA AgeKeeps ==
  ASSUME TemplatesInv, Age PROVE TemplatesInv'
  <1>1. PICK t \in templates : /\ ~InAdmission(t.by)
                               /\ templates' = (templates \ {t}) \cup {[t EXCEPT !.old = TRUE]}
    BY DEF Age
  <1> DEFINE aged == [t EXCEPT !.old = TRUE]
  <1>2. Accounted(t)
    BY DEF TemplatesInv
  <1>3. /\ aged \in [name : {t.name}, spec : {t.spec}, by : Pods, old : BOOLEAN]
        /\ aged.name = t.name /\ aged.by = t.by /\ aged.spec = t.spec
    BY <1>2 DEF Accounted
  <1>4. aged.name = t.name /\ aged.by = t.by /\ Accounted(aged)
    BY <1>1, <1>2, <1>3 DEF Accounted
  <1>5. UNCHANGED <<phase, claims, listed, victims>> /\ templates' = (templates \ {t}) \cup {aged}
    BY <1>1 DEF Age
  <1> HIDE DEF aged
  <1>6. \A u \in templates' \cup listed' : Accounted(u)'
    BY <1>4, <1>5, AccountedSame DEF TemplatesInv
  <1>7. NamesUnique'
    BY <1>4, <1>5 DEF TemplatesInv, NamesUnique
  <1>8. \A u \in templates : \E v \in templates' : v.name = u.name /\ v.by = u.by
    BY <1>4, <1>5
  <1>9. ListedExist' /\ VictimsUnused'
    BY <1>5, <1>8 DEF TemplatesInv, ListedExist, VictimsUnused
  <1>10. ClaimsNameTemplates'
    BY <1>5 DEF TemplatesInv, ClaimsNameTemplates, TemplatesOf
  <1> QED BY <1>5, <1>6, <1>7, <1>9, <1>10 DEF TemplatesInv

LEMMA ListTemplatesKeeps ==
  ASSUME TemplatesInv, ListTemplates PROVE TemplatesInv'
  <1>1. /\ UNCHANGED <<phase, claims, templates, victims>>
        /\ victims = {} /\ listed' = templates
    BY DEF ListTemplates
  <1>2. ListedExist' /\ VictimsUnused' /\ NamesUnique'
    BY <1>1 DEF TemplatesInv, ListedExist, VictimsUnused, NamesUnique
  <1>3. \A u \in templates' \cup listed' : Accounted(u)'
    BY <1>1, AccountedSame DEF TemplatesInv
  <1>4. ClaimsNameTemplates'
    BY <1>1 DEF TemplatesInv, ClaimsNameTemplates, TemplatesOf
  <1> QED BY <1>1, <1>2, <1>3, <1>4 DEF TemplatesInv

\* An old template that no pod on the list of pods names was made for a pod
\* that will never name it: that pod's admission is over and it is not there.
LEMMA OrphansUnused ==
  ASSUME TemplatesInv
  PROVE  \A n \in orphaned : \E t \in templates : t.name = n /\ phase[t.by] \in {"rejected", "gone"}
  <1> SUFFICES ASSUME NEW u \in listed, u.old, ~referenced(u.name)
               PROVE  \E t \in templates : t.name = u.name /\ phase[t.by] \in {"rejected", "gone"}
    BY DEF orphaned
  <1>1. /\ u.by \in Pods /\ phase[u.by] # "new" /\ ~InAdmission(u.by)
        /\ u.name \in TemplatesOf(u.by)
    BY DEF TemplatesInv, Accounted, MadeFor, TemplatesOf
  <1>2. phase[u.by] # "live"
    BY <1>1 DEF referenced, TemplatesInv, ClaimsNameTemplates
  <1>3. phase[u.by] \in {"rejected", "gone"}
    BY <1>1, <1>2 DEF TemplatesInv, Phases, InAdmission
  <1> QED BY <1>3 DEF TemplatesInv, ListedExist

LEMMA ListPodsKeeps ==
  ASSUME TemplatesInv, ListPods PROVE TemplatesInv'
  <1>1. /\ UNCHANGED <<phase, claims, templates>> /\ listed' = {}
        /\ victims' = orphaned \/ victims' = {}
    BY DEF ListPods
  <1>2. VictimsUnused'
    BY <1>1, OrphansUnused DEF VictimsUnused
  <1>3. ListedExist' /\ NamesUnique'
    BY <1>1 DEF TemplatesInv, ListedExist, NamesUnique
  <1>4. \A u \in templates' \cup listed' : Accounted(u)'
    BY <1>1, AccountedSame DEF TemplatesInv
  <1>5. ClaimsNameTemplates'
    BY <1>1 DEF TemplatesInv, ClaimsNameTemplates, TemplatesOf
  <1> QED BY <1>1, <1>2, <1>3, <1>4, <1>5 DEF TemplatesInv

LEMMA DeleteTemplateKeeps ==
  ASSUME TemplatesInv, NEW n \in victims, DeleteTemplate(n) PROVE TemplatesInv'
  <1>1. /\ UNCHANGED <<phase, claims, listed>> /\ victims' = victims \ {n}
        /\ templates' = templates \/ templates' = {t \in templates : t.name # n}
    BY DEF DeleteTemplate
  <1>2. listed = {}
    BY DEF TemplatesInv, ListedExist
  <1>3. VictimsUnused'
    BY <1>1 DEF TemplatesInv, VictimsUnused
  <1>4. ListedExist' /\ NamesUnique'
    BY <1>1, <1>2 DEF TemplatesInv, ListedExist, NamesUnique
  <1>5. \A u \in templates' \cup listed' : Accounted(u)'
    BY <1>1, AccountedSame DEF TemplatesInv
  <1>6. ClaimsNameTemplates'
    BY <1>1 DEF TemplatesInv, ClaimsNameTemplates, TemplatesOf
  <1> QED BY <1>1, <1>3, <1>4, <1>5, <1>6 DEF TemplatesInv

----------------------------------------------------------------------------
(* The invariant and the theorem                                           *)

LEMMA TodoInit == WebhookInit => TodoInv
  BY DEF WebhookInit, TodoInv

LEMMA TodoNext == TodoInv /\ [WebhookNext]_webhookVars => TodoInv'
  <1> SUFFICES ASSUME TodoInv, [WebhookNext]_webhookVars PROVE TodoInv'
    OBVIOUS
  <1> USE DEF TodoInv
  <1>1. ASSUME NEW p \in Pods, Admit(p) PROVE TodoInv'
    <2>1. compKeys(p) \subseteq DOMAIN Resources
      BY DEF compKeys
    <2> QED BY <1>1, <2>1 DEF Admit
  <1>2. ASSUME NEW p \in Pods, CreateTemplate(p) PROVE TodoInv'
    BY <1>2 DEF CreateTemplate
  <1>3. ASSUME UNCHANGED todo PROVE TodoInv'
    BY <1>3
  <1>4. ASSUME NEW p \in Pods, Respond(p) \/ Store(p) \/ MakeClaim(p) \/ DeletePod(p) PROVE TodoInv'
    BY <1>3, <1>4 DEF Respond, Store, MakeClaim, DeletePod
  <1>5. Age \/ reconcileTemplates \/ UNCHANGED webhookVars => TodoInv'
    BY <1>3 DEF Age, reconcileTemplates, ListTemplates, ListPods, DeleteTemplate
  <1> QED BY <1>1, <1>2, <1>4, <1>5 DEF WebhookNext

LEMMA TemplatesNext == TemplatesInv /\ TodoInv /\ [WebhookNext]_webhookVars => TemplatesInv'
  <1> SUFFICES ASSUME TemplatesInv, TodoInv, [WebhookNext]_webhookVars PROVE TemplatesInv'
    OBVIOUS
  <1>1. ASSUME NEW p \in Pods, MakeClaim(p) PROVE TemplatesInv'
    BY <1>1, Unrelated DEF MakeClaim
  <1>2. ASSUME UNCHANGED webhookVars PROVE TemplatesInv'
    BY <1>2, Unrelated
  <1> QED BY <1>1, <1>2, AdmitKeeps, CreateTemplateKeeps, RespondKeeps, LifeKeeps, AgeKeeps,
             ListTemplatesKeeps, ListPodsKeeps, DeleteTemplateKeeps
          DEF WebhookNext, reconcileTemplates

\* Templates, the reconciler's list and its deletions are accounted for in
\* every reachable state.
LEMMA TemplatesAlways == WebhookSpec => [](TodoInv /\ TemplatesInv)
  BY TodoInit, TodoNext, TemplatesInit, TemplatesNext, PTL DEF WebhookSpec

\* A template's name disappears only when its maker is no more.
LEMMA KeptStep ==
  ASSUME TemplatesInv, [WebhookNext]_webhookVars, NEW t \in templates,
         \A u \in templates' : u.name # t.name
  PROVE  ~InAdmission(t.by) /\ phase[t.by] # "live"
  <1>1. t \notin templates'
    OBVIOUS
  <1>2. CASE \E n \in victims : DeleteTemplate(n)
    <2>1. PICK n \in victims : DeleteTemplate(n)
      BY <1>2
    <2>2. t.name = n
      BY <1>1, <2>1 DEF DeleteTemplate
    <2>3. PICK u \in templates : u.name = n /\ phase[u.by] \in {"rejected", "gone"}
      BY DEF TemplatesInv, VictimsUnused
    <2>4. u = t
      BY <2>2, <2>3 DEF TemplatesInv, NamesUnique
    <2> QED BY <2>3, <2>4 DEF InAdmission
  <1>3. CASE Age
    <2>1. PICK u \in templates : templates' = (templates \ {u}) \cup {[u EXCEPT !.old = TRUE]}
      BY <1>3 DEF Age
    <2>2. u = t /\ [t EXCEPT !.old = TRUE] \in templates'
      BY <1>1, <2>1
    <2>3. [t EXCEPT !.old = TRUE].name = t.name
      BY DEF TemplatesInv, Accounted
    <2> QED BY <2>2, <2>3
  <1>4. CASE templates \subseteq templates'
    BY <1>1, <1>4
  <1>5. ASSUME NEW p \in Pods, CreateTemplate(p) PROVE templates \subseteq templates'
    BY <1>5 DEF CreateTemplate
  <1>6. ASSUME NEW p \in Pods, Admit(p) \/ Respond(p) \/ Store(p) \/ MakeClaim(p) \/ DeletePod(p)
        PROVE  templates \subseteq templates'
    BY <1>6 DEF Admit, Respond, Store, MakeClaim, DeletePod
  <1>7. ListTemplates \/ ListPods \/ UNCHANGED webhookVars => templates \subseteq templates'
    BY DEF ListTemplates, ListPods
  <1> QED BY <1>2, <1>3, <1>4, <1>5, <1>6, <1>7 DEF WebhookNext, reconcileTemplates

\* The template reconciler never takes a template from under the admission
\* that made it or the pod of that admission, for any number of pods that
\* share templates, in every interleaving of admissions with its two lists
\* and its deletions, and whatever requests fail.
THEOREM TemplatesKept == WebhookSpec => OwnTemplateKept
  <1>1. TemplatesInv /\ [WebhookNext]_webhookVars
          => [\A t \in templates :
                (\A u \in templates' : u.name # t.name)
                  => ~InAdmission(t.by) /\ phase[t.by] # "live"]_webhookVars
    BY KeptStep
  <1> QED BY <1>1, TemplatesAlways, PTL DEF WebhookSpec, OwnTemplateKept

----------------------------------------------------------------------------
(* Counting the devices that containers ask for                            *)

LEMMA RequestType ==
  ASSUME NEW p \in Pods, NEW r \in Names, NEW i \in Containers
  PROVE  Request[p][i][r] \in Nat
  BY WebhookAssumption

\* The devices of one container.
LEMMA UnitsOfOne ==
  ASSUME NEW p \in Pods, NEW r \in Names, NEW i \in Containers
  PROVE  /\ IsFiniteSet({i} \X (1 .. Request[p][i][r]))
         /\ Cardinality({i} \X (1 .. Request[p][i][r])) = Request[p][i][r]
  <1> DEFINE n == Request[p][i][r]
  <1>1. n \in Nat
    BY RequestType
  <1> HIDE DEF n
  <1>2. IsFiniteSet(1 .. n) /\ Cardinality(1 .. n) = n
    BY <1>1, FS_Interval
  <1>3. IsFiniteSet({i}) /\ Cardinality({i}) = 1
    BY FS_Singleton
  <1>4. /\ IsFiniteSet({i} \X (1 .. n))
        /\ Cardinality({i} \X (1 .. n)) = 1 * n
    BY <1>2, <1>3, FS_Product
  <1>5. 1 * n = n
    BY <1>1
  <1> QED BY <1>4, <1>5 DEF n

LEMMA UnitsFinite ==
  ASSUME NEW p \in Pods, NEW r \in Names, NEW J \in SUBSET Containers
  PROVE  IsFiniteSet(Units(p, r, J)) /\ Cardinality(Units(p, r, J)) \in Nat
  <1> DEFINE S == {{i} \X (1 .. Request[p][i][r]) : i \in J}
             f == [i \in J |-> {i} \X (1 .. Request[p][i][r])]
  <1>1. IsFiniteSet(J)
    BY WebhookAssumption, FS_Subset
  <1>2. f \in Surjection(J, S)
    BY DEF Surjection
  <1>3. IsFiniteSet(S)
    BY <1>1, <1>2, FS_Surjection
  <1>4. \A T \in S : IsFiniteSet(T)
    BY UnitsOfOne
  <1>5. IsFiniteSet(UNION S)
    BY <1>3, <1>4, FS_UNION
  <1> QED BY <1>5, FS_CardinalityType DEF Units

\* The containers before one, and that one.
LEMMA UnitsAdd ==
  ASSUME NEW p \in Pods, NEW r \in Names, NEW J \in SUBSET Containers,
         NEW i \in Containers, i \notin J
  PROVE  Cardinality(Units(p, r, J \cup {i})) = Cardinality(Units(p, r, J)) + Request[p][i][r]
  <1> DEFINE U == Units(p, r, J)
             V == {i} \X (1 .. Request[p][i][r])
  <1>1. Units(p, r, J \cup {i}) = U \cup V
    BY DEF Units
  <1>2. U \cap V = {}
    BY DEF Units
  <1>3. IsFiniteSet(U) /\ Cardinality(U) \in Nat
    BY UnitsFinite
  <1>4. IsFiniteSet(V) /\ Cardinality(V) = Request[p][i][r]
    BY UnitsOfOne
  <1>5. Request[p][i][r] \in Nat
    BY RequestType
  <1> HIDE DEF U, V
  <1>6. Cardinality(U \cup V) = Cardinality(U) + Cardinality(V) - 0
    BY <1>2, <1>3, <1>4, FS_Union, FS_EmptySet
  <1>7. Cardinality(U \cup V) = Cardinality(U) + Request[p][i][r]
    BY <1>3, <1>4, <1>5, <1>6
  <1> QED BY <1>1, <1>7 DEF U

\* More containers ask for more.
LEMMA UnitsMonotone ==
  ASSUME NEW p \in Pods, NEW r \in Names, NEW J \in SUBSET Containers, NEW I \in SUBSET J
  PROVE  Cardinality(Units(p, r, I)) <= Cardinality(Units(p, r, J))
  <1>1. Units(p, r, I) \subseteq Units(p, r, J)
    BY DEF Units
  <1> QED BY <1>1, UnitsFinite, FS_Subset

----------------------------------------------------------------------------
(* The references of containers                                            *)

Before(i) == {j \in Containers : j < i}

\* pairIdx of a container and what it asks for stay below the pairIdx of the
\* containers after it and within the count of the claim.
LEMMA PairRange ==
  ASSUME NEW p \in Pods, NEW r \in Names, NEW i \in Containers
  PROVE  /\ Cardinality(Units(p, r, Before(i))) \in Nat
         /\ Cardinality(Units(p, r, Before(i))) + Request[p][i][r] <= TotalCount(p, r)
         /\ \A j \in Containers : i < j =>
              Cardinality(Units(p, r, Before(i))) + Request[p][i][r]
                <= Cardinality(Units(p, r, Before(j)))
  <1> DEFINE I == Before(i) \cup {i}
  <1>1. Before(i) \in SUBSET Containers /\ i \notin Before(i) /\ I \in SUBSET Containers
    BY WebhookAssumption DEF Before
  <1>2. Cardinality(Units(p, r, Before(i))) \in Nat
    BY <1>1, UnitsFinite
  <1>3. Cardinality(Units(p, r, I)) = Cardinality(Units(p, r, Before(i))) + Request[p][i][r]
    BY <1>1, UnitsAdd
  <1>4. Cardinality(Units(p, r, I)) <= TotalCount(p, r)
    BY <1>1, UnitsMonotone DEF TotalCount
  <1>5. ASSUME NEW j \in Containers, i < j
        PROVE  Cardinality(Units(p, r, I)) <= Cardinality(Units(p, r, Before(j)))
    <2>1. I \in SUBSET Before(j) /\ Before(j) \in SUBSET Containers
      <3>1. i \in Nat /\ j \in Nat /\ \A l \in Containers : l \in Nat
        BY WebhookAssumption
      <3>2. \A l \in Containers : l < i => l < j
        BY <1>5, <3>1
      <3> QED BY <1>5, <3>2 DEF Before
    <2> QED BY <2>1, UnitsMonotone
  <1> QED BY <1>2, <1>3, <1>4, <1>5

\* A container's references to a claim.
LEMMA RefsRange ==
  ASSUME NEW p \in Pods, NEW r \in Names, NEW i \in Containers, NEW x \in claimRefs(p, r, i)
  PROVE  /\ Request[p][i][r] > 0
         /\ x.claim = PodClaimName[Class[r]]
         /\ x.pair \in Nat
         /\ Cardinality(Units(p, r, Before(i))) <= x.pair
         /\ x.pair < Cardinality(Units(p, r, Before(i))) + Request[p][i][r]
  <1> DEFINE a == Cardinality(Units(p, r, Before(i)))
             n == Request[p][i][r]
  <1>1. a \in Nat /\ n \in Nat
    BY PairRange, RequestType
  <1>2. PICK k \in 0 .. n - 1 : x = [claim |-> PodClaimName[Class[r]], pair |-> a + k]
    BY DEF claimRefs, Before
  <1> HIDE DEF a, n
  <1>3. x.claim = PodClaimName[Class[r]] /\ x.pair = a + k
    BY <1>2
  <1>4. n > 0 /\ a + k \in Nat /\ a <= a + k /\ a + k < a + n
    BY <1>1
  <1> QED BY <1>3, <1>4 DEF a, n

\* They are as many as the container asked for ...
LEMMA RefsCount ==
  ASSUME NEW p \in Pods, NEW r \in Names, NEW i \in Containers
  PROVE  Cardinality(claimRefs(p, r, i)) = Request[p][i][r]
  <1> DEFINE a == Cardinality(Units(p, r, Before(i)))
             n == Request[p][i][r]
             c == PodClaimName[Class[r]]
             R == {[claim |-> c, pair |-> a + k] : k \in 0 .. n - 1}
             f == [k \in 0 .. n - 1 |-> [claim |-> c, pair |-> a + k]]
  <1>1. a \in Nat /\ n \in Nat
    BY PairRange, RequestType
  <1>2. claimRefs(p, r, i) = R
    BY DEF claimRefs, Before
  <1> HIDE DEF a, n, c
  <1>3. f \in Bijection(0 .. n - 1, R)
    <2>1. f \in [0 .. n - 1 -> R]
      OBVIOUS
    <2>2. ASSUME NEW k \in 0 .. n - 1, NEW l \in 0 .. n - 1, f[k] = f[l] PROVE k = l
      <3>1. f[k] = [claim |-> c, pair |-> a + k] /\ f[l] = [claim |-> c, pair |-> a + l]
        OBVIOUS
      <3> HIDE DEF f
      <3>2. f[k].pair = a + k /\ f[l].pair = a + l
        BY <3>1
      <3>3. k \in Int /\ l \in Int
        BY <1>1
      <3> QED BY <1>1, <2>2, <3>2, <3>3
    <2>3. \A x \in R : \E k \in 0 .. n - 1 : f[k] = x
      OBVIOUS
    <2> HIDE DEF f, R
    <2> QED BY <2>1, <2>2, <2>3 DEF Bijection, Injection, Surjection, IsInjective
  <1>4. IsFiniteSet(0 .. n - 1) /\ Cardinality(0 .. n - 1) = n
    BY <1>1, FS_Interval
  <1> HIDE DEF f, R
  <1>5. Cardinality(R) = Cardinality(0 .. n - 1)
    BY <1>3, <1>4, FS_Bijection DEF ExistsBijection
  <1> QED BY <1>2, <1>4, <1>5 DEF n

\* ... and no other container's.
LEMMA RefsDisjoint ==
  ASSUME NEW p \in Pods, NEW r \in Names, NEW i \in Containers, NEW j \in Containers, i # j
  PROVE  claimRefs(p, r, i) \cap claimRefs(p, r, j) = {}
  <1>1. ASSUME NEW k \in Containers, NEW l \in Containers, k < l
        PROVE  claimRefs(p, r, k) \cap claimRefs(p, r, l) = {}
    <2> SUFFICES ASSUME NEW x \in claimRefs(p, r, k), x \in claimRefs(p, r, l) PROVE FALSE
      OBVIOUS
    <2>1. x.pair \in Nat /\ x.pair < Cardinality(Units(p, r, Before(k))) + Request[p][k][r]
      BY RefsRange
    <2>2. Cardinality(Units(p, r, Before(l))) <= x.pair
      BY RefsRange
    <2>3. Cardinality(Units(p, r, Before(k))) + Request[p][k][r]
            <= Cardinality(Units(p, r, Before(l)))
      BY <1>1, PairRange
    <2>4. /\ Cardinality(Units(p, r, Before(k))) \in Nat /\ Request[p][k][r] \in Nat
          /\ Cardinality(Units(p, r, Before(l))) \in Nat
      BY PairRange, RequestType
    <2> QED BY <2>1, <2>2, <2>3, <2>4
  <1>2. i < j \/ j < i
    BY WebhookAssumption
  <1> QED BY <1>1, <1>2
----------------------------------------------------------------------------
(* A pod as the patch leaves it                                            *)

LEMMA KeyNames ==
  ASSUME NEW p \in Pods, NEW k \in compKeys(p)
  PROVE  k \in DOMAIN Resources /\ Resources[k] \in Names
  BY DEF compKeys, Names

LEMMA KeysFinite == ASSUME NEW p \in Pods PROVE IsFiniteSet(compKeys(p))
  <1>1. Resources \in Seq(Names)
    BY WebhookAssumption
  <1>2. DOMAIN Resources = 1 .. Len(Resources) /\ Len(Resources) \in Nat
    BY <1>1
  <1>3. IsFiniteSet(DOMAIN Resources)
    BY <1>2, FS_Interval
  <1> QED BY <1>3, FS_Subset DEF compKeys

\* The API server stores a pod only when its compositions have claims of
\* different names.
LEMMA NamesApart ==
  ASSUME NEW p \in Pods, claims[p] = patchedClaims(p), Valid(p),
         NEW k \in compKeys(p), NEW l \in compKeys(p),
         PodClaimName[Class[Resources[k]]] = PodClaimName[Class[Resources[l]]]
  PROVE  k = l
  <1> DEFINE g == [m \in compKeys(p) |-> PodClaimName[Class[Resources[m]]]]
             N == {c.name : c \in claims[p]}
  <1>1. \A n : n \in N <=> \E m \in compKeys(p) : n = PodClaimName[Class[Resources[m]]]
    <2> DEFINE d(m) == [name |-> PodClaimName[Class[Resources[m]]],
                        template |-> compositionTemplateName(p, Resources[m])]
    <2>1. claims[p] = {d(m) : m \in compKeys(p)}
      BY DEF patchedClaims
    <2>2. \A m : d(m).name = PodClaimName[Class[Resources[m]]]
      OBVIOUS
    <2> HIDE DEF d
    <2> QED BY <2>1, <2>2
  <1>2. Cardinality(N) = Cardinality(compKeys(p))
    BY DEF Valid
  <1> HIDE DEF N
  <1>3. g \in Surjection(compKeys(p), N)
    BY <1>1 DEF Surjection
  <1>4. g \in Injection(compKeys(p), N)
    BY <1>2, <1>3, KeysFinite, FS_SurjSameCardinalityImpliesInj
  <1>5. g[k] = g[l]
    OBVIOUS
  <1> HIDE DEF g
  <1> QED BY <1>4, <1>5 DEF Injection, IsInjective

\* What a container of a stored pod refers to is what it asked for, where it
\* asks for one composition or brings claims of its own.
LEMMA RefsToIsClaimRefs ==
  ASSUME OneComposition,
         NEW p \in Pods, claims[p] = patchedClaims(p), refs[p] = patchedRefs(p), Valid(p),
         NEW k \in compKeys(p), NEW i \in Containers
  PROVE  RefsTo(p, i, Resources[k]) = claimRefs(p, Resources[k], i)
  <1> DEFINE asked == {m \in compKeys(p) : Request[p][i][Resources[m]] > 0}
             left  == {l \in asked : i \in OwnClaims[p] \/ \A m \in asked : m <= l}
  <1>1. refs[p][i] = UNION {claimRefs(p, Resources[l], i) : l \in left}
    BY DEF patchedRefs
  <1>2. ASSUME NEW x \in RefsTo(p, i, Resources[k]) PROVE x \in claimRefs(p, Resources[k], i)
    <2>1. PICK l \in left : x \in claimRefs(p, Resources[l], i)
      BY <1>1, <1>2 DEF RefsTo
    <2>2. l \in compKeys(p) /\ Resources[l] \in Names
      BY KeyNames
    <2>3. x.claim = PodClaimName[Class[Resources[l]]]
      BY <2>1, <2>2, RefsRange
    <2>4. x.claim = PodClaimName[Class[Resources[k]]]
      BY <1>2 DEF RefsTo
    <2>5. l = k
      BY <2>2, <2>3, <2>4, NamesApart
    <2> QED BY <2>1, <2>5
  <1>3. ASSUME NEW x \in claimRefs(p, Resources[k], i) PROVE x \in RefsTo(p, i, Resources[k])
    <2>1. Resources[k] \in Names
      BY KeyNames
    <2>2. Request[p][i][Resources[k]] > 0 /\ x.claim = PodClaimName[Class[Resources[k]]]
      BY <1>3, <2>1, RefsRange
    <2>3. k \in asked
      BY <2>2
    <2>4. CASE i \notin OwnClaims[p]
      <3>1. ASSUME NEW m \in asked PROVE m = k
        <4>1. Resources[m] \in Names /\ m \in DOMAIN Resources /\ k \in DOMAIN Resources
          BY KeyNames
        <4>2. Resources[m] = Resources[k]
          BY <2>1, <2>2, <2>4, <4>1 DEF OneComposition
        <4> QED BY <4>1, <4>2, WebhookAssumption
      <3>2. k <= k
        <4>1. Resources \in Seq(Names)
          BY WebhookAssumption
        <4>2. k \in Nat
          BY <4>1, KeyNames
        <4> QED BY <4>2
      <3>3. k \in left
        BY <2>3, <3>1, <3>2
      <3> QED BY <1>1, <1>3, <2>2, <3>3 DEF RefsTo
    <2>5. CASE i \in OwnClaims[p]
      <3>1. k \in left
        BY <2>3, <2>5
      <3> QED BY <1>1, <1>3, <2>2, <3>1 DEF RefsTo
    <2> QED BY <2>4, <2>5
  <1> QED BY <1>2, <1>3

\* Every reference is to a claim of the pod.
LEMMA RefsHaveClaims ==
  ASSUME NEW p \in Pods, claims[p] = patchedClaims(p), refs[p] = patchedRefs(p),
         NEW i \in Containers, NEW x \in refs[p][i]
  PROVE  \E c \in claims[p] : c.name = x.claim
  <1>1. PICK l \in compKeys(p) : x \in claimRefs(p, Resources[l], i)
    BY DEF patchedRefs
  <1>2. x.claim = PodClaimName[Class[Resources[l]]]
    BY <1>1, KeyNames, RefsRange
  <1> DEFINE d == [name |-> PodClaimName[Class[Resources[l]]],
                   template |-> compositionTemplateName(p, Resources[l])]
  <1>3. d \in claims[p] /\ d.name = x.claim
    BY <1>2 DEF patchedClaims
  <1> QED BY <1>3

\* A claim of a stored pod has the pairs that the pod's containers refer to,
\* whoever made the template it comes from.
LEMMA MadeIsAsked ==
  ASSUME TemplatesAgree, NEW p \in Pods, PodInv(p), claims[p] = patchedClaims(p), Valid(p),
         NEW k \in compKeys(p), NEW m \in made[p], m.name = PodClaimName[Class[Resources[k]]]
  PROVE  m.spec = BuildClaimSpec(p, Resources[k])
  <1>1. PICK c \in claims[p] : \E q \in Pods : m.name = c.name /\ MadeFor(q, c.template, m.spec)
    BY DEF PodInv
  <1>2. PICK q \in Pods : m.name = c.name /\ MadeFor(q, c.template, m.spec)
    BY <1>1
  <1>3. PICK l \in compKeys(p) : c = [name |-> PodClaimName[Class[Resources[l]]],
                                      template |-> compositionTemplateName(p, Resources[l])]
    BY DEF patchedClaims
  <1>4. c.name = PodClaimName[Class[Resources[l]]]
        /\ c.template = compositionTemplateName(p, Resources[l])
    BY <1>3
  <1>5. l = k
    BY <1>2, <1>4, NamesApart
  <1>6. PICK h \in compKeys(q) : /\ c.template = compositionTemplateName(q, Resources[h])
                                 /\ m.spec = BuildClaimSpec(q, Resources[h])
    BY <1>2 DEF MadeFor
  <1>7. BuildClaimSpec(p, Resources[k]) = BuildClaimSpec(q, Resources[h])
    BY <1>4, <1>5, <1>6 DEF TemplatesAgree
  <1> QED BY <1>6, <1>7
----------------------------------------------------------------------------
(* Pods in every reachable state                                           *)

LEMMA PodsInit == WebhookInit => PodsInv
  BY DEF WebhookInit, PodsInv, PodInv

\* The other pods.
LEMMA PodSame ==
  ASSUME NEW p \in Pods, PodInv(p), phase'[p] = phase[p], claims'[p] = claims[p],
         refs'[p] = refs[p], made'[p] = made[p]
  PROVE  PodInv(p)'
  BY DEF PodInv, Valid

\* A pod without composite devices is let through as it came.
LEMMA AdmitPod ==
  ASSUME NEW p \in Pods, PodInv(p), phase[p] = "new",
         phase'[p] = IF compKeys(p) = {} THEN "patched" ELSE "admitting",
         UNCHANGED <<claims, refs, made>>
  PROVE  PodInv(p)'
  <1>1. made[p] = {} /\ claims[p] = {} /\ refs[p] = [i \in Containers |-> {}]
    BY DEF PodInv
  <1>2. CASE compKeys(p) = {}
    <2>1. patchedClaims(p) = {}
      BY <1>2 DEF patchedClaims
    <2>2. patchedRefs(p) = [i \in Containers |-> {}]
      BY <1>2 DEF patchedRefs
    <2> QED BY <1>1, <1>2, <2>1, <2>2 DEF PodInv
  <1>3. CASE compKeys(p) # {}
    BY <1>1, <1>3 DEF PodInv
  <1> QED BY <1>2, <1>3

\* A claim is made from a template that the pod names, as its maker wrote it.
LEMMA MakeClaimPod ==
  ASSUME TemplatesInv, NEW p \in Pods, PodInv(p), phase[p] = "live",
         NEW c \in claims[p], NEW t \in templates, t.name = c.template,
         made'[p] = made[p] \cup {[name |-> c.name, spec |-> t.spec]},
         UNCHANGED <<phase, claims, refs>>
  PROVE  PodInv(p)'
  <1> DEFINE new == [name |-> c.name, spec |-> t.spec]
  <1>1. new.name = c.name /\ new.spec = t.spec
    OBVIOUS
  <1>2. t.by \in Pods /\ MadeFor(t.by, c.template, t.spec)
    BY DEF TemplatesInv, Accounted
  <1>3. made'[p] = made[p] \cup {new}
    OBVIOUS
  <1> HIDE DEF new
  <1>4. \A m \in made'[p] : \E d \in claims[p] : \E q \in Pods :
          m.name = d.name /\ MadeFor(q, d.template, m.spec)
    BY <1>1, <1>2, <1>3 DEF PodInv
  <1>5. Valid(p)' = Valid(p)
    BY DEF Valid
  <1> QED BY <1>4, <1>5 DEF PodInv

LEMMA PodsNext ==
  PodsInv /\ TemplatesInv /\ [WebhookNext]_webhookVars => PodsInv'
  <1> SUFFICES ASSUME PodsInv, TemplatesInv, [WebhookNext]_webhookVars PROVE PodsInv'
    OBVIOUS
  <1> USE DEF PodsInv, TemplatesInv
  <1>1. ASSUME NEW p \in Pods, Admit(p) PROVE PodsInv'
    <2>1. PodInv(p)'
      BY <1>1, AdmitPod DEF Admit
    <2>2. \A q \in Pods \ {p} : PodInv(q)'
      BY <1>1, PodSame DEF Admit
    <2> QED BY <1>1, <2>1, <2>2 DEF Admit
  <1>2. ASSUME NEW p \in Pods, CreateTemplate(p) PROVE PodsInv'
    <2>1. phase[p] = "admitting" /\ UNCHANGED <<claims, refs, made>>
          /\ (UNCHANGED phase \/ phase' = [phase EXCEPT ![p] = "rejected"])
      BY <1>2 DEF CreateTemplate
    <2>2. made[p] = {}
      BY <2>1 DEF PodInv
    <2>3. PodInv(p)'
      BY <2>1, <2>2 DEF PodInv
    <2>4. \A q \in Pods \ {p} : PodInv(q)'
      BY <2>1, PodSame
    <2> QED BY <2>1, <2>3, <2>4
  <1>3. ASSUME NEW p \in Pods, Respond(p) PROVE PodsInv'
    <2>1. /\ phase[p] = "admitting" /\ phase' = [phase EXCEPT ![p] = "patched"]
          /\ claims' = [claims EXCEPT ![p] = patchedClaims(p)]
          /\ refs' = [refs EXCEPT ![p] = patchedRefs(p)]
          /\ UNCHANGED made
      BY <1>3 DEF Respond
    <2>2. made[p] = {}
      BY <2>1 DEF PodInv
    <2>3. PodInv(p)'
      BY <2>1, <2>2 DEF PodInv
    <2>4. \A q \in Pods \ {p} : PodInv(q)'
      BY <2>1, PodSame
    <2> QED BY <2>1, <2>3, <2>4
  <1>4. ASSUME NEW p \in Pods, Store(p) \/ DeletePod(p) PROVE PodsInv'
    <2>1. /\ UNCHANGED <<claims, refs, made>>
          /\ \E f \in {"live", "rejected", "gone"} :
               /\ phase' = [phase EXCEPT ![p] = f]
               /\ \/ phase[p] = "patched" /\ f = "live" /\ Valid(p)
                  \/ phase[p] = "patched" /\ f = "rejected"
                  \/ phase[p] = "live" /\ f = "gone"
      BY <1>4 DEF Store, DeletePod
    <2>2. PodInv(p)'
      BY <2>1 DEF PodInv, Valid
    <2>3. \A q \in Pods \ {p} : PodInv(q)'
      BY <2>1, PodSame
    <2> QED BY <2>1, <2>2, <2>3
  <1>5. ASSUME NEW p \in Pods, MakeClaim(p) PROVE PodsInv'
    <2>1. phase[p] = "live" /\ UNCHANGED <<phase, claims, refs>>
      BY <1>5 DEF MakeClaim
    <2>2. PICK c \in claims[p], t \in templates :
            /\ t.name = c.template
            /\ made' = [made EXCEPT ![p] = @ \cup {[name |-> c.name, spec |-> t.spec]}]
      BY <1>5 DEF MakeClaim
    <2>3. PodInv(p)'
      BY <2>1, <2>2, MakeClaimPod
    <2>4. \A q \in Pods \ {p} : PodInv(q)'
      BY <2>1, <2>2, PodSame
    <2> QED BY <2>1, <2>2, <2>3, <2>4
  <1>6. ASSUME UNCHANGED podVars PROVE PodsInv'
    BY <1>6, PodSame
  <1>7. Age \/ reconcileTemplates \/ UNCHANGED webhookVars => PodsInv'
    BY <1>6 DEF Age, reconcileTemplates, ListTemplates, ListPods, DeleteTemplate
  <1> QED BY <1>1, <1>2, <1>3, <1>4, <1>5, <1>7 DEF WebhookNext

LEMMA PodsAlways == WebhookSpec => []PodsInv
  BY TemplatesAlways, PodsInit, PodsNext, PTL DEF WebhookSpec

\* What the invariant says of a stored pod.
LEMMA PodsInvImplies ==
  ASSUME OneComposition, TemplatesAgree, PodsInv PROVE PodGetsItsDevices
  <1> SUFFICES ASSUME NEW p \in Pods, phase[p] = "live", NEW i \in Containers
               PROVE  /\ \A x \in refs[p][i] : \E c \in claims[p] : c.name = x.claim
                      /\ \A r \in {Resources[k] : k \in compKeys(p)} :
                           /\ Cardinality(RefsTo(p, i, r)) = Request[p][i][r]
                           /\ \A j \in Containers \ {i} : RefsTo(p, i, r) \cap RefsTo(p, j, r) = {}
                           /\ \A x \in RefsTo(p, i, r) : \A m \in made[p] :
                                m.name = x.claim => m.spec.class = Class[r] /\ x.pair < m.spec.count
    BY DEF PodGetsItsDevices
  <1>1. PodInv(p) /\ claims[p] = patchedClaims(p) /\ refs[p] = patchedRefs(p) /\ Valid(p)
    BY DEF PodsInv, PodInv
  <1>2. \A x \in refs[p][i] : \E c \in claims[p] : c.name = x.claim
    BY <1>1, RefsHaveClaims
  <1>3. ASSUME NEW k \in compKeys(p)
        PROVE  LET r == Resources[k]
               IN /\ Cardinality(RefsTo(p, i, r)) = Request[p][i][r]
                  /\ \A j \in Containers \ {i} : RefsTo(p, i, r) \cap RefsTo(p, j, r) = {}
                  /\ \A x \in RefsTo(p, i, r) : \A m \in made[p] :
                       m.name = x.claim => m.spec.class = Class[r] /\ x.pair < m.spec.count
    <2> DEFINE r == Resources[k]
    <2>1. r \in Names
      BY KeyNames
    <2>2. \A j \in Containers : RefsTo(p, j, r) = claimRefs(p, r, j)
      BY <1>1, RefsToIsClaimRefs
    <2>3. Cardinality(RefsTo(p, i, r)) = Request[p][i][r]
      BY <2>1, <2>2, RefsCount
    <2>4. \A j \in Containers \ {i} : RefsTo(p, i, r) \cap RefsTo(p, j, r) = {}
      BY <2>1, <2>2, RefsDisjoint
    <2>5. ASSUME NEW x \in RefsTo(p, i, r), NEW m \in made[p], m.name = x.claim
          PROVE  m.spec.class = Class[r] /\ x.pair < m.spec.count
      <3>1. /\ x.claim = PodClaimName[Class[r]] /\ x.pair \in Nat
            /\ x.pair < Cardinality(Units(p, r, Before(i))) + Request[p][i][r]
        BY <2>1, <2>2, RefsRange
      <3>2. m.spec = BuildClaimSpec(p, r)
        BY <1>1, <2>5, <3>1, MadeIsAsked
      <3>3. m.spec.class = Class[r] /\ m.spec.count = TotalCount(p, r)
        BY <3>2 DEF BuildClaimSpec
      <3>4. /\ Cardinality(Units(p, r, Before(i))) + Request[p][i][r] <= TotalCount(p, r)
            /\ Cardinality(Units(p, r, Before(i))) \in Nat /\ Request[p][i][r] \in Nat
            /\ TotalCount(p, r) \in Nat
        BY <2>1, PairRange, RequestType, UnitsFinite DEF TotalCount
      <3> QED BY <3>1, <3>3, <3>4
    <2> QED BY <2>3, <2>4, <2>5
  <1> QED BY <1>2, <1>3

\* Every stored pod gets the devices its containers asked for, for any number
\* of pods, containers, compositions and requested devices, in every
\* interleaving of admissions with each other and with the template
\* reconciler: where a container without claims of its own asks for one
\* composition, and pods whose templates have one name ask for the same.
THEOREM PodsGetTheirDevices ==
  ASSUME OneComposition, TemplatesAgree
  PROVE  WebhookSpec => []PodGetsItsDevices
  <1>1. PodsInv => PodGetsItsDevices
    BY PodsInvImplies
  <1> QED BY <1>1, PodsAlways, PTL

----------------------------------------------------------------------------
(* Type correctness                                                        *)

\* A template that an admission may make asks for one device at least.
LEMMA MadeForTyped ==
  ASSUME NEW p \in Pods, NEW n, NEW spec, MadeFor(p, n, spec) PROVE spec \in Specs
  <1>1. PICK k \in compKeys(p) : spec = BuildClaimSpec(p, Resources[k])
    BY DEF MadeFor
  <1>2. Resources[k] \in Names /\ TotalCount(p, Resources[k]) > 0
    BY KeyNames DEF compKeys
  <1>3. TotalCount(p, Resources[k]) \in Nat \ {0}
    BY <1>2, UnitsFinite DEF TotalCount
  <1>4. Class[Resources[k]] \in Classes
    BY <1>2, WebhookAssumption
  <1> QED BY <1>1, <1>3, <1>4 DEF BuildClaimSpec, Specs

ErrorsInv == errors \in 0 .. MaxErrors

LEMMA ErrorsNext ==
  ErrorsInv /\ [WebhookNext]_webhookVars => ErrorsInv'
  <1> SUFFICES ASSUME ErrorsInv, [WebhookNext]_webhookVars PROVE ErrorsInv'
    OBVIOUS
  <1>1. Success \/ Failure
    BY DEF Success, Failure, WebhookNext, Admit, CreateTemplate, Respond, Store, MakeClaim,
           DeletePod, Age, reconcileTemplates, ListTemplates, ListPods, DeleteTemplate
  <1>2. MaxErrors \in Nat
    BY WebhookAssumption
  <1> QED BY <1>1, <1>2 DEF Success, Failure, ErrorsInv

LEMMA InvImpliesTyped ==
  ASSUME TodoInv, TemplatesInv, PodsInv, ErrorsInv PROVE WebhookTypeOK
  <1>1. phase \in [Pods -> Phases]
    BY DEF TemplatesInv
  <1>2. todo \in [Pods -> SUBSET DOMAIN Resources]
    BY DEF TodoInv, compKeys
  <1>3. ASSUME NEW t \in templates \cup listed
        PROVE  t.spec \in Specs /\ t.by \in Pods /\ t.old \in BOOLEAN
               /\ t \in [name : {t.name}, spec : {t.spec}, by : Pods, old : BOOLEAN]
    <2>1. Accounted(t)
      BY DEF TemplatesInv
    <2>2. t.by \in Pods /\ t.old \in BOOLEAN
      BY <2>1 DEF Accounted
    <2> QED BY <2>1, <2>2, MadeForTyped DEF Accounted
  <1>4. \A p \in Pods : \A m \in made[p] : m.spec \in Specs
    BY MadeForTyped DEF PodsInv, PodInv
  <1>5. listed \in SUBSET [name : {t.name : t \in listed}, spec : Specs, by : Pods, old : BOOLEAN]
    BY <1>3
  <1> QED BY <1>1, <1>2, <1>3, <1>4, <1>5 DEF WebhookTypeOK, ErrorsInv

\* Type correctness of the webhook and of the reconciler's list: no template
\* and no claim made from one asks for zero devices.
THEOREM WebhookTypeCorrect == WebhookSpec => []WebhookTypeOK
  <1>1. WebhookInit => ErrorsInv
    BY WebhookAssumption DEF WebhookInit, ErrorsInv
  <1>2. TodoInv /\ TemplatesInv /\ PodsInv /\ ErrorsInv => WebhookTypeOK
    BY InvImpliesTyped
  <1> QED BY <1>1, <1>2, ErrorsNext, TemplatesAlways, PodsAlways, PTL DEF WebhookSpec
============================================================================
