----------------------------- MODULE MCWebhook -----------------------------
(***************************************************************************)
(* Two pods of one Deployment, which share their generateName and their    *)
(* request, and a pod without composite devices.                           *)
(***************************************************************************)
EXTENDS Webhook

CONSTANTS d1, d2, plain

MCContainers == 1 .. 2
MCResources == <<"pair", "single">>
MCClasses == {"pairClass", "singleClass"}
MCClass == [r \in {"pair", "single"} |-> IF r = "pair" THEN "pairClass" ELSE "singleClass"]
MCPrefix == [p \in Pods |-> IF p = plain THEN "plain" ELSE "web"]
MCTemplateName == [x \in {"web", "plain"} \X MCClasses |-> x]
MCPodClaimName == [c \in MCClasses |-> c]

Counts(a, b) == [r \in {"pair", "single"} |-> IF r = "pair" THEN a ELSE b]

\* The second container brings claims of its own and asks for both.
MCRequest == [p \in Pods |-> IF p = plain THEN <<Counts(0, 0), Counts(0, 0)>>
                                          ELSE <<Counts(2, 0), Counts(1, 1)>>]
MCOwnClaims == [p \in Pods |-> {2}]

\* The pod of TestMutate_MultipleResourceTypes: one container, both resources.
BothRequest == [p \in Pods |-> <<Counts(2, 1), Counts(0, 0)>>]
NoOwnClaims == [p \in Pods |-> {}]
=============================================================================
