\* Two pods with one template, a third without any; one failing request.
CONSTANTS
  d1 = d1
  d2 = d2
  plain = plain
  Pods = {d1, d2, plain}
  Containers <- MCContainers
  Resources <- MCResources
  Classes <- MCClasses
  Class <- MCClass
  Prefix <- MCPrefix
  Request <- MCRequest
  OwnClaims <- MCOwnClaims
  TemplateName <- MCTemplateName
  PodClaimName <- MCPodClaimName
  MaxErrors = 1
SPECIFICATION WebhookSpec
INVARIANTS WebhookTypeOK PodGetsItsDevices
PROPERTIES OwnTemplateKept TemplatesCollected
