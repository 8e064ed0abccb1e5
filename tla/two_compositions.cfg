\* One container asks for two compositions.
CONSTANTS
  d1 = d1
  d2 = d2
  plain = plain
  Pods = {d1}
  Containers <- MCContainers
  Resources <- MCResources
  Classes <- MCClasses
  Class <- MCClass
  Prefix <- MCPrefix
  Request <- BothRequest
  OwnClaims <- NoOwnClaims
  TemplateName <- MCTemplateName
  PodClaimName <- MCPodClaimName
  MaxErrors = 0
SPECIFICATION WebhookSpec
INVARIANTS PodGetsItsDevices
