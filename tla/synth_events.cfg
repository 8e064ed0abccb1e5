\* Overlapping recomputes and a failing Publish; slices come and go.
CONSTANTS
  gpuSlice = gpuSlice
  nicSlice = nicSlice
  otherSlice = otherSlice
  g1 = g1
  g2 = g2
  n1 = n1
  x1 = x1
  Slices = {gpuSlice, nicSlice, otherSlice}
  Relevant = {gpuSlice, nicSlice}
  DevicesIn <- MCDevicesIn
  Groups <- MCGroups
  Runs = {r1, r2}
  MaxChanges = 2
  MaxFailures = 1
  NoSlice = NoSlice
SPECIFICATION FairSynthSpec
INVARIANTS SynthTypeOK QuiescentCurrent
PROPERTIES InventoryConverges
CHECK_DEADLOCK FALSE
