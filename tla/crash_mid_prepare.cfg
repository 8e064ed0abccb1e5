\* One crash.
CONSTANTS
  c1 = c1
  c2 = c2
  gpu = gpu
  nic = nic
  gpuDriver = gpuDriver
  nicDriver = nicDriver
  dev1 = dev1
  Claims = {c1, c2}
  Members = {gpu, nic}
  Work <- MCWork
  MaxWork = 2
  ClaimName <- OwnNames
  HashPrefix <- MCHashPrefix
  Suffix <- MCSuffix
  Uids = {u1, u2, u3, u4, u5, u6, u7, u8}
  NoUid = NoUid
  NoMember = NoMember
  NoClaim = NoClaim
  NoName = NoName
  Drivers = {gpuDriver, nicDriver}
  Driver <- MCDriver
  Exclusive = {gpuDriver}
  Devices = {dev1}
  DevicesOf <- MCDevicesOf
  Faults = {"crash"}
  MaxFaults = 1
SPECIFICATION Spec
INVARIANTS DevicesReleased
