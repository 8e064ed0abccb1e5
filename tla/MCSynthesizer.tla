--------------------------- MODULE MCSynthesizer ---------------------------
(***************************************************************************)
(* Two source drivers with a slice each, a slice of a foreign driver, and  *)
(* composite devices that need a device of either source.                  *)
(***************************************************************************)
EXTENDS Synthesizer

CONSTANTS gpuSlice, nicSlice, otherSlice, g1, g2, n1, x1

MCDevicesIn == [x \in Slices |-> CASE x = gpuSlice -> {g1, g2}
                                   [] x = nicSlice -> {n1}
                                   [] x = otherSlice -> {x1}]
MCGroups == {{g1, n1}, {g2, n1}}
============================================================================
