----------------------------- MODULE MCHosting ------------------------------
(* Instances of Hosting for TLC. *)
EXTENDS Hosting

CONSTANTS k1, k2, k3, d1, d2, d3, d4, d5

\* Two driver packages provide the devices.
MCTypeOf == [d \in Devs |-> IF d \in {d1, d4} THEN "driverA" ELSE "driverB"]

\* One device, or two, registered before Run.
OneBootKey == <<k1>>
OneBootDev == <<d1>>
TwoBootKeys == <<k1, k2>>
TwoBootDevs == <<d1, d2>>

\* The host's goroutines are alike.
HostSymmetry == Permutations(HostThreads)
=============================================================================
