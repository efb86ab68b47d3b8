------------------------------ MODULE MCI3cBus ------------------------------
(* Instances of I3cBus for TLC.  Device 1 is on another bus.                *)
EXTENDS I3cBus

CONSTANTS c1, c2, a1, a2, k1, k2

Two == 1 .. 2
Three == 1 .. 3
DevicesOfClass == [d \in Devices |-> IF d = 3 THEN k2 ELSE k1]

\* c1 has the first device of its class there is, and c2 an address.
FirstOfClass == [c \in {c1} |-> [class |-> k1, instance |-> 0]]
AnAddress == [c \in {c2} |-> a2]

\* By pid, c1 has the second device and c2 the third.
ByPidOnly == [c \in {c1, c2} |-> IF c = c1 THEN 2 ELSE 3]

NoneOfClass == [c \in {} |-> [class |-> k1, instance |-> 0]]
NoPids == [c \in {} |-> 1]
NoStatic == [c \in {} |-> a2]
=============================================================================
