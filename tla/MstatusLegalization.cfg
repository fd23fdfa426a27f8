\* A hart that keeps MPP = 2.
CONSTANT TrapFaults = {"mpp_keeps_2"}

SPECIFICATION Spec

INVARIANT HypervisorRefused
