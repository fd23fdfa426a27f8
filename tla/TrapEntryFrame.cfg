SPECIFICATION Spec
INVARIANTS FrameFits
