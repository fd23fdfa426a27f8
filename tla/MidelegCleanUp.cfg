SPECIFICATION Spec
INVARIANT LineReleased
