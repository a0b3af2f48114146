SPECIFICATION Spec
INVARIANT NoCircularWait
