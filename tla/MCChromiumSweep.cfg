SPECIFICATION Spec
CONSTANT Helpers = {h1}
INVARIANT SignalsOwnGroup
