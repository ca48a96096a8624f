CONSTANT Barriers = {}
SPECIFICATION Spec
INVARIANT AssertHolds
