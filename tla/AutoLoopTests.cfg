SPECIFICATION Spec
CONSTANT Profiles <- EditProfile
INVARIANT TestsFailedInARow
