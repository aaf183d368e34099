CONSTANT Values <- MCValues
SPECIFICATION Spec
INVARIANTS TypeOK StandardRoundTrip ConsensusIsCore
