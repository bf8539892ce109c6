SPECIFICATION FairSpec
CONSTANT Helpers = {h1, h2}
INVARIANTS TypeOK GroupTornDown ProfileOutlivesLeader TeardownStaysInGroup
PROPERTY ImplementsBrowser
