CONSTANTS
    Profiles <- MCProfiles
    Commands <- MCCommands
    Probes <- MCProbes
    Tokens <- Core
SPECIFICATION Spec
INVARIANTS
    ShadowIsChip
    LdroFollows
    WholeReplayAccepted
PROPERTY ImplementsAtomicConfig
