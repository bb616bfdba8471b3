CONSTANTS
    Profiles <- MCProfiles
    Commands <- MCCommands
    Probes <- MCProbes
    Tokens <- Core
SPECIFICATION Spec
INVARIANT ReplayNeverRefused
