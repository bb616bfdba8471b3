\* Two sticks, two ports, one serial.
CONSTANTS
    Sticks = {a, b}
    Ports = {p, q}
    Serials = {s1}
    Conditions = {"ok", "claimed", "slow", "denied", "unreadable"}
    MaxChanges = 3
    MaxTrouble = 1
    None = None
SPECIFICATION Spec
INVARIANTS
    HandlesAccounted
    SameStick
    NoForgottenStick
PROPERTY NoAmbiguousOpen
