SPECIFICATION MCSpec
CONSTANTS
    Profiles <- AllProfiles
    Modes = {"DUAL_STACK", "NO_IP"}
    Happens <- AllHappens
    MaxEvents = 3
    MaxPending = 2
INVARIANTS
    StackTypeOK
    NoOrphanClient
    DnsServed
PROPERTIES
    ImplementsIfaceSM
\* The policy need not start a machine on an interface that is down.
CHECK_DEADLOCK FALSE
