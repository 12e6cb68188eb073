CONSTANTS
    Ports <- ThreePorts
    Shares = {s1, s2}
    EndReasons <- OneReason
SPECIFICATION Spec
PROPERTY SelectionFollowsPort
