CONSTANTS
    Tunnels <- MCTunnelNames
    Ports <- MCPorts
SPECIFICATION LiveSpec
INVARIANT UrlFromPort
PROPERTY CollisionSettles
CHECK_DEADLOCK FALSE
