CONSTANTS
    n1 = n1
    n2 = n2
    p1 = p1
    p2 = p2
    NoNode = NoNode
    Nodes <- MCNodes
    Pods <- MCPods
    Capacity <- MCCapacity
    Req <- MCReq
    MaxEvents = 3
SPECIFICATION Spec
INVARIANT
    ReportsSomeSnapshot
