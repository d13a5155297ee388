CONSTANTS
    cpu = cpu
    mem = mem
    Nil = Nil
    Resources <- MCResources
    Pods <- MCPods
SPECIFICATION Spec
INVARIANTS
    TypeOK
    MatchesReference
