CONSTANTS
    a = a
    b = b
    c = c
    r1 = r1
    Node = {1, 2}
    Prefix = {a, b, c}
    Index = b
    Follower = {0, 1}
    Request = {r1}
    MaxEvents = 2
SPECIFICATION FairSpec
INVARIANT PlanIsBalanced LiveNodesKeepTheirs
PROPERTY Settles StopsMoving
