CONSTANTS
    q1 = q1
    q2 = q2
    ann = ann
    bob = bob
    carol = carol
    p1 = p1
    p2 = p2
    NoPayload = NoPayload
    Clients <- OneClient
    Actors <- ThreeActors
    Payloads <- OnePayload
    Routing <- DefaultRouting
    MaxRequests = 2
SPECIFICATION Spec
SYMMETRY Symmetry
INVARIANTS
    TypeOK
    SegregationOfDuties
    DecisionsFollowRouting
    LogMirrorsTables
PROPERTIES
    FlowSpec
