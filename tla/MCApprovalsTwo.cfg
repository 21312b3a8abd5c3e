CONSTANTS
    q1 = q1
    q2 = q2
    ann = ann
    bob = bob
    carol = carol
    p1 = p1
    p2 = p2
    NoPayload = NoPayload
    Clients <- TwoClients
    Actors <- ThreeActors
    Payloads <- OnePayload
    Routing <- DefaultRouting
    MaxRequests = 1
SPECIFICATION CrashSpec
SYMMETRY Symmetry
INVARIANTS
    LogNeverAhead
    PreparerNeverDecides
