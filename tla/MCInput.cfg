SPECIFICATION Spec
CONSTANTS
    ann = ann
    bob = bob
    a1 = a1
    a2 = a2
    b1 = b1
    User <- MCUser
    Socket <- MCSocket
    UserOf <- MCUserOf
    Cost = 2
    Rate = 1
    Burst = 3
    Hold = 2
    MaxBudget = 7
INVARIANTS
    RateIsBounded
    TextIsInTurn
