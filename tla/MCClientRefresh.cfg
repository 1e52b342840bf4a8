CONSTANTS
    Collections = {"events", "layers"}
    Views = {"this week", "next week"}
    MaxVersion = 2
    MaxChanged = 1
    MaxFaults = 1
SPECIFICATION Spec
INVARIANTS
    RequestsHonoured

    
