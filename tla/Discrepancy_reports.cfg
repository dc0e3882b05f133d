\* A and B are heard; C is not authorized, and y is not the responder's problem.
SPECIFICATION Spec
CONSTANTS
    A = A
    B = B
    C = C
    x = x
    y = y
    Reporters = {A, B, C}
    Ids = {x, y}
    Reports <- MCReports
    SimilarityKey <- MCSimilarityKey
    Authorized = {A, B}
    OwnProblems = {x}
    Trusting = {A, C}
    MinInterval = 1
    Submissions = {s1, s2}
    Resolutions = {v1, v2}
    MaxRestarts = 1
SYMMETRY Symmetric
INVARIANTS
    PollsAreFaithful
    AgreeWhenCalm
    
    
PROPERTIES
    SpacedWhenSequential
