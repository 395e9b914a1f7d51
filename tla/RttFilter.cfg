CONSTANTS
    Samples = {1, 2, 3, 4}
    Windows = {2, 4}
    MaxTime = 6
    MaxSamples = 5
SPECIFICATION Spec
INVARIANTS EstimatesOrdered LeastSinceTaken
PROPERTY BestIsCurrent
