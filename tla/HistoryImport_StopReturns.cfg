\* Three files in batches of two: a full batch and a partial one;
\* no file is cut, so every parse ends.
CONSTANTS
    NbFiles = 3
    Cut = {}
    BatchSize = 2
    MaxImports = 1
SPECIFICATION FairSpec
PROPERTY StopReturns
