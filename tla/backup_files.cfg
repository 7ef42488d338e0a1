\* Two files of up to two versions, two folders, one of the versions undated;
\* one fault and one change of the folder.
SPECIFICATION FairSpec
CONSTANTS
    Path = {"p", "q"}
    Folder = {"f", "g"}
    MaxVersion = 2
    Undated <- LastOfOne
    MaxFaults = 1
    MaxMoves = 1
INVARIANTS IInv
PROPERTIES CompletedIsWhole Converges
