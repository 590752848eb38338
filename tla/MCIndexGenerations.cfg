SPECIFICATION FairSpec
CONSTANTS
    MaxRuns = 3
INVARIANT IndexInv
INVARIANT SearchSeesOneScan
PROPERTY PromotesWhatWasValidated
PROPERTY EveryRunEnds
