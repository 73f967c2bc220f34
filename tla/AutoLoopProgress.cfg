SPECIFICATION FairSpec
CONSTANT Profiles <- BatchProfile
PROPERTY ProgressCounts
