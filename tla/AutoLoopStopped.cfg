SPECIFICATION FairSpec
CONSTANT Profiles <- BatchProfile
PROPERTY StoppedIsStopped
