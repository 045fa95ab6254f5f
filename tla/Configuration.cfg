CONSTANTS
    Files <- MCFiles
    Environments <- MCEnvironments
    DefaultTopic <- MCTopic
SPECIFICATION ConfigSpec
INVARIANT ValidMeansUsable
