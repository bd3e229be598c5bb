CONSTANT MaxCommands = 1
SPECIFICATION FairPageSpec
PROPERTY ViewFits PageFollows
CHECK_DEADLOCK FALSE
