CONSTANTS
    MaxCalls = 0
    MaxRows = 2
    MaxCommands = 1
SPECIFICATION CommandSpec
PROPERTY RestartKeepsPaired
