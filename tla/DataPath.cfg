SPECIFICATION Spec
CHECK_DEADLOCK FALSE
CONSTANTS
    file = file
    otherFile = otherFile
    FileName = {file, otherFile}
    DefaultFile = otherFile
    Null = Null
    Configurations <- MCConfigurations
    Inputs <- MCInputs
    MaxSamples = 3
    MaxExecutions = 2
INVARIANTS TypeOK Faithful FileKeepsLines
