SPECIFICATION PrintfSpec
CONSTANT Formats <- MCFormats
CHECK_DEADLOCK FALSE
INVARIANTS
    ArgumentsInStep
    CountHonest
    FormatFits
