CONSTANTS
    Columns = 3
    Formulas <- SomeFormulas
    MaxEdits = 4
    Letter = Letter
    YYSTACKDEPTH = 6
    Symbols = {1, 2, 3, 4, 5, 6}
    FileBudget = 6
    Statements = 2
    HttpInputs <- SomeHttpInputs
    BufferLen = 21
    Callers = {a1, a2}
    PoolThreads = {p1}
    ConfigFiles <- SomeConfigs
    HeaderNames = {"X"}
    MaxHeaders = 2
    Statuses = {200, 500}
    Valid = TRUE
    NoCaller = NoCaller
    Messages <- MixedMessages
    RequestSize = 2
    RecvMax = 12
    Timed = TRUE
    MaxLine = 6
    DiceInputs <- SomeDiceInputs
    MaxThrows = 4
    IniLines <- SomeIniLines
    MaxIniLines = 4
    UriStarts <- SomeUriStarts
    MaxUri = 8
    HeaderLists <- SomeHeaderLists
    BodySizes <- SomeSizes
    Responses <- SomeResponses
    SizeBits = 6
    CommandLines = {{}, {"file"}, {"debug"}, {"help", "file"}, {"wrong"}}
    ConfigTrees <- SomeConfigTrees
    Garbage = Garbage
    PathChars = {"a", ".", "/"}
    MaxPath = 7
    EscapeChars = {"%", "2", "0", "F", " ", "/"}
    MaxEscape = 4
SPECIFICATION ProgramsSpec
INVARIANTS ProgramsTypeOK RecalculatedIsFresh SecondPassNeverThrows  TextsAreRead AssertionsHold RequestIsMeant ClientPromises BodyIsSent WellFormedNeverThrows ServerIsAsConfigured
PROPERTIES RequestReturns
CHECK_DEADLOCK FALSE
