SPECIFICATION Spec
CONSTANTS
    Command = {"a", "b"}
    Directory <- MCDirectory
    File <- MCFile
    MarkersIn <- MCMarkersIn
    LanguageOf <- MCLanguageOf
    LanguageOrder <- MCLanguageOrder
    Defaults <- MCDefaults
    Global <- MCDefaults
    Project <- MCProject
    FileOrder <- MCFileOrder
    NameOrder <- MCNameOrder
    FilterConfig <- MCFilterConfig
    DefaultFilter <- MCDefaultFilter
    Fnmatch <- MCFnmatch
    Scenarios <- MCScenarios
    Answers <- MCAnswers
    FirstRun = {"absent", "whole"}
\* the commands end
CHECK_DEADLOCK FALSE
INVARIANT RightServer
