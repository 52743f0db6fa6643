\* Analyses of every shape and questions to every kind of engine, while permissions change
SPECIFICATION FairSpec
CONSTANTS
    None = None
    Library <- MCLibrary
    Dense <- MCDense
    Rankings <- MCRankings
    MaxQueries = 3
    Named <- MCNamed
    Answers <- MCAnswers
    Contexts <- MCContexts
    Graph <- MCGraph
    Replies <- MCReplies
    Schemas <- MCSchemas
    Settings <- MCSettings
INVARIANTS
    AnalysisTypeOK
    SchemaTrimmed
    MaterialsWithinAsked
    GradedHonestly
    NothingInvented
    ReportCoversMaterials
    FusionKeepsOrder
    SourcesHonest
PROPERTIES
    AnalysesEnd
CHECK_DEADLOCK FALSE
