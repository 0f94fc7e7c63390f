SPECIFICATION Spec
CONSTANTS
    Programs <- MCAllPrograms
    Name <- MCName
    IfcNames <- MCIfcNames
    IFCNames <- MCIFCNames
    ifcNames <- MCifcNames
    ExpressSchemas <- MCExpressSchemas
INVARIANTS
    TypeOK
    ReferencesResolved
    EnumsResolved
    ForwardDeclared
    NoTornOutput
    StaticsDefined
    ProjectMatchesProgram
    SchemasRequested
PROPERTIES
    ExpressAccess
    ValidatedIsTranslated
    ImplementsTranslation
CHECK_DEADLOCK FALSE
