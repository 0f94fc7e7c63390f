SPECIFICATION Spec
CONSTANTS
    Programs <- ClaimPrograms
    Name <- MCName
    IfcNames <- MCIfcNames
    IFCNames <- MCIFCNames
    ifcNames <- MCifcNames
    ExpressSchemas <- MCExpressSchemas
PROPERTY
    EmbeddedAccessIsExpress
CHECK_DEADLOCK FALSE
