SPECIFICATION Spec
CONSTANTS
    Programs <- ClaimPrograms
    Name <- MCName
    IfcNames <- MCIfcNames
    IFCNames <- MCIFCNames
    ifcNames <- MCifcNames
    ExpressSchemas <- MCExpressSchemas
PROPERTY
    MembersArePrefixed
CHECK_DEADLOCK FALSE
