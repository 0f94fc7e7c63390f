SPECIFICATION Spec
CONSTANTS
    Programs <- ClaimPrograms
    Name <- MCName
    IfcNames <- MCIfcNames
    IFCNames <- MCIFCNames
    ifcNames <- MCifcNames
    ExpressSchemas <- MCExpressSchemas
INVARIANT
    StringsAreMapped
CHECK_DEADLOCK FALSE
