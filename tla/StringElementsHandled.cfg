SPECIFICATION Spec
CONSTANTS
    Programs <- ClaimPrograms
    Name <- MCName
    IfcNames <- MCIfcNames
    IFCNames <- MCIFCNames
    ifcNames <- MCifcNames
    ExpressSchemas <- MCExpressSchemas
PROPERTY
    StringElementsHandled
CHECK_DEADLOCK FALSE
