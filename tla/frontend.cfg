CONSTANTS
    GatewayOpts <- MCGatewayOpts
    CtlFlags <- MCCtlFlags
    Lines <- MCLines
    MaxLines = 3
    Contexts <- MCContexts
    Digests = {"d1", "d2"}
SPECIFICATION Spec
INVARIANTS
    BuildsWhatIsAsked
    RefusedForCause
    PinFits
