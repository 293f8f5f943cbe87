CONSTANTS
    Deployment = {d1, d2}
    Request = {q1, q2}
    Kinds = {"keyed", "follow"}
    SessionId = {s1}
    NoDeployment = NoDeployment
    NoRoute = NoRoute
    NoBinding = NoBinding
    NoSessionId = NoSessionId
    MaxEvents = 2
SPECIFICATION GatewaySpec
INVARIANT OneDeploymentPerOperation
INVARIANT SessionStaysPinned
INVARIANT GrantedIsKept
 
SYMMETRY MCSymmetry
