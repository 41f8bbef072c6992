SPECIFICATION FairSpec
CONSTANTS
    c1 = c1  c2 = c2  w1 = w1  w2 = w2  s1 = s1  s2 = s2  u1 = u1  f1 = f1  f2 = f2  f3 = f3
    q1 = q1  a1 = a1  r1 = r1  r2 = r2  i1 = i1
    Messages = {c1, c2, w1, w2, s1, s2}
    Backlogs <- MCOneBacklog
    Routes <- MCRoutes
    Malformed <- MCMalformed
    Owner <- MCOwner
    Present <- MCPresent
    Topic <- MCTopic
    Sender <- MCSender
    Users = {u1}
    Fields = {f1, f2, f3}
    Resources = {q1}
    Callers = {a1}
    NoUser = NoUser
    NoCaller = NoCaller
    Declarations <- MCOneDeclaration
    Requests = {r1, r2}
    Instances = {i1}
    HostOf <- MCHostOf
    Serves <- MCServes
    MaxAttempts = 2
    MaxVersion = 2
    MaxChanges = 0
    MaxFaults = 0
    Possible = {"shred"}
    NoMessage = NoMessage
PROPERTY UnprocessableAcked
CHECK_DEADLOCK FALSE
