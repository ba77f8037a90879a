\* One request, delivered up to three times, a crash and a refused result, under
\* fairness.
SPECIFICATION RequestFairSpec
CONSTANTS
    n1 = n1
    n2 = n2
    q1 = q1
    NoNode = NoNode
    Nodes = {n1, n2}
    Requests = {q1}
    MaxDeliver = 3
    MaxRestarts = 1
    MaxRefusals = 1
INVARIANTS AckAnswered ReplyHasResult
PROPERTIES RequestSettles
CHECK_DEADLOCK FALSE
