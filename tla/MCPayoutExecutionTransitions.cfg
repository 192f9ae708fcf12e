SPECIFICATION Spec
CONSTANTS
    w1 = w1
    w2 = w2
    p1 = p1
    p2 = p2
    m1 = m1
    m2 = m2
    m3 = m3
    m4 = m4
    Malformed = Malformed
    None = None
    Workers = {w1, w2}
    Payouts = {p1}
    Messages = {m1, m2, m4}
    JobOf <- TwicePublished
    Subscribed = {p1}
    Outcomes = {"succeeded", "failed"}
    MaxFaults = 0
PROPERTIES
    TransitionsAreValid
