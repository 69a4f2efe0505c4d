\* Two people, two browsers, accounts that come and go, and a few hours.
SPECIFICATION Spec
CONSTANTS
    Person = {p1, p2}
    Browser = {b1, b2}
    Hours = 1
    Mails <- MCMails
    p1 = p1
    p2 = p2
    Prompt = TRUE
    MaxId = 3
    MaxVersion = 1
    MaxTime = 1
    MaxRegroups = 1
    None = None
SYMMETRY Symmetric
INVARIANTS
    TypeOK
    OneAccountEach
    SessionsFollowIdentity
    EndedStayEnded
    GroupsTakeEffect
