\* Two requests meet at every step, of the same caller or of two. With Period 0
\* a window lasts the tick it opens in, so two ticks are enough for one to open,
\* expire and open again.
CONSTANTS
    contact = contact
    careers = careers
    siteA = siteA
    siteB = siteB
    r1 = r1
    r2 = r2
    c1 = c1
    c2 = c2
    Requests = {r1, r2}
    Forms = {contact, careers}
    Deployments <- MCDeployments
    DefaultForm = contact
    Origins = {siteA, siteB}
    Allowed <- MCAllowed
    Limit <- MCLimit
    Keys = {c1, c2}
    Period = 0
    MaxNow = 1
SPECIFICATION Spec
INVARIANTS TypeOK MailIsCleared AnswerTellsOutcome OnlyOwnOriginsRead LogAccountsForAnswer LossesAreVisible AllowanceIsPerForm
PROPERTIES OnlySubmissionsAreCounted SendsAreMailerCalls EveryRequestEnds
