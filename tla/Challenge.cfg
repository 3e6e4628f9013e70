CONSTANTS Mobiles = {m1}
Sessions = {}
Partners = {p1, p2}
Requests = {r1, r2}
Idle = Idle
ResendAfter = 1
WaitLimit = 1
Hour = 3
CodeTTL = 3
MaxTries = 2
MaxWrongPerDay = 2
MaxSendsPerHour = 1
CronLimit = 1
MaxRows = 2
MaxTime = 7
SPECIFICATION Spec
INVARIANT TypeOK CodeForgotten OneQueuedPerAccount GuessBudget
PROPERTY NoProofWhenLocked NeverDeletedWhileItWorks
CHECK_DEADLOCK FALSE
SYMMETRY Same
