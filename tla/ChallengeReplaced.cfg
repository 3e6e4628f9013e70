CONSTANTS Mobiles = {m1}
Sessions = {s1}
Partners = {p1}
Requests = {r1, r2}
Idle = Idle
ResendAfter = 1
WaitLimit = 1
Hour = 1
CodeTTL = 3
MaxTries = 2
MaxWrongPerDay = 2
MaxSendsPerHour = 2
CronLimit = 1
MaxRows = 3
MaxTime = 2
SPECIFICATION Spec
PROPERTY ReplacedNeverReturns
CHECK_DEADLOCK FALSE
