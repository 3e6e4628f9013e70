CONSTANTS Mobiles = {m1, m2}
Sessions = {s1,s2}
Partners = {}
Requests = {r1, r2}
Idle = Idle
ResendAfter = 1
WaitLimit = 1
Hour = 1
CodeTTL = 3
MaxTries = 2
MaxWrongPerDay = 2
MaxSendsPerHour = 2
CronLimit = 1
MaxRows = 3
MaxTime = 2
SPECIFICATION Spec
PROPERTY ReusedCodeIsChecked
CHECK_DEADLOCK FALSE
SYMMETRY Same
