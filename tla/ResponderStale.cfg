CONSTANTS Langs = {l1}
None = None
Debounce = 2
MaxWait = 3
MaxChanges = 1
SPECIFICATION PolledSpec
PROPERTY Answered
