CONSTANTS Langs = {l1, l2}
None = None
Debounce = 2
MaxWait = 2
MaxChanges = 1
SPECIFICATION FairSpec
INVARIANT TypeOK NothingForgotten
PROPERTY AnsweredUnlessFailed
