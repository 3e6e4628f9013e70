CONSTANTS None = None
w1 = w1 w2 = w2
Waiters = {w1, w2, boss} Holder = boss Visits = {v1, v2} MaxEntries = 4
LastDay = 5
CHECKPOINT_DAYS <- MCCheckpoints
Spans <- MCSpans
People = {w1, w2, boss} Methods = {"self", "employer"} MaxChanges = 2
Claims <- MCClaims
Costs = {0, 10}
Periods <- MCPeriods
Bookings <- MCBookings
Businesses = {"A", "B"} First = "A" Tabs = {v1, v2} MaxNeeds = 2 MaxRuns = 2
Areas = {"n"} DaysSaid = {1, 2} Requests = {r1, r2} MaxRows = 2
CityOf <- MCCityOf
Texts = {"a", "b"} MaxKeys = 4 MaxAsks = 3
Full <- MCFull
Quick <- MCQuick
CafePlaces = {"p", "q"} HolderHome = "p" Hints = {1, 2} MaxPostings = 2 MaxMoves = 1
Owners = {"person", "x"} Uploads = {v1, v2} PER_OWNER = 1 MaxPhotos = 2 MaxAge = 1 LastTick = 1
MaxHops = 2 MaxOpens = 3
Phrases = {"a", "b"} Sayers = {r1, r2} MaxSaid = 4 MaxHandled = 1
Digits = "12345" MaxSteps = 4 FirstRoles = 1
Cases <- MCCases
Months <- MCMonths
Standards <- MCStandards
SPECIFICATION Spec
INVARIANT QueueInOrder CalendarKept SharesAddUp AnswersKept PagesReckon BoxTruthful NeedsFollow PhotosReviewed
PROPERTY VotesCount
SYMMETRY Symmetry
CHECK_DEADLOCK FALSE
