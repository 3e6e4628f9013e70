CONSTANTS None = None
n1 = n1 n2 = n2 n3 = n3 p = p q = q x = x y = y
r1 = r1 r2 = r2
MaxSteps = 3
MaxEdits = 2
Codes = {"c1", "c2", "d"}
Kind <- KindIs
NameOf <- NamesOf
Bundles <- TwoBundles
Sessions = {s1, s2}
LinkPlaces = {n1, n2, n3} MaxLinkEdits = 4
LinkBundles <- TwoLinkBundles
NamePlaces = {p, q} OtherNames = {x, y} MaxNameEdits = 3
Contents <- TwoContents
NameFiles <- TwoNameFiles
Loads <- TwoLoads
Queries = {"code", "name", "joined"}
WordsOf <- MCWords
CodeReadIn <- MCCode
Clients = {r1, r2} CacheSize = 1 Busy = 2 MaxLoads = 2
SPECIFICATION MCSpec
INVARIANT Shapes FollowsSource ReadsRight CityAsInTheTree BothWays LinksFollow LoadsGoThrough
INVARIANT SuggestionsCounted Answered ProgramsAgree
PROPERTY PeopleDecide DecidedStays
SYMMETRY Symmetry
CHECK_DEADLOCK FALSE
