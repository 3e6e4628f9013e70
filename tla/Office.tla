--------------------------------- MODULE Office ---------------------------------
(***************************************************************************)
(* What surrounds a match: the queue of a café, the days of a booking, the        *)
(* ledger of claims, the cost of a period, the need and the profile a page at a    *)
(* time, the box that suggests, a café that moves, photos, where somebody lands,   *)
(* what the standard does not know and what it shows, and where and when they say. *)
(* None of them shares state with another, so each runs on its own (`part').       *)
(***************************************************************************)
EXTENDS Integers, Sequences, FiniteSets

CONSTANTS
    None,
    Waiters, Holder, Visits, MaxEntries,                             \* Queue
    LastDay, CHECKPOINT_DAYS, Spans,                                 \* Calendar
    People, Claims, Methods, MaxChanges,                             \* Ledger
    Costs, Periods, Bookings,                                        \* Cost
    Businesses, First, Tabs, MaxNeeds, MaxRuns,                      \* NeedDraft
    Areas, CityOf, DaysSaid, Requests, MaxRows,                      \* Joining
    Texts, Full, Quick, MaxKeys, MaxAsks,                            \* SearchBox
    CafePlaces, HolderHome, Hints, MaxPostings, MaxMoves,            \* Follow
    Owners, Uploads, PER_OWNER, MaxPhotos, MaxAge, LastTick,         \* Photos
    MaxHops, MaxOpens,                                               \* Landing
    Phrases, Sayers, MaxSaid, MaxHandled,                            \* Candidates
    Digits, MaxSteps, Cases,                                         \* PlaceAnswer: the cases asked
    Months,                                                          \* Dates: the months asked
    FirstRoles, Standards                                            \* Standard: the standards asked

\* A checkpoint is so many days before the start; a need has a first day, and a last one or none.
ASSUME CalendarAssumption ==
    /\ LastDay \in Nat /\ CHECKPOINT_DAYS \in [DOMAIN CHECKPOINT_DAYS -> Int]
    /\ Spans \subseteq Int \X (Int \cup {None}) /\ None \notin {"open", "done"}
\* A café with a place has one of the places, and its holder lives at one.
ASSUME FollowAssumption ==
    None \notin CafePlaces /\ HolderHome \in CafePlaces /\ MaxPostings \in Nat /\ MaxMoves \in Nat

VARIABLES
    part,
    entry, visit, listed,                                            \* Queue
    today, booking, check, made, raised, moved, edited,              \* Calendar
    assertion, vote, verified, corrected, changes,                   \* Ledger
    counted, period,                                                 \* Cost
    held, draft, need, tab, runs, lapped,                            \* NeedDraft
    person, row, proposal, request, crossed,                         \* Joining
    text, keys, timer, usingFallback, question, cache, list, busy, mark, gaveUp,   \* SearchBox
    cafe, posting, move, moves,                                      \* Follow
    clock, photo, upload, keeps, hidden, over,                       \* Photos
    account, last, start, at, hops, opens,                           \* Landing
    candidate, hearing, said, handled, reopened, apart,              \* Candidates
    asked                                                            \* PlaceAnswer, Dates, Standard

queue == <<entry, visit, listed>>
calendar == <<today, booking, check, made, raised, moved, edited>>
ledger == <<assertion, vote, verified, corrected, changes>>
cost == <<counted, period>>
answers == <<held, draft, need, tab, runs, lapped>>
pages == <<person, row, proposal, request, crossed>>
box == <<text, keys, timer, usingFallback, question, cache, list, busy, mark, gaveUp>>
place == <<cafe, posting, move, moves>>
photos == <<clock, photo, upload, keeps, hidden, over>>
landing == <<account, last, start, at, hops, opens>>
words == <<candidate, hearing, said, handled, reopened, apart>>
everything == <<part, queue, calendar, ledger, cost, answers, pages, box, place, photos, landing, words, asked>>

-----------------------------------------------------------------------------
Q == INSTANCE Queue WITH People <- Waiters
C == INSTANCE Calendar
L == INSTANCE Ledger
S == INSTANCE Cost
D == INSTANCE NeedDraft
J == INSTANCE Joining WITH Days <- DaysSaid
B == INSTANCE SearchBox
M == INSTANCE Follow WITH Places <- CafePlaces, Home <- HolderHome, need <- posting, MaxNeeds <- MaxPostings
P == INSTANCE Photos
R == INSTANCE Landing
N == INSTANCE Candidates WITH Texts <- Phrases, Requests <- Sayers
W == INSTANCE PlaceAnswer
T == INSTANCE Dates
U == INSTANCE Standard

\* What a form says of a month: its first day, and every way to ask for days in it.
DatesHold(jy, jm, first, days) ==
    /\ T!MonthHolds(jy, jm, first)
    /\ \A jd \in 0..32 : T!NeverRolls(<<jy, jm, jd>>, first)
    /\ \A n \in {0, 14, days} : T!ButtonsHold(first + n)
    /\ \A n \in {0, 14, days}, length \in {None, 0, 20, 370} :
          T!ShownAgain(first + 14, first + n, IF length = None THEN None ELSE first + n + length)

\* Nothing typed is no text, and an answer is a list of results.
ASSUME BoxAssumption ==
    /\ None \notin Texts /\ None \notin B!Addresses /\ MaxKeys \in Nat
    /\ \A t \in Texts : Full[t] \in Seq(B!Results) /\ Quick[t] \in Seq(B!Results)
\* Who speaks of somebody says from what, which is one of the methods there are; a vote is something.
ASSUME LedgerAssumption ==
    /\ \A p \in DOMAIN Claims : Claims[p].by \in People /\ Claims[p].method \in DOMAIN L!METHOD_BASE
    /\ Methods \subseteq DOMAIN L!METHOD_BASE /\ MaxChanges \in Nat
    /\ None \notin [verdict : L!Verdicts, standing : 0..L!STANDING_MAX]
\* What staff enter is no debt; days are numbers, and a booking has a last one or none.
ASSUME CostAssumption ==
    /\ Costs \subseteq Nat /\ 0 \in Costs /\ IsFiniteSet(DOMAIN Bookings)
    /\ \A b \in DOMAIN Bookings : Bookings[b].start \in Int /\ Bookings[b].end \in Int \cup {None}
    /\ \A p \in DOMAIN Periods : Periods[p].start \in Int /\ Periods[p].end \in Int
ASSUME QueueAssumption == MaxEntries \in Nat
\* A café's address is no address of the questions.
ASSUME DraftAssumption ==
    /\ First \in Businesses /\ None \notin Businesses /\ Businesses \cap D!Pages = {}
    /\ MaxNeeds \in Nat /\ MaxRuns \in Nat
\* A neighbourhood is something, and a day is a number.
ASSUME JoiningAssumption == None \notin Areas /\ DaysSaid \subseteq Int /\ MaxRows \in Nat
\* Nobody has opened a side at first.
ASSUME LandingAssumption == None \notin R!ROLES /\ None \notin R!Pages /\ MaxHops \in Nat /\ MaxHops >= 2 /\ MaxOpens \in Nat
\* A photo is something, and so is the tick at which it was taken back.
ASSUME PhotosAssumption ==
    /\ "staff" \notin Owners
    /\ None \notin [owner : Owners, state : P!States] /\ None \notin Nat
    /\ PER_OWNER \in Nat /\ MaxPhotos \in Nat /\ MaxAge \in Nat /\ LastTick \in Nat

-----------------------------------------------------------------------------
Init ==
    /\ \/ /\ part \in {"queue", "calendar", "ledger", "cost", "answers", "pages", "box", "place", "photos", "landing",
                       "words"}
          /\ asked = None
       \/ part = "where" /\ asked \in Cases
       \/ part = "when" /\ asked \in Months
       \/ part = "standard" /\ asked \in Standards
    /\ part # "place" => cafe = [place |-> None, hint |-> 1]
    /\ part # "landing" => account = [who |-> "public", mobile |-> "none", sides |-> {}, told |-> FALSE]
    /\ Q!Init /\ C!Init /\ L!Init /\ S!Init /\ D!Init /\ J!Init /\ B!Init /\ M!Init /\ P!Init /\ R!Init /\ N!Init

Next ==
    /\ UNCHANGED part
    /\ \/ part = "queue" /\ Q!Next /\ UNCHANGED <<calendar, ledger, cost, answers, pages, box, place, photos, landing, words, asked>>
       \/ part = "calendar" /\ C!Next /\ UNCHANGED <<queue, ledger, cost, answers, pages, box, place, photos, landing, words, asked>>
       \/ part = "ledger" /\ L!Next /\ UNCHANGED <<queue, calendar, cost, answers, pages, box, place, photos, landing, words, asked>>
       \/ part = "cost" /\ S!Next /\ UNCHANGED <<queue, calendar, ledger, answers, pages, box, place, photos, landing, words, asked>>
       \/ part = "answers" /\ D!Next /\ UNCHANGED <<queue, calendar, ledger, cost, pages, box, place, photos, landing, words, asked>>
       \/ part = "pages" /\ J!Next /\ UNCHANGED <<queue, calendar, ledger, cost, answers, box, place, photos, landing, words, asked>>
       \/ part = "box" /\ B!Next /\ UNCHANGED <<queue, calendar, ledger, cost, answers, pages, place, photos, landing, words, asked>>
       \/ part = "place" /\ M!Next /\ UNCHANGED <<queue, calendar, ledger, cost, answers, pages, box, photos, landing, words, asked>>
       \/ part = "photos" /\ P!Next /\ UNCHANGED <<queue, calendar, ledger, cost, answers, pages, box, place, landing, words, asked>>
       \/ part = "landing" /\ R!Next /\ UNCHANGED <<queue, calendar, ledger, cost, answers, pages, box, place, photos, words, asked>>
       \/ part = "words" /\ N!Next /\ UNCHANGED <<queue, calendar, ledger, cost, answers, pages, box, place, photos, landing, asked>>

Spec == Init /\ [][Next]_everything

-----------------------------------------------------------------------------
\* The queue of a café (ikiku_favorite.py): whoever came later stands behind, and nobody shares a
\* place unless two came at the same moment.
QueueInOrder == part = "queue" => Q!TypeOK /\ Q!InOrder /\ Q!OnePlaceEach
\* The days of a booking (ikiku_booking.py): the map is withheld until the start and shown at work,
\* a job that is over is closed, and each check is asked when it is due.
CalendarKept == part = "calendar" => C!TypeOK /\ C!VenueWithheld /\ C!WorkIsDisclosed /\ C!Over /\ C!AskedInTime
\* The ledger (ledger.py): what a page says of a claim is what its votes said, with the weight of
\* their day, which no later change touches; nobody's standing comes from their own word.
VotesCount == [](part = "ledger" => L!TypeOK /\ L!Counted /\ L!StandsOnOthers) /\ L!Frozen
\* The cost of a period (ikiku_cost.py): it is recovered to the rounding, from those who used it,
\* at the rate the page shows, and a day is charged twice only where two periods overlap.
SharesAddUp == part = "cost" => S!TypeOK /\ S!Recovered /\ S!RateReads /\ S!DaysAddUp
\* The pages (portal.py, auth.py): once through the questions is one need, of the café it says; what
\* a worker wrote reaches the staff, and stays as it was when it was ranked; nobody is sent in circles,
\* or into a side they did not ask for; and everything people said that the standard does not know counts.
AnswersKept ==
    /\ part = "answers" => D!TypeOK /\ D!OneNeedEach /\ D!OwnPosition
    /\ part = "pages" => J!TypeOK /\ J!RankedKeeps /\ J!PagesSubmit /\ J!FreeOnce
    /\ part = "landing" => R!TypeOK /\ R!Settles /\ R!AskedFirst /\ R!BackOffice
    /\ part = "words" => N!TypeOK /\ N!EveryWordCounts /\ N!ThreeQueue /\ N!OneRowEach
\* What a page says without remembering anything (portal.py, jalali.py, spec.py): a place is one the form
\* may offer, a span of days the one that was said, and of the standard what the country lets be seen.
PagesReckon ==
    /\ part = "where" => /\ W!Offered(asked.tree, asked.mode, asked.form, asked.found)
                         /\ asked.mode = "area" => W!AreaOrWhole(asked.tree, asked.form, asked.found)
    /\ part = "standard" => /\ U!DecidedDownTheTree(asked) /\ U!LinksOpen(asked) /\ U!ListedOnce(asked)
                            /\ U!NamedBothWays(asked) /\ U!CountsRollUp(asked)
    /\ part = "when" => DatesHold(asked[1], asked[2], T!jalali_date(<<asked[1], asked[2], 1>>),
                               T!jalali_month_days(asked[1], asked[2]) - 1)
\* A café that moves (ikiku_business.py): the needs that were at it are where it is, ranked for there.
NeedsFollow == part = "place" => M!TypeOK /\ M!GoesAlong
\* Photos (ikiku_photo.py, portal.py): what the door gives to others than the owner and staff, or a copy
\* still shows, was approved, and an owner keeps no more than they may.
PhotosReviewed == part = "photos" => P!TypeOK /\ P!OnlyApproved /\ P!WithinLimit
\* The box (search_suggest.js): the list is the answer to what is typed, a part never stands for the
\* whole, the sign of waiting ends with the waiting, and Enter chooses what was highlighted.
BoxTruthful == part = "box" => B!TypeOK /\ B!Settles /\ B!PartOnlyBefore /\ B!NotBusyForNothing /\ B!MarkStays
===============================================================================
