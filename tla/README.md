# ikiku in TLA+

A verification development for ikiku: Odoo add-ons in Python (`src/addons`) with which cafés and
restaurants in Iran find workers, and a Go service (`src/services/place_responder`) that answers
place searches. This file says what the system is made of, what is modelled, what the checks and
the proofs show, and what is left.

## 1. The system

### Parts, their state and their operations

| Part | Source | State | Operations | What makes it correct |
|---|---|---|---|---|
| SMS sign-in challenges | `ikiku_portal/models/mobile_challenge.py`, `controllers/auth.py`, `data/ikiku_otp_data.xml` | rows of `ikiku.mobile.challenge`: asker, number, state, plain code until it is sent, tries, wrong codes | `start` (ask, reuse, resend), the code page, `check`, `_cron_send` | the plain code is forgotten; guesses per number and day are bounded; no code that works is deleted; everything asked for is settled |
| Mobile-number ownership | `mobile_challenge.py`, `ikiku_base/models/partner.py`, `ikiku_portal/models/res_partner.py`, `staff_tools.py` | `ikiku_mobile`, its proof and who wrote it, on each partner; users | `_claim`, `_enter_account`, staff's account creation, role and number change | a proven number passes to nobody; staff accounts are never opened by SMS |
| Needs, proposals, bookings | `ikiku_demand`, `ikiku_match`, `ikiku_supply`, `controllers/portal.py` | needs, ranked proposals, availabilities, bookings | declare, open, change, close, rank, accept, book, flag, cancel, run out | no proposal on given-up terms or for a closed need; what a booking was made from is kept; nobody stays booked for nothing |
| Workers' profiles | `ikiku_supply`, `controllers/portal.py` | an account, its skills, its availabilities | the five pages, activate, rank, book | what was ranked stays as it was; a finished profile reaches the staff |
| Booking checks and calendar | `ikiku_match/models/ikiku_booking.py` | check rows with due dates, the booking's own days | schedule, confirm, fail, raise due checks, start and close | every due check is raised; bookings start and end; the venue is told on the day |
| Café queue | `ikiku_match/models/ikiku_favorite.py` | numbered entries per café | join, leave | a number is drawn once |
| Place follow-up | `ikiku_match/models/ikiku_business.py` | place of a business and of its open needs | move | open needs follow their business |
| Ledger and disputes | `ikiku_base/models/ledger.py`, `ikiku_match/models/ikiku_dispute.py` | assertions, verifications, disputes | verify, dispute, rule | an assertion's state follows its verifications |
| Spec tree, visibility, seasons, knowledge | `ikiku_base/models` | trees and tables | CRUD, promotion of candidates | acyclic tree; each field seen by whom the policy says |
| Cooperative cost | `ikiku_coop` | periods and shares | allocate, close | shares add up to the cost |
| Place graph | `place_graph` | tree of places, aliases, mirrored links, post codes, suggestions | edit, load a bundle, suggest, ratify | acyclic; a load keeps what people changed; links exist both ways |
| Place responder | `services/place_responder` | an index per language, a stamp, a queue of reload requests | reload, poll, swap, search | never half an index; every change is answered in the end |
| Search suggestions | `search_suggest` (Python, and JavaScript in the page) | an index of words per record; in the page, questions in flight and a list | narrow, rank; type, ask, fall back, choose | narrowing loses nothing the ranking finds; the list answers what is typed |
| SMS providers | `sms_otp`, `sms_kavenegar`, `sms_smsir` | delivery status per message | send, callback, poll | a final status stays |
| Photos, help requests | `ikiku_demand/models/ikiku_photo.py`, `ikiku_portal` | photos with their review, requests | add, approve, reject, remove, give | nothing unapproved is shown; limits per owner |
| Pages | `ikiku_portal/controllers` | the session: a need's draft, the side opened last | the need's five questions in several tabs, redirects, the answers to where and when | one need each time, no circle of redirects, a place and a day that were meant |

### How they interact

Every page and every button is one HTTP request and one database transaction; the server is
threaded (`tools/dev/odoo.conf`: `workers = 0`), so requests run side by side, and so do Odoo's
scheduled jobs. The parts share one PostgreSQL database and call each other directly:
`check` -> `_claim` -> `ResPartner.write` -> `_release_unproven`; `action_fail` ->
`action_flag_at_risk` -> `build_for_demand`; `action_accept` -> `IkikuBooking.create`. The sending
job is triggered by `start` and every five minutes, and commits after each SMS. The place graph's
triggers NOTIFY the responder on commit; Odoo's own search, the bundle tool and the responder each
read the same places and are meant to answer alike. A page asks the responder for suggestions and
falls back to Odoo.

### What is hard

Odoo's cursor is REPEATABLE READ: a request decides on the snapshot of its first query, and its
commit is refused, and the request run again, when it would overwrite a row that another
transaction has committed since. Decisions that read rows they do not write are **not**
protected: two requests can both pass a check neither would pass after the other (write skew).
This is the source of most of the hazards in `PROJECT.json`; the others are time (days that begin
at different moments, a job that is refused or stopped in the middle of its list) and pages that
are old when their button is pressed.

## 2. The modules

| Module | What it is |
|---|---|
| `Challenge` | the challenge table, requests in two steps (snapshot, commit), the sending job, a clock |
| `Numbers` | partner records and users, requests in two steps |
| `Ownership` | abstract: who has proven each number |
| `Matching` | needs, proposals, availabilities, bookings, requests in two steps |
| `Responder` | the place responder's reload loop, its listening connection, the statistics its poll reads |
| `Places` | the tree of places, its stored paths and a located record, under edits and bundle loads in two steps |
| `Neighbours` | which places touch, each pair as two rows, under edits and loads |
| `PlaceNames` | other names, post codes and suggestions, under edits and bundle loads in two steps |
| `Answers` | requests to the responder beside an install, with the cache of answers |
| `PlaceTables` | `Places`, `Neighbours`, `PlaceNames` and `Answers` side by side, with their properties |
| `PlaceRules` | `tools/tree.py` as operators: walks, paths, search texts, kinds; used by `Places`, `Bundle`, `Search`, `PlaceAnswer` |
| `Bundle` | a bundle's check, what the tool derives, what a first load writes, what the responder reads |
| `Search` | matching and ranking, what narrows them in the database and in the index, Odoo's and the responder's searches of places |
| `MCPlaces` | `PlaceTables` on a small instance, and every bundle and search of a small set |
| `Queue` | the queue of one café |
| `Calendar` | a booking's checks, its days and what the open web is told |
| `Ledger` | claims, votes and standing |
| `Cost` | a period's cost divided over bookings |
| `NeedDraft` | announcing and changing a need in several tabs |
| `Joining` | a worker's pages, beside ranking and booking |
| `SearchBox` | the suggest box in the browser |
| `Follow` | a café that moves with its needs |
| `Photos` | uploads, review, the door and the copies it allows |
| `Landing` | sign-in and redirects |
| `Candidates` | what people said that the standard does not know |
| `PlaceAnswer` | the answer to "where" of a form |
| `Dates` | Jalali dates, and the answer to "when" of a form |
| `Standard` | the standard's pages, tiles and cards under a country's rules |
| `Office` | the last fourteen side by side, with their properties |
| `MCOffice` | `Office` on a small instance |
| `MCChallenge`, `MCNumbers`, `MCMatching`, `MCResponder` | symmetry sets and constraints for TLC |
| `Numbers_proofs`, `Responder_proofs`, `Matching_proofs`, `Challenge_proofs` | theorems about the module each is named after |
| `Places_proofs` | theorems about `Places`, and about `PlaceTables` |
| `Office_proofs`, `Pages_proofs` | theorems about `Office`: what surrounds a match, and the pages that remember something |
| `BoundedInduction` | induction, recursion and running totals on the numbers up to a bound, as the proofs use them |

`PlaceTables` and `Office` hold several components that share no state. A variable `part`, chosen in
the initial state, says which of them moves; the variables of the others keep their initial values.
What is pure (`Bundle`, `Search`, `PlaceAnswer`, `Dates`, `Standard`) has one state per case, in which the
property compares the definitions.

### Transactions

`Challenge`, `Numbers` and `Matching` share one way to model a request. An action named after the handler
reads the tables as they are (the snapshot), takes every decision the handler takes and leaves
what it will write in a variable (`flight[r]`, `work[w]`, `work[a]`). `Commit` writes it all;
whoever meant to write one of the same rows loses `clean` and can only be refused (`Refuse`,
`Abort`), after which its handler may start again - Odoo's retry. `Commit` also checks the UNIQUE
constraints: one holder per number (`Numbers`), one proposal per need and worker (`Matching`).
Two things are taken from Odoo and PostgreSQL rather than from `src`, and marked external in
`PROJECT.json`: that snapshot-and-refusal rule, and that every ORM `write()` updates its row
(`write_date`) even when it stores the values that were there. `FreshRanking` and `NothingWaits`
depend on the second: it is because `build_for_demand` writes `demand.state = 'proposed'` on a
need that is `proposed` already that it collides with a change or a closing of the need. The
insert of a row that only refers to another by a foreign key takes a KEY SHARE lock and collides
with nothing; so a booking does not collide with a closing.

### Challenge

`challenge` is the table, `last` its id sequence, `flight` the requests under way, `cron` the job:
its list read at the start, the row it is busy with, whether that row has been written by
somebody else since. An asker is a browser session (purpose `enter`) or a signed-in account
(purpose `verify`), and may have several requests under way: two devices, a button pressed twice.
`Ask` is `start` with a new row, `Reuse` is `start` when a code that works is
moved to another browser, `Page` is `_payload` when it settles something, `Submit` is `check`. The job is
`JobStarts` / `JobReads` (read a row, and the code that goes out), then one of `JobGivesUp`
(waited too long), `JobSettles` (the provider accepted or refused), `JobDies` (the commit was
refused or the server stopped, the SMS out or not), and `JobEnds` (delete what is older than
`KEEP`). Which codes a person can type is `delivered`: the ids whose code was in an SMS. `guesses`
is a history variable: wrong codes accepted for counting, by number and moment; a row's `seen` is history
too: the newest challenge that its question could see. `CountedSince` is the sum `_locked` asks the database for.

Two `start` of one account that overlap write no row in common, so both leave a queued challenge.
`OneQueuedPerAccount` says that nothing else does: of two codes queued for an account, the later one's
question read the table before the earlier challenge was there.

Left out: wording, provider ids, the failure key; the login token after a proven code (`Numbers`
has its effect); a request that changes nothing. `taken` (is the number proven elsewhere?) is
`Numbers`' business and is any Boolean here. Ids are never reused, and two codes never coincide.

### Numbers

`partner` maps each account to its number, whether it is proven and whether staff wrote it,
`user` to the kind of user it has, `open` is the accounts a browser is signed in to. `Claim` is
`_claim`; `EnterProven`, `EnterWritten` and `EnterNew` are the three cases of `_enter_account`
with `_portal_user_for`; `StaffCreate`, `StaffRole` and `StaffChange` are the three wizards of
`staff_tools.py`; `Archive` is Odoo's own. `Rewrite` is what `ResPartner.write` does to the proof
and to "written by staff" when the number changes. Requests that are turned down are no actions.

### Matching

`demand`, `proposal`, `availability` and `booking` are the tables. `Declare`, `Change` and `Fail`
end with `build_for_demand`, which is `Candidates` + `Ranked` + `Marked`. What makes an open
availability fit a need - dates, place, kind of work, an active worker who does not hold the
business - is any set of workers `fit`, chosen anew at each ranking, so the properties hold
whatever the filter says. `Accept` has no guard beyond the proposal's existence, as in the code.
`Book` is a booking made in its form, without an availability. `Fail` is `action_fail` /
`action_flag_at_risk`. Left out: a worker with several availabilities, `in_progress` (it is
`confirmed` here), checks as rows (`Calendar` has both), staff's free edits in forms.

### Responder

The place responder is one goroutine, `loop`, that keeps the index current with an Odoo database:
`Connect` (a new session LISTENs, then loads), the cases of its `select` (`Heard`, `Due`, `Asked`,
`Poll`, `Broken`), and a load in its steps: `Snapshot` (the transaction's first query), `ReadStamp`
(its last), `Install`, or `Fail`. Beside it run the goroutine at the connection's end (`Hear`, with
its channel of one place, `notified`), people who ask (`Request`), the timers (`Tick`; `quiet` is
the debounce timer, `pending` the time since the burst's first notification), and the database:
`Change` commits and announces, `Touch` announces a statement that changed no row, `RollBack` is
counted and not announced, `Count` is the statistics collector catching up, `Relanguage` changes the
installed languages, which nothing announces, `Drop` loses the connection and what is on the wire.
`version` stands for the contents of the place tables, `served` is the index (the version and
languages it was built from), `stamp` what `odooStamp` gave for it. `missed` is a history variable.

What a search sees while `install` swaps, and the cache of answers, are `Answers`. Left out: the
loop over bundle files (`runBundle`), the ranking spec (announced as places are, seen by the stamp as languages are), and
the waiting time between two sessions.

### Places

`node` is `place.node`: each row's own fields, who it came from (`origin`), which imported fields a
person took over (`kept`), and the stored columns `up` (`parent_path`) and `index` (the path it reads
as and the texts it is found by). `spot` is one `place.located` record with its stored city. Requests
have a snapshot and a commit, as above. `Rename`, `Move`, `Archive` and `Add` each end with what the
code recomputes: `Recompute` of the rows below, as `_compute_index` and `_parent_store` do, and the
city of the record when its own place moves. `Load` is `place_load` from end to end: update what no
person decided, insert, retire, rebuild every row that is `Stale`, refresh the records. It never
starts when the fingerprint is the one of the last load, unless forced.

### Neighbours and PlaceNames

`link` maps each ordered pair to its row. `Create`, `Relate`, `Repoint` and `Remove` are `create`,
`write` and `unlink` of `link.py` with the mirror they write; `Load` is the part of `place_load` about
links. In `PlaceNames`, `Learn` and `Settle` are `postcode.py`'s learning from people, staff's answers
and imports with their order of trust (`Best`); `LookUp` and `Suggest` are the two halves of
`suggest`, which can overlap; `Ratify`, `Reject` and `Reopen` are staff's. The rest of the load is in two
steps: `Read` takes the lock and decides what to add, change and remove (`reading`), `Load` writes it to the tables
as they are by then, unless somebody has written one of its rows (`Overtaken`) or a UNIQUE refuses a row it
adds; `LoadFails` is a refusal, or a server that stops. The advisory lock holds off other loads only, so there
is one load at a time and people's requests beside it; a load whose snapshot is older than another's commit
writes the same fingerprint and is refused, which is `LoadFails` too.

### PlaceRules, Bundle and Search

`Bundle` has the three readers of one file. `Derive` is the tool's (`bundle.py`); `Loaded` and
`Refreshed` are what the loader inserts and computes (`place_load.py`, `place.py`); `ReadBundles` and
`Indexed` are the responder's (`data.go`, `index.go`). `Search` has texts as sequences of words, words
as sequences of letters, and scores as exact fractions, rounded where the code rounds. `Attempts`,
`Answers` and `Suggest` are Odoo's way (`suggest_mixin.py`: ask the index for the starts of words,
then for pieces, then read the table, and stop when there is enough), `Candidates` and `SearchPlaces`
the responder's. Left out: folding characters to one spelling, and highlighting.

### Answers

A request reads the fallback language, then the map of indexes, then the cache, then waits for one of
`Busy` places, searches and stores its answer: a step each. `Build`, `StoreFallback` and `StoreIndexes`
are `install`. `torn` records the one data race: two searches that sort one shared slice at once.

### Queue, Calendar, Ledger, Cost

`Opens` is a joining request's snapshot and `Joins` its commit: the café's row is locked, but after the
snapshot, so the `MAX(sequence)` is the snapshot's. `Calendar` counts days: `RaiseDue` and `Move` are
the two daily jobs, run at any moment of a day or not at all; `Told` is `public_payload`. In `Ledger` a
vote keeps the weight of its day; `Correct` and `Rewrite` are what staff can edit, and `Computed` is
`_compute_strength` with the state that sticks. In `Cost`, `Allocate` may run again after the cost and
the bookings (`Changes`) changed; `Rounded` is the currency's rounding.

### NeedDraft, Joining, Follow, Photos

`NeedDraft`'s session holds one draft; `Opens` reads it and `Ends` writes it whole, which is how Odoo
saves a session, so of two tabs the later wins. `Who`, `Says`, `For`, `Where` are the five questions,
`Edit`, `Close` and `Name` the café's other pages. `Joining`'s five pages (`Name`, `Skills`, `Where`,
`When`, `How`) and `Rank` are requests in two steps; `Activate` and `Book` are staff's. `Saved` is
`_after_worker_save`, which every page ends with. `Follow`'s move is in two steps (`Begin`, `End` or
`Fails`); `Upgrade` is the one-time migration that gives a café the place of its last need. In `Photos`
an upload is in two steps; `Gives` is the door's guard, and `Look` hands out a copy that may be shown for `MaxAge`.
`OnlyApproved` asks the door itself whom it would give each photo, and the copies what they still show.

### SearchBox

One action per callback of `search_suggest.js`: a key, the timers (`Fetch` after the delay, `AsksQuick`,
`BusyShows`), the answers and failures of the full and of the quick question, arrows, `Closes`. Answers
come in any order. `question` keeps the address each was sent to.

### Landing, Candidates, PlaceAnswer, Dates, Standard

`Landing`'s `Answer(page)` is the page's own address, or the one it sends to; `Follow` is the browser.
`PlaceAnswer`'s `Answer` is `_place_from_post`. `Dates` has both conversions of `jalali.py`, as chains of
small operators over the cycles of days the code divides by, `read_dates` and `dates_values`.

`Candidates`' `Record`, `Promote` and `Sets` read a snapshot and `Commit` writes the row; `Ends` is a
refusal. In `Standard`, `Withheld` is `ikiku_hidden_ids`; `RolesPage`, `Tiles`, `Card`, `SkillsOf`,
`RolesOf`, `RestsOn` and `Count` are what the pages, the tiles and the cards list, by the tree, the rules
and the links given as a case.

## 3. What the runs show

| Run | Module / cfg | Question | Instance |
|---|---|---|---|
| `challenge` | `MCChallenge` / `Challenge.cfg` | is the code forgotten, is one code of an account queued, are guesses bounded, is no working code deleted, is nothing proven when locked | 2 accounts, 1 number, 2 requests at a time, 2 challenges, 7 ticks, a day of 3 ticks; 0.79 M states |
| `challenge_live` | `MCChallenge` / `ChallengeLive.cfg` | does every queued challenge end | 2 browsers (so a code is used again), 2 requests at a time, 2 challenges, 2 ticks; 0.26 M states |
| `challenge_reuse` | `MCChallenge` / `ChallengeReuse.cfg` | is a reused code the one the page checks (**no**) | 2 browsers, 2 numbers, 3 challenges |
| `challenge_replaced` | `MCChallenge` / `ChallengeReplaced.cfg` | does a replaced challenge stay out of use (**no**) | a browser and an account, 3 challenges |
| `numbers` | `MCNumbers` / `Numbers.cfg` | staff accounts, unproven holders, refinement of `Ownership` | 3 accounts, 2 numbers, 2 requests at a time; 1.0 M states |
| `numbers_written` | `MCNumbers` / `NumbersWritten.cfg` | does a number staff wrote open that account (**no**) | 2 accounts, 1 number, 1 request |
| `matching` | `MCMatching` / `Matching.cfg` | rankings, closings, accepted proposals, stuck workers | 1 need, 2 workers, 2 terms, 2 bookings, 2 requests at a time; 0.2 M states |
| `matching_closed` | `MCMatching` / `MatchingClosed.cfg` | is a need with a live booking left alone (**no**) | 1 need, 1 worker, 1 booking |
| `responder` | `MCResponder` / `Responder.cfg` | is a notification lost between the burst, the timer and a running load; is every change served in the end, however many notifications come and connections drop | 2 languages, debounce and maximum wait of 2 ticks, 1 change; 0.14 M states |
| `places` | `MCPlaces` / `Places.cfg` | do loads leave what people decided, give the rest, and fail only over what was written meanwhile; does every place read as the tree says, a pair of neighbours say the same from both sides; is every suggestion counted once; is every answer its own index's; do Odoo, the bundle tool and the responder agree on bundles and on searches | below; 0.45 M states |
| `office` | `MCOffice` / `Office.cfg` | the promises of the fourteen components around a match, one property each (`AnswersKept` has the pages that remember something and the words, `PagesReckon` what a page works out) | below; 1.1 M states |
| `responder_stale` | `MCResponder` / `ResponderStale.cfg` | is every change served in the end even if a reload fails, thanks to the poll (**no**) | 1 language, debounce 2, maximum wait 3, 1 change |

### Bounds

*Challenge.* A tick is `RESEND_AFTER`; the wait and a run of the job are one tick, the hour and the
day three, with one code an hour: only their order matters (`TimesAssumption`). The two requests may be of
two accounts or of one, which is what the guesses, the queue and a lost snapshot need; codes that move from one browser to
another are in `challenge_live`. `MaxTime` 7 lets a challenge be queued,
sent late, live its day, and be old enough to be deleted (`Keep` is 6) while another is under way.
Two challenges are enough for the job to have a list whose second row changes while it is busy
with the first; 2 tries and 2 wrong codes a day make both limits bite. With three rows, or two
numbers, the first run no longer ends in minutes; the two runs with three rows are those that need
them. *Numbers.* A property here relates at most two accounts and one number, and a third account
is the one a stale decision forgets; two numbers let an account move from one to the other.
`FewOpen` keeps one account signed in at a time, and only `open` is affected by it. *Matching.* All
guards are about one need; two workers, so that a ranking can add somebody beside an accepted one;
two bookings of one worker are what `NobodyStuck` is about; two terms suffice to tell new from old.
Two requests at a time: a refused request only depends on whoever commits before it.
*Responder.* A debounce of two ticks can be put off by a notification in its middle, and the
maximum wait (two or three) ends a stream of them. One change is enough to be missed: the
properties speak of each version by itself, and notifications (`Touch`), reloads and sessions are
without bound. Two languages give a stamp that differs where the counters do not.

*Places* (`places`). The tree: two cities, one of which has two names, and a district that moves
between them or is put under nothing; two requests at a time, two edits, two bundles that differ in
names, parents and places. That is enough for a rename above a place, a move of it and a load in every
order. Neighbours: three places, so that a pair can be re-pointed, four edits, two bundles.
Names: two places, two names, one prefix, two visitors, three acts, one load at a time beside them; hits stop mattering at
`LEARNED_OVER_IMPORT` and are capped past it. Answers: two clients, a cache of one answer and two
searches at a time, two loads that differ in their default language, and a query that reads like a
post code. Bundles: every sequence of up to three places of a set with every parent (circles and forward
references too), with four sets of aliases and of links. Searches: texts of one or two of eight words, over
twelve trees of four places; no instance reaches `CANDIDATE_LIMIT` or `SHORTLIST`.

*Office* (`office`). Queue: three people of whom one owns the café, two requests, four entries.
Calendar: six days, a job of one day, of two, and without an end, two checks. Ledger: three people, one
of whom speaks of two, and two corrections. Cost: two periods that share a day, four bookings that cross them
or have no end, a cost of 10 that three do not divide. Need's draft: two cafés, two tabs, two needs,
two times through the questions. Worker's pages: a neighbourhood and its city, two days, two
requests that overlap, two availabilities. Box: two texts whose answers share a result, four keys,
three questions: a text typed, left and typed again while its first question is out. Follow: two places, two hints, two needs, one move (which is atomic
against a second by the row it writes). Photos: two owners with room for one photo, two photos, a
copy that lives one tick. Landing: every account there can be, three addresses opened; a third redirect
would be the violation. Where: trees of four rows, every form a browser can send, every answer a search
can give. When: the months of sixteen years - on both sides of Jalali leap years after four and after
five years, and of the Gregorian years 2000 and 2100 - with every day typed, and every pair of buttons.
Words: two texts said four times by two requests, one act of staff's. Standard: two families of a
standard with roles and skills below, withheld and let back at every depth, one role a button.

### Fairness

Three runs state any. `challenge_live` (`FairSpec` of Challenge): a request ends (`WF` on its commit or refusal), the
job is run again and again (it is triggered and scheduled every five minutes: `WF` on its steps),
and it is not cut off at every single SMS for ever (`SF` on settling a row). Without the last the
code has no answer to give: a server that stops at each SMS never settles one. No fairness is
assumed of any person. The clock's `Tick` is not fair, so the result does not lean on time passing.

`responder` (`FairSpec` of Responder): time passes and goroutines run (`WF` on `Tick`, `Hear` and
`Loop`); Go's `select` chooses at random among the cases that are ready, so it does not pass over
the debounce timer for ever (`WF` on `Due`, by itself); and the database does not refuse every load
for ever (`SF` on `Snapshot` and `ReadStamp`) - it may refuse any number. The poll is not needed
there. `responder_stale` adds it (`PolledSpec`): the poll's ticker is never passed over for ever (`SF` on
`Poll`) and the statistics catch up (`WF` on `Count`). The property fails although all this is assumed.

### Deadlock

`CHECK_DEADLOCK FALSE` in the Challenge runs, because the clock ends at `MaxTime`, and in `places` and
`office`, because parts end at their bounds and a pure case is asked once. `Numbers`,
`Matching` and `Responder` run with deadlock checked.

### Where the code and its texts disagree

1. `challenge_reuse` - `start`'s docstring: a reused code "moves to this browser session, so a code
   typed the next day in another tab still opens the account". The page takes the session's newest
   challenge; if the session has asked for a code for another number since, that is the one checked.
2. `challenge_replaced` - "A forced resend replaces it, so only the last code ever works." The job
   writes `sent` over a row that a resend set to `expired` after the job's list was read. (The code
   itself was cleared, so the SMS goes out empty.)
3. `numbers_written` - the help of `ikiku_mobile_set_by_id` says whoever has the SIM and types the
   code enters that very account; an account that is signed in and claims the number takes it away.
4. `matching_closed` - "A need with a live booking is not changed or closed here". The look for
   bookings and the commit are two moments, and a booking made in between collides with neither.
5. `responder_stale` - `odooStamp`'s comment: the poll is "a safety net under LISTEN/NOTIFY" whose
   price is "one reload, never a stale answer". The stamp is read after the rows, from counters that
   are in no snapshot. A change that commits after the snapshot and is counted before the stamp is in
   the stamp and not in the index; if the reload that its notification asks for fails, every later
   poll finds nothing to do. A version whose stamp was read before the rows would only reload once
   too often.

### What the models show beside

Met while translating the code, and reached by the models or written into their guards. None has a
run of its own; where a property would fail because of one, the property's comment names the exception.

*Places.* Two moves at once, or a load over a move by hand, can make the tree cyclic past
`_check_acyclic` (place.py:129, place_load.py:209). A rename above a place that moves at the same time leaves its
stored path stale until a load that runs alone (place.py:112; `raced`). A located record's city stays
when a place above it is moved by hand (located.py:64; `redone`, which exempts that
record from then on). Re-pointing one row of a pair leaves its
mirror behind, and no load heals it (link.py:58; `bent`). Reopening a suggestion, or two visitors at
once, leave two rows waiting (suggestion.py:143). Confirmations of an imported post code are reset by
a load (place_load.py:328). A bundle's digest is read apart from its data (place_load.py:95). A name added, renamed or
ratified, or a post code learnt, while a load runs gets the whole load refused by UNIQUE, and with it the
update it runs in (place_load.py:229, :252, :322, :337; `reading`).

*Codes.* Two `start` of one account at once, from two devices or a button pressed twice, leave two queued
challenges, and the job sends both codes (mobile_challenge.py:217; `seen`).

*Searching.* The responder sorts rows of its index in place, though "Index is immutable once built"
(index.go:56, :600; `torn`). An answer's key is made of the query's words and its post code of the raw
query, so two spellings can share a key (server.go:125; `Ambiguous`). When the default language
changes, a request between install's two stores finds no index (state.go:108). Inside `within`, Odoo
lifts what matched and the responder what it answers with (`Leaves`). Odoo's suggestions do not answer post
codes. Odoo stops at the first attempt with enough rows, which may be weaker ones (suggest_mixin.py:169).

*The box.* A quick question that fails first sends the box to the fallback, and the full question that
fails after it is not asked there, against the comment at search_suggest.js:19. A full question that
fails after a part has come leaves the list "waiting" (js:227). A late answer opens a list again
that lost the focus (js:134). The first ArrowUp goes to the last but one (js:258).

*Around a match.* Two people who join at once draw one number, and one person can be in a queue
twice, though ikiku_favorite.py:47 says otherwise (`OnePlaceEach`). A booking without an end is never
started by the job (ikiku_booking.py:237), and one at risk never ended; checks keep their due days when staff
change the dates (:153), and the venue stays as stored (:79). A claim becomes "supported" by votes of no weight
(ledger.py:95), and keeps the state a corrected verdict gave it (:92). Nothing keeps two periods from
overlapping, and a day in both is charged in both (ikiku_cost.py:97). Shares rounded one by one may
sum above the cost (ikiku_cost.py:124), a cost changed after the division leaves them, and a new
division forgets which were paid (:104). A need announced while its café's move is under way, or
booked at that moment, stays behind (ikiku_business.py:83); clearing a café's place fails while an open
need is at it (:96). `place_hint` is dropped by a change (ikiku_demand.py:17). The answers of a change to one
café's need, turned to another café, move the position and not the need (portal.py:977; `aimed`). Three
pages of a worker that overlap can leave a finished profile in draft, or two availabilities for a day
(portal.py:282). A photo taken back lives on in caches for a day, though ikiku_photo.py:13 calls the door
the only one; two uploads at once, or a late approval, exceed `PER_OWNER`. A post code may answer a place
that is archived or of a kind not offered (portal.py:145), and an area above a street one that is archived (:141).
The select of years has this year and the next only (common.py:126), so a span that ends later is shown
with another year, where `dates_values` says what "read_dates would need to give back these dates".

*The standard.* The tiles leave out a role that a rule lets back under a family that is withheld, though
their docstring promises every role on offer; a rule above a withheld node that says "offered" lets it
back; and roles and skills that are archived are still listed, though their page does not open
(`LinksOpen` asks of the active ones).

## 4. What is proved

Each theorem holds for every value of the constants that satisfies the assumptions named with it; TLC
evaluates those assumptions at the start of every run. Each states a property that a run checks on a
small instance, except where the table says otherwise. `Inv` stands for the inductive invariant in
whose proof the work is; `Spec => []Inv` is a theorem of each module.

### Numbers (`Numbers_proofs`)

From `NoneAssumption`: the empty value is no account and no number.

| Theorem | States |
|---|---|
| `TypeCorrect` | `Spec => []TypeOK` |
| `StaffSafe` | `Spec => []StaffNeverOpened` |
| `ProvenSafe` | `Spec => []OnlyUnprovenGiveWay` |
| `Implements` | `Spec => Owned`: Numbers implements Ownership |

None of the last three is inductive as it stands, because a commit writes what was decided
earlier. `Inv` adds what every running transaction satisfies (`TxOK`): it gives a number to one
account at most and clears the others it writes; the accounts it signs in were no staff accounts;
the records it writes exist or are its own. It also adds `OneHolder`, the UNIQUE constraint as an
invariant. The argument: what a transaction found about the records it will *write* still holds
as long as it is `clean` (nobody has written them since), and UNIQUE covers the records it will
not write. So a commit that proves a number takes it from nobody who has proven it. Each handler
has a lemma (`ClaimStarts`, ...) that its transaction is of that shape; `StartKeeps`,
`CommitKeeps` and `AbortKeeps` preserve `Inv`; `CommitRefines` shows a commit is a step of
`Ownership` or a stutter.

### Matching (`Matching_proofs`)

From `BoundAssumption`, `NoneAssumption` and `DesksAssumption` (there are finitely many desks, so that
the bookings under way can be counted against `MaxBookings`).

| Theorem | States |
|---|---|
| `TypeCorrect` | `Spec => []TypeOK` |
| `RankedOnTheTermsThereAre` | `Spec => []FreshRanking` |
| `NobodyWaitsForAClosedNeed` | `Spec => []NothingWaits` |
| `AcceptedProposalsStay` | `Spec => []AcceptedStays` |
| `NobodyStaysBooked` | `Spec => []NobodyStuck` |

`Inv` says of a transaction that may still commit that it writes, with every row it changes, whatever
its decision was about: who is ranked is ranked for a need it saves (`RanksWhatItSaves`), a need whose
terms it changes or which it closes takes every waiting proposal along (`EndsWhatItOutdates`), a booking
it cancels takes the worker's availability along (`FreesWhatItCancels`). A second transaction that would
make one of these decisions wrong writes a row of the first, and the later of the two is refused.

### Challenge (`Challenge_proofs`)

From `AskersAssumption` (browsers are no accounts; finitely many requests at a time), `TimesAssumption`
and `LimitsAssumption`.

| Theorem | States |
|---|---|
| `TypeCorrect` | `Spec => []TypeOK` |
| `CodeIsForgotten` | `Spec => []CodeForgotten` |
| `OneCodeQueued` | `Spec => []OneQueuedPerAccount` |
| `NeverDeleted` | `Spec => NeverDeletedWhileItWorks`, an action property |
| `BudgetHolds` | `Spec => []GuessBudget` |
| `LockedProvesNothing` | `Spec => NoProofWhenLocked`, an action property |

`Inv` says that what a request will write is in order whatever happened since its snapshot (`Means`),
that a question of an account under way ends every challenge of it in the queue that it saw (`EndsEarlier`;
what it could not see is the exception `OneQueuedPerAccount` names), and
that the job sends a row within `WaitLimit + CronLimit` of its question (`JobInTime`). `NeverDeleted`
is arithmetic on the last: a code lives `CodeTTL` from its SMS, and `Keep` is longer than both together.

`CountInv` adds what the last two need. A request that may still commit finds every row it writes as it
read it, and counts one wrong code at most (`PlansCount`); a code is typed within its day, so a row that
is deleted has counted nothing in the span (`TriedInTime`). Then, from *every* moment of the span on
(`BudgetKept`; the moment `now - SureSpan` alone is not inductive, since the clock moves it): the rows
count no fewer wrong codes than were typed, and those typed, with the requests under way that may add
one (`Guessing`), are within the limit and its allowance. A request becomes one of `Guessing` when it reads
fewer than `MaxWrongPerDay`, and there are no more of them than requests; a commit moves one from `Guessing`
to the codes typed; a deletion takes none away. A code is taken by the commit of one of `Guessing`, which
is why the bound of `NoProofWhenLocked` is strict. The sums are `SumTo`'s, by the running totals of
`BoundedInduction`.

### Places (`Places_proofs`)

From `PlacesAssumption` (what a bundle says is about places it has, with names they may have) and
`RowAssumption` (a row, and what is stored with a record, is not the empty value). The places, their kinds and names, the bundles, the requests and the depth of the tree are any.

| Theorem | States |
|---|---|
| `TypeCorrect` | `Spec => []TypeOK` |
| `SourceFollowed` | `Spec => []FollowsSource` |
| `PeopleDecided` | `Spec => PeopleDecide`, an action property |
| `EveryPlaceReadsRight` | `Spec => []ReadsRight` |
| `CityIsTheTrees` | `Spec => []CityAsInTheTree` |

`Inv` says of a request that may commit that the rows it writes are made from the rows that are there
(`MadeFrom`), or say what its bundle says (`Says`), and that the rows a load leaves alone may be left.
`EveryPlaceReadsRight` needs two more: what a row reads as depends on the rows above it alone
(`DerivedReads`, `WalkAside`, by induction along the walk to the root), and a load that runs alone
rebuilds every stale row (`Rebuilds`).
`CityIsTheTrees` is about a record that stores what it read in the tree. `CityInv` adds to `Inv` that it is at
a place the tree has and its city is the tree's (`Located`), and so in what every request that may commit would
leave (`Told`): a rename or move above it is history (`redone`), and what writes elsewhere reads the same.

### The other tables of places (`Places_proofs`, second part)

From `LinksAssumption`, `NamesAssumption` (what is suggested, and what bundles say, is about places
there are) and `AnswersAssumption` (a load reads one language at least).

| Theorem | States |
|---|---|
| `TreeIsPlaces` | `TablesSpec => Spec`: beside the other tables the tree behaves as it does alone, so the theorems about `Places` hold of what the run checks |
| `TablesTyped` | `TablesSpec => []Shapes` |
| `SameFromBothSides` | `TablesSpec => []BothWays` |
| `LoadsFollowPeople` | `TablesSpec => []LinksFollow` |
| `OnlyTheRacedAreRefused` | `TablesSpec => []LoadsGoThrough` |
| `LoadsLeaveDecisions` | `TablesSpec => DecidedStays`, an action property |
| `EverySuggestionCounts` | `TablesSpec => []SuggestionsCounted` |
| `EveryAnswerIsItsOwn` | `TablesSpec => []Answered` |

*Neighbours.* `RemovedStays` is not inductive: that a removed pair is not shown does not say why no load
shows it again. `StaysGone` does: both its rows are there, imported, and somebody took their `active` over.

*Names.* `NamesInv` says that an imported row whose name nobody took over bears the name in its key; so a
load that writes keys' names back renames nothing. Its part `ReadingInv` says of a load that runs what it read
and carries: names to insert that nobody had, post codes to insert that had no row, and rows to change and
remove that still are what it read while nobody wrote them. So when it comes to write, of two rows with one name
(`NamesStandAside`), or of one place and prefix (`CodesStandAside`), one is its own and the other was not
there when it read. Of a request that is about to write a suggestion it says (`Writes`) that the row it read still
says what it read, for whoever wrote that row since refused the request; and, where it saw no row that
waits, that whatever waits of that by now was opened again or came later. That the rows add up to how
often a thing was suggested is about sums: `VotesAreTotals` relates the recursive definition to the
running totals of `BoundedInduction`, where one row that says so much more moves the total by as much
(`TotalsDiffer`), and a new row adds itself (`TotalsGrow`). The post code's answer stays (`AnswerStays`)
because a load keeps the rows that outrank an import, in their order (`CodesAfterIs`), and the ones it
adds or changes outrank none of them (`BetterOrders`).

*Answers.* `AnswersInv` says that what the cache holds was said by the index of the generation in its key
to somebody with the same words, and that the language to fall back to is the first one of a load since
the one served. The exceptions are those of the property: words that are two questions (`Ambiguous`) and
rows two searches put in order at once (`torn`).

### Around a match (`Office_proofs`)

From `CalendarAssumption`, `FollowAssumption`, `BoxAssumption`, `QueueAssumption` and `PhotosAssumption`
(days are numbers, the empty value is none of the rows, bounds are naturals), `LedgerAssumption` (claims are
made by people, with methods there are) and `CostAssumption` (costs are naturals, there are finitely many
bookings, days are numbers).

| Theorem | States |
|---|---|
| `QueueIsInOrder` | `Spec => []QueueInOrder` |
| `CalendarIsKept` | `Spec => []CalendarKept` |
| `NeedsGoAlong` | `Spec => []NeedsFollow` |
| `PhotosAreReviewed` | `Spec => []PhotosReviewed` |
| `BoxIsTruthful` | `Spec => []BoxTruthful` |
| `VotesAreCounted` | `Spec => VotesCount`, whose last conjunct is an action property |
| `SharesRecoverCost` | `Spec => []SharesAddUp` |

Each component has an invariant (`QueueInv`, `CalendarInv`, `FollowInv`, `PhotosInv`, `BoxInv`), which its
own steps keep and nobody else's touch. What they add to the properties: a joining request's snapshot is
below every number drawn since (queue); a job at work was started by its dates (calendar); a move under way
lists the needs that were there when it began, except those it will miss (follow); an upload under way
counted what was there, and a copy shows what was approved less than a day ago (photos);
the question in flight is the one whose answer the list waits for, and
what the cache says of a text is its answer (box).

*Ledger.* `LedgerInv` says that an assertion is what `Computed` makes of its votes with one of the methods it
may have had, and all of it where staff wrote nothing over it. Computing again changes nothing (`CountedAgain`),
so a vote, a correction and a rewriting each leave the next assertion of that form; that a step leaves
what a vote weighs (`Weighs`) comes out of the same cases, and gives `Frozen`.

*Cost.* That rounding costs at most half a unit a share is `Recovers`: every amount times all days differs from
the cost times its own days by at most half of all days (`RoundedIs`); the sums of these over any set of
shares, taken one by one, differ by as many halves as it has members (`SetInduction`); and all of them together
are the cost times all days, so that all days can be divided out (`Multiples`, since the product is of two
variables). Rounding keeps the order (`RoundedKeeps`). The days a booking is charged are as many as it has in the period
(`DaysAre`, `DaysCounted`), so for any two periods they add up to the days it has in one or the other
and, once more, those it has in both (`DaysHold`): none is lost, and none is counted twice unless the periods overlap.

### The pages that remember something (`Pages_proofs`)

From `DraftAssumption` (no café has the address of a question, the first of the cafés is one of them),
`JoiningAssumption` (a neighbourhood is something, days are integers) and `LandingAssumption` (nobody has
opened a side at first; `MaxHops` is 2 or more, and for 2 the theorem says most). Bounds are naturals.

| Theorem | States |
|---|---|
| `AnswersAreKept` | `Spec => []AnswersKept` |

Its four parts share no state, and each has an invariant that its own steps keep. A request here reads when it
begins and writes when it ends, so each invariant says what an open request may still rely on.

*The questions of a need.* `DraftInv` says of the session's answers (`Given`) that the need they edit is there
and of the café they name, unless the change was turned to another café (`aimed`), and that the time through
the questions they are of is not one a need came of, unless two tabs overlapped (`Fresh`). Of an open request (`Read`)
it says the same of what it read, which needs announced since do not disturb (`ReadStays`), and that the
one that will write a need has the position of the café it writes it for. So two needs are of two times
(`Apart`), which is `OneNeedEach`.

*A worker's pages.* `JoinInv` says that while nobody wrote under an open request, what it read is as it was
(`AsRead`); who ranks read an active worker; and a proposal's row is there. A row that was ranked is then changed
by a request that saw the proposal, and leaves it (`Referenced`), or by one that did not, which marks the proposal
`crossed`. That the pages send a worker on to the next question goes by the newest row of the ones they may still
change: there is one, as the order of rows is total (`OneAbove`).

*Where somebody lands.* `LandingInv` says how far everybody is from a page that is shown (`Soon`): after one
redirect at most one more, and after two none. It holds because a side one lacks is made at one address
(`/join`, `/business/name`) and the answer there is a page; and because only a worker has told everything
and nobody of the staff has a side.

*What the standard does not know.* `WordInv` says of an open request (`Heard`) that, unless it is to be refused,
the row it read still has the occurrences it read. A commit then moves the sum of one text's rows
by the one time it was said (`AllCount`, with the sums over finite sets of `BoundedInduction`).

### Responder (`Responder_proofs`)

From `TimesAssumption` (debounce, maximum wait and changes are naturals) and `NoneAssumption` (the empty
value is no number), for any set of languages.

| Theorem | States |
|---|---|
| `TypeCorrect` | `Spec => []TypeOK` |
| `ForgetsNothing` | `Spec => []NothingForgotten` |

Its `Inv` adds what the goroutine carries in each of its places (`Carries`), and that a stamp names the
languages of the rows it came with (`SameLangs`), because both are read in one transaction: that is
why a language is always found by the poll, as a counted change is not. `TypesKept`, `LangsKept` and
`NothingForgottenKept` have one step per action.

### How recursion is reasoned about

The library's induction theorems take an operator as a parameter, which the provers at hand cannot
instantiate. `BoundedInduction` gets the same from counting: a set of numbers below a bound has a least and a
greatest element, so a *set* that has 0 and, with each number, the next has them all (`Induction`), a
recursive function on 0..n exists (`Recursion`), and running totals exist, agree, and move with
one weight (`Totals...`). `Places_proofs` adds votes up with them, `Challenge_proofs` wrong codes. For finite sets it has the
same by their size: a *set of sets* that has {} and each set whose members can be taken out one by one has all
subsets (`SetInduction`), the sum that the library's fold chooses exists (`SumsExist`), does not depend on
which member is taken out first (`SumsAre`) and is one for equal summands (`SumsAgree`), and
a set on which some order is total has a greatest member (`OneAbove`). The models are written without `SelectSeq` and with recursive functions rather
than RECURSIVE operators, so that these lemmas reach them.

### What is model-checked only

- `QueueDrains` and `AnsweredUnlessFailed`: liveness under fairness.
- `PagesReckon` (Office): `PlaceAnswer`, `Dates` and `Standard` have no steps. It compares recursive
  definitions (walks up a tree, the days of months of many years) with others, over every case of a small set.
- `ProgramsAgree` (Places): three programs' readings of one file and two programs' searches, compared case
  by case; what a recursive definition computes for every input is induction over data.

## 5. Not modelled, and why

- Disputes (`ikiku_dispute.py`): staff set their states in a form; nothing calls `action_rule`.
- Help requests: two forms that create a row; nothing reads them but staff.
- The spec tree's overlays and work types: texts, and a table. (Candidates and what a country's rules
  withhold are `Candidates` and `Standard`.)
- The visibility table: read by the ORM at each field, with no state of its own.
- Seasons: `action_materialise` is called by no page, button or job. (Called twice for a year it makes two
  windows, and `factor_for` multiplies by both; a need's stored factor is not recomputed when windows change.)
- HTTP clients of the SMS providers, and their callbacks: an answer is a nondeterministic result of
  `JobSettles` in `Challenge`. Import of map data, developer tools: offline, without state; what an import
  writes passes `Bundle`'s check.
- The home page's shortcut that replaces the draft of a need (site.py:98), the reason of a rejection,
  templates, wording, text folding: strings and layout.
- Beside these, in parts that are modelled: an SMS that is out when its commit is refused goes out again
  (mobile_challenge.py:256; `JobDies` reaches it and no text promises otherwise); two portal users made at once for
  one account (:378); `runBundle`, whose loop is the one of `Responder` without a database.

## 6. The plan

Everything the runs check is proved but what *What is model-checked only* lists. What could come next:

1. `PlaceAnswer` and `Standard` (in `PagesReckon`): their walks up a tree are those of `Places_proofs`, so that
   `Offered` and `DecidedDownTheTree` could be proved for every tree that ends within a bound.
2. The refinement of the queue, of a booking's days and of the ledger to specifications of what each promises, as
   `Numbers` has in `Ownership`.
3. Disputes and help requests, once something in the program acts on what is written there.
