------------------------------ MODULE Challenge ------------------------------
(***************************************************************************)
(* The life of a sign-in code: ikiku.mobile.challenge of the addon         *)
(* ikiku_portal.  A visitor (a browser session) or a signed-in account     *)
(* asks for a code for a mobile number, a background job hands the code to *)
(* the SMS provider, the number's owner types it back.                     *)
(*                                                                         *)
(* Requests and the job are database transactions that see the snapshot    *)
(* of their first query (REPEATABLE READ): a request is two steps, the one *)
(* that reads and decides (its flight) and the one that commits.  A commit *)
(* that would overwrite a row another transaction has changed since is     *)
(* refused, and the request is run again from the start.                   *)
(*                                                                         *)
(* Two codes never coincide here; wording, providers' ids and the failure  *)
(* key a page shows are left out.  A request that is refused, or shown the *)
(* code it asked for a moment ago, changes nothing: it is no action.       *)
(***************************************************************************)
EXTENDS Integers, FiniteSets, FiniteSetsExt

CONSTANTS
    Mobiles,            \* numbers, already normalised
    Sessions,           \* browsers nobody has signed in from: purpose `enter'
    Partners,           \* signed-in accounts proving a number: purpose `verify'
    Requests,           \* requests under way at once, of whoever
    Idle,               \* no request under way
    ResendAfter, WaitLimit, Hour, CodeTTL, MaxTries, MaxWrongPerDay, MaxSendsPerHour,
    CronLimit,          \* how long one run of the job lasts at most
    MaxRows,            \* bound: challenges ever created
    MaxTime             \* bound: the clock

Askers == Sessions \cup Partners

ASSUME AskersAssumption ==
    /\ Sessions \cap Partners = {}
    /\ IsFiniteSet(Requests)
ASSUME TimesAssumption ==
    /\ {ResendAfter, WaitLimit, Hour, CodeTTL, CronLimit, MaxRows, MaxTime} \subseteq Nat
    /\ ResendAfter <= WaitLimit /\ WaitLimit <= Hour /\ Hour <= CodeTTL
    /\ WaitLimit + CronLimit < CodeTTL
ASSUME LimitsAssumption == {MaxTries, MaxWrongPerDay, MaxSendsPerHour} \subseteq Nat \ {0}

\* CODE_TTL, WRONG_WINDOW and the day added in KEEP are all 24 hours.
WrongWindow == CodeTTL
KeepOneDay == CodeTTL                              \* mutant: the code's own day forgotten
Keep == CodeTTL + CodeTTL
Never == -1             \* a date that is not set

VARIABLES
    now,
    challenge,          \* the table: id -> row
    last,               \* the id sequence: the newest id
    flight,             \* each request between its snapshot and its commit
    cron,               \* the sending job
    delivered,          \* ids whose code went out in an SMS
    guesses             \* wrong codes accepted for counting: number -> time -> how many

vars == <<now, challenge, last, flight, cron, delivered, guesses>>

State == {"queued", "sent", "failed", "done", "expired"}
\* `seen' is history: the newest challenge the question that created the row could see.
Row == [asker : Askers, mobile : Mobiles, state : State, pending : BOOLEAN, tries : 0..MaxTries,
        wrong_count : Nat, last_wrong_at : Int, queued_at : Nat, sent_at : Int, seen : Nat]
Ids == 1..MaxRows
Time == 0..MaxTime

\* What a request will write: rows it changes, the row it creates.
IsTx(tx) ==
    /\ DOMAIN tx = {"writes", "create", "clean"}
    /\ DOMAIN tx.writes \subseteq 1..last
    /\ tx.writes \in [DOMAIN tx.writes -> Row]
    /\ tx.create = {} \/ \E c \in tx.create : tx.create = {c} /\ c \in Row
    /\ tx.clean \in BOOLEAN

NewestOf(S) == IF S = {} THEN 0 ELSE Max(S)
ExpiresAt(c) == c.sent_at + CodeTTL

-----------------------------------------------------------------------------
(* What the code reads *)

\* _latest
Latest(by) ==
    NewestOf({i \in DOMAIN challenge : challenge[i].asker = by /\ challenge[i].state # "done"})

\* _reusable
StillWorks(c) ==
    /\ c.tries < MaxTries
    /\ \/ c.state = "sent" /\ ExpiresAt(c) > now
       \/ c.state = "queued" /\ c.queued_at > now - WaitLimit
MayReuse(by, c) == IF by \in Partners THEN c.asker = by ELSE c.asker \in Sessions
Reusable(by, m) ==
    NewestOf({i \in DOMAIN challenge :
                /\ challenge[i].mobile = m
                /\ MayReuse(by, challenge[i])
                /\ StillWorks(challenge[i])})

\* mutant: the limit counted per code, not per number
LockedByOneCode(rows, m) ==
    \E i \in DOMAIN rows : /\ rows[i].mobile = m
                           /\ rows[i].wrong_count >= MaxWrongPerDay

\* weight[1] + .. + weight[n].  A recursive function, so that it can be reasoned about.
SumTo(weight, n) ==
    LET up[k \in 0..n] == IF k = 0 THEN 0 ELSE up[k - 1] + weight[k] IN up[n]

\* The wrong codes of `m' in the rows with one since `since'.
CountedSince(rows, m, since) ==
    SumTo([i \in Ids |-> IF /\ i \in DOMAIN rows
                            /\ rows[i].mobile = m
                            /\ rows[i].last_wrong_at # Never
                            /\ rows[i].last_wrong_at >= since
                         THEN rows[i].wrong_count ELSE 0],
          MaxRows)

\* _locked, of the table `rows'
LockedIn(rows, m) == CountedSince(rows, m, now - WrongWindow) >= MaxWrongPerDay
Locked(m) == LockedIn(challenge, m)

SentLastHour(m) ==
    Cardinality({i \in DOMAIN challenge :
                   challenge[i].mobile = m /\ challenge[i].queued_at >= now - Hour})

\* The code last asked for is too fresh to be replaced (RESEND_AFTER).
TooSoon(by, m) ==
    /\ Latest(by) # 0
    /\ LET c == challenge[Latest(by)]
       IN  /\ c.mobile = m
           /\ c.state \in {"queued", "sent"}
           /\ now - (IF c.sent_at # Never THEN c.sent_at ELSE c.queued_at) < ResendAfter

-----------------------------------------------------------------------------
(* Requests: the snapshot, then the commit *)

NoWrites == [i \in {} |-> 0]
Write(i, c) == [j \in {i} |-> c]

\* Nothing keeps one asker's requests apart: two devices, or a button pressed twice.
Open(r, writes, create) ==
    /\ flight[r] = Idle
    /\ flight' = [flight EXCEPT ![r] = [writes |-> writes, create |-> create, clean |-> TRUE]]
    /\ UNCHANGED <<now, challenge, last, cron, delivered, guesses>>

\* A resend asks again for the number of the challenge on the page.
Asks(by, m, force) ==
    /\ ~Locked(m)
    /\ IF force THEN Latest(by) # 0 /\ challenge[Latest(by)].mobile = m
                ELSE TRUE

\* start: the last code that still works is used again; another browser's moves to this one.
Reuse(r, by, m) ==
    /\ Asks(by, m, FALSE)
    /\ LET i == Reusable(by, m)
       IN  /\ i # 0
           /\ challenge[i].asker # by
           /\ Open(r, Write(i, [challenge[i] EXCEPT !.asker = by]), {})

\* mutant: a resend leaves the code that is on its way alone
SupersededSent(by) ==
    {i \in DOMAIN challenge : challenge[i].asker = by /\ challenge[i].state \in {"sent", "failed"}}

Superseded(by) ==
    {i \in DOMAIN challenge : /\ challenge[i].asker = by
                              /\ challenge[i].state \in {"queued", "sent", "failed"}}

NewRow(by, m) ==
    [asker |-> by, mobile |-> m, state |-> "queued", pending |-> TRUE, tries |-> 0,
     wrong_count |-> 0, last_wrong_at |-> Never, queued_at |-> now, sent_at |-> Never,
     seen |-> last]

\* Requests under way that will create a challenge.
Creating == {r \in Requests : flight[r] # Idle /\ flight[r].create # {}}

\* start: a new code takes the place of this asker's earlier ones.  `taken': another
\* account has proven the number (_verified_elsewhere).
Ask(r, by, m, force, taken) ==
    /\ last + Cardinality(Creating) < MaxRows
    /\ Asks(by, m, force)
    /\ force \/ Reusable(by, m) = 0
    /\ ~TooSoon(by, m)
    /\ SentLastHour(m) < MaxSendsPerHour
    /\ by \in Partners => ~taken
    /\ Open(r,
            [i \in Superseded(by) |-> [challenge[i] EXCEPT !.state = "expired", !.pending = FALSE]],
            {NewRow(by, m)})

\* mutant: a wait that is over leaves the plain code behind
SettledButKept(c) ==
    CASE c.state = "queued" /\ now - c.queued_at > WaitLimit -> [c EXCEPT !.state = "failed"]
      [] c.state = "sent" /\ now > ExpiresAt(c) -> [c EXCEPT !.state = "expired"]
      [] OTHER -> c

\* _payload
Settled(c) ==
    CASE c.state = "queued" /\ now - c.queued_at > WaitLimit
           -> [c EXCEPT !.state = "failed", !.pending = FALSE]
      [] c.state = "sent" /\ now > ExpiresAt(c) -> [c EXCEPT !.state = "expired"]
      [] OTHER -> c

\* The code page, its polling, and a code typed for a row that is no longer `sent'.
Page(r, by) ==
    LET i == Latest(by)
    IN  /\ i # 0
        /\ Settled(challenge[i]) # challenge[i]
        /\ Open(r, Write(i, Settled(challenge[i])), {})

\* mutant: the tries are counted but never compared
CheckedForever(i, right, taken) ==
    LET c == challenge[i]
        tried == [c EXCEPT !.tries = c.tries + 1]
        wrong == [tried EXCEPT !.wrong_count = c.wrong_count + 1, !.last_wrong_at = now]
    IN  IF right THEN [tried EXCEPT !.state = "done"] ELSE wrong

\* check, on a `sent' row of a number that is not locked.
Checked(i, right, taken) ==
    LET c == challenge[i]
        tried == [c EXCEPT !.tries = c.tries + 1]
        wrong == [tried EXCEPT !.wrong_count = c.wrong_count + 1, !.last_wrong_at = now]
        rows == [challenge EXCEPT ![i] = wrong]
    IN  CASE c.tries >= MaxTries -> [c EXCEPT !.state = "expired"]
          [] c.tries < MaxTries /\ ~right ->
               IF LockedIn(rows, c.mobile) \/ wrong.tries >= MaxTries
               THEN [wrong EXCEPT !.state = "expired"] ELSE wrong
          [] OTHER ->
               IF c.asker \in Partners /\ taken
               THEN [tried EXCEPT !.state = "expired"] ELSE [tried EXCEPT !.state = "done"]

\* mutant: a locked number still takes a code
SubmitUnlocked(r, by, typed, taken) ==
    LET i == Latest(by)
    IN  /\ i # 0
        /\ Settled(challenge[i]).state = "sent"
        /\ Open(r, Write(i, Checked(i, typed = i, taken)), {})

\* The code of challenge `typed' (0: a number no SMS carried) is typed on the code page.
Submit(r, by, typed, taken) ==
    LET i == Latest(by)
    IN  /\ i # 0
        /\ Settled(challenge[i]).state = "sent"
        /\ challenge[i].tries >= MaxTries \/ ~Locked(challenge[i].mobile)
        /\ Open(r, Write(i, Checked(i, typed = i, taken)), {})

\* A request that will be refused: what it meant to write no longer matters.
Stale == [writes |-> NoWrites, create |-> {}, clean |-> FALSE]

\* Rows `ids' have been written: whoever meant to write them from an older snapshot is refused.
Dirtied(ids) ==
    [r \in Requests |->
        IF flight[r] # Idle /\ DOMAIN flight[r].writes \cap ids # {} THEN Stale ELSE flight[r]]

Wrongs(tx) == {i \in DOMAIN tx.writes : tx.writes[i].wrong_count > challenge[i].wrong_count}

Commit(r) ==
    LET tx == flight[r]
        new == IF tx.create = {} THEN {} ELSE {last + 1}
    IN  /\ tx # Idle
        /\ tx.clean
        /\ challenge' = [i \in DOMAIN challenge \cup new |->
                            IF i \in DOMAIN tx.writes THEN tx.writes[i]
                            ELSE IF i \in new THEN CHOOSE c \in tx.create : TRUE
                            ELSE challenge[i]]
        /\ last' = last + Cardinality(new)
        /\ guesses' = [m \in Mobiles |-> [guesses[m] EXCEPT ![now] =
                          @ + Cardinality({i \in Wrongs(tx) : challenge[i].mobile = m})]]
        /\ flight' = [Dirtied(DOMAIN tx.writes) EXCEPT ![r] = Idle]
        /\ cron' = IF cron.id \in DOMAIN tx.writes THEN [cron EXCEPT !.clean = FALSE] ELSE cron
        /\ UNCHANGED <<now, delivered>>

\* The commit is refused; the server runs the request again, from a new snapshot.
Refuse(r) ==
    /\ flight[r] # Idle
    /\ ~flight[r].clean
    /\ flight' = [flight EXCEPT ![r] = Idle]
    /\ UNCHANGED <<now, challenge, last, cron, delivered, guesses>>

-----------------------------------------------------------------------------
(* The sending job: _cron_send *)

NoJob == [phase |-> "idle", todo |-> {}, began |-> 0, id |-> 0, code |-> FALSE, clean |-> TRUE]
Job == [phase : {"idle", "loop", "late", "sending"}, todo : SUBSET Ids, began : Nat,
        id : 0..MaxRows, code : BOOLEAN, clean : BOOLEAN]

OldAt(began) == {i \in DOMAIN challenge : challenge[i].queued_at < began - Keep}

\* Row `i' is read: it has waited too long, or its code goes to the provider.  Whether it is
\* still queued is not looked at again.
Reading(i, todo, began) ==
    [NoJob EXCEPT !.phase = IF began - challenge[i].queued_at > WaitLimit THEN "late" ELSE "sending",
                  !.todo = todo, !.began = began, !.id = i, !.code = challenge[i].pending]

\* The list of queued challenges and the first of them are read in one snapshot.  A run with
\* nothing to do changes nothing.
JobStarts ==
    /\ cron = NoJob
    /\ LET todo == {i \in DOMAIN challenge : challenge[i].state = "queued"}
       IN  \/ todo # {} /\ cron' = Reading(Min(todo), todo, now)
           \/ /\ todo = {}
              /\ OldAt(now) # {}
              /\ cron' = [NoJob EXCEPT !.phase = "loop", !.began = now]
    /\ UNCHANGED <<now, challenge, last, flight, delivered, guesses>>

\* After a commit the next row of the list is read in a new snapshot.
JobReads ==
    /\ cron.phase = "loop"
    /\ cron.todo # {}
    /\ cron' = Reading(Min(cron.todo), cron.todo, cron.began)
    /\ UNCHANGED <<now, challenge, last, flight, delivered, guesses>>

JobMovesOn == cron' = [NoJob EXCEPT !.phase = "loop", !.began = cron.began,
                                    !.todo = cron.todo \ {cron.id}]

JobGivesUp ==
    /\ cron.phase = "late"
    /\ cron.clean
    /\ challenge' = [challenge EXCEPT ![cron.id].state = "failed", ![cron.id].pending = FALSE]
    /\ flight' = Dirtied({cron.id})
    /\ JobMovesOn
    /\ UNCHANGED <<now, last, delivered, guesses>>

\* The SMS carries the code unless the row had lost it when it was read.
GoesOut(out) == delivered' = IF out /\ cron.code THEN delivered \cup {cron.id} ELSE delivered

\* mutant: a refused SMS leaves the challenge in the queue
JobSettlesLater(out) ==
    /\ cron.phase = "sending"
    /\ cron.clean
    /\ GoesOut(out)
    /\ challenge' = IF out THEN [challenge EXCEPT ![cron.id].state = "sent",
                                                  ![cron.id].sent_at = now,
                                                  ![cron.id].pending = FALSE]
                    ELSE challenge
    /\ flight' = Dirtied({cron.id})
    /\ JobMovesOn
    /\ UNCHANGED <<now, last, guesses>>

\* The provider's answer is written and committed before the next row is read.
JobSettles(out) ==
    /\ cron.phase = "sending"
    /\ cron.clean
    /\ GoesOut(out)
    /\ challenge' = [challenge EXCEPT
                        ![cron.id].state = IF out THEN "sent" ELSE "failed",
                        ![cron.id].sent_at = IF out THEN now ELSE @,
                        ![cron.id].pending = FALSE]
    /\ flight' = Dirtied({cron.id})
    /\ JobMovesOn
    /\ UNCHANGED <<now, last, guesses>>

\* The commit is refused because a request changed the row meanwhile, or the server stops: the
\* row stays as it was, the SMS may be out, the rest of the list is left to the next run.
JobDies(out) ==
    /\ cron.phase \in {"late", "sending"}
    /\ out => cron.phase = "sending"
    /\ GoesOut(out)
    /\ cron' = NoJob
    /\ UNCHANGED <<now, challenge, last, flight, guesses>>

JobEnds ==
    /\ cron.phase = "loop"
    /\ cron.todo = {}
    /\ challenge' = Restrict(challenge, DOMAIN challenge \ OldAt(cron.began))
    /\ flight' = Dirtied(OldAt(cron.began))
    /\ cron' = NoJob
    /\ UNCHANGED <<now, last, delivered, guesses>>

\* A request is over within a tick, a run of the job within CronLimit.
Tick ==
    /\ now < MaxTime
    /\ \A r \in Requests : flight[r] = Idle
    /\ cron = NoJob \/ now - cron.began < CronLimit
    /\ now' = now + 1
    /\ UNCHANGED <<challenge, last, flight, cron, delivered, guesses>>

-----------------------------------------------------------------------------
Init ==
    /\ now = 0
    /\ challenge = NoWrites
    /\ last = 0
    /\ flight = [r \in Requests |-> Idle]
    /\ cron = NoJob
    /\ delivered = {}
    /\ guesses = [m \in Mobiles |-> [t \in Time |-> 0]]

Request(r, by) ==
    \/ \E m \in Mobiles : Reuse(r, by, m)
    \/ \E m \in Mobiles, force, taken \in BOOLEAN : Ask(r, by, m, force, taken)
    \/ Page(r, by)
    \/ \E typed \in delivered \cup {0}, taken \in BOOLEAN : Submit(r, by, typed, taken)

Jobs ==
    \/ JobStarts
    \/ JobReads
    \/ JobGivesUp
    \/ \E out \in BOOLEAN : JobSettles(out)
    \/ \E out \in BOOLEAN : JobDies(out)
    \/ JobEnds

Next ==
    \/ \E r \in Requests, by \in Askers : Request(r, by)
    \/ \E r \in Requests : Commit(r)
    \/ \E r \in Requests : Refuse(r)
    \/ Jobs
    \/ Tick

Spec == Init /\ [][Next]_vars

\* The job is triggered by every question and again every five minutes, its steps do not stop
\* by themselves, and it is not cut off at every single SMS.
FairSpec ==
    /\ Spec
    /\ \A r \in Requests : WF_vars(Commit(r) \/ Refuse(r))
    /\ WF_vars(JobStarts \/ JobReads \/ JobEnds \/ (~cron.clean /\ JobDies(FALSE)))
    /\ SF_vars(JobGivesUp \/ \E out \in BOOLEAN : JobSettles(out))

-----------------------------------------------------------------------------
(* Properties *)

\* Every variable has its type: no challenge is tried more than MAX_TRIES times, the rows are
\* among the ids handed out, and the job's list names rows that exist.
TypeOK ==
    /\ now \in Time
    /\ last \in 0..MaxRows
    /\ DOMAIN challenge \subseteq 1..last
    /\ challenge \in [DOMAIN challenge -> Row]
    /\ DOMAIN flight = Requests
    /\ \A r \in Requests : flight[r] = Idle \/ IsTx(flight[r])
    /\ cron \in Job
    /\ cron.todo \subseteq DOMAIN challenge
    /\ delivered \subseteq 1..last
    /\ guesses \in [Mobiles -> [Time -> Nat]]

\* "The plain code exists only until the background job has handed it to the provider": a row
\* holds its code exactly while it is queued, whoever ends the wait - the job, the page that
\* polls, or a resend that commits while the job is busy with another row.
CodeForgotten ==
    \A i \in DOMAIN challenge : challenge[i].pending <=> challenge[i].state = "queued"

\* However resends, pages and the job interleave, a question of a signed-in account ends every
\* earlier one of it that is still on its way: the job has two codes of one account to send only
\* when start() ran twice at once, the later one from a snapshot without the earlier challenge.
\* Those two write no row in common and no constraint forbids the second.
OneQueuedPerAccount ==
    \A i, j \in DOMAIN challenge :
        /\ challenge[i].asker = challenge[j].asker
        /\ challenge[i].asker \in Partners
        /\ challenge[i].state = "queued" /\ challenge[j].state = "queued"
        /\ i < j
        => challenge[j].seen < i

\* Wrong codes typed for `m' since `since'; the time t is the (t+1)-st.
GuessesSince(m, since) ==
    SumTo([k \in 1..(MaxTime + 1) |-> IF k - 1 >= since THEN guesses[m][k - 1] ELSE 0], MaxTime + 1)

\* The span for which no counting row can have been deleted yet: the day, less the time a code
\* may spend on its way.
SureSpan == WrongWindow - WaitLimit - CronLimit
Guesses(m) == GuessesSince(m, now - SureSpan)

\* Across all codes and browsers a number takes MAX_WRONG_PER_DAY wrong codes, plus at most
\* one for each other request that read the count at the same moment.
GuessBudget ==
    \A m \in Mobiles : Guesses(m) <= MaxWrongPerDay + Cardinality(Requests) - 1

\* "Even the right code: a guesser who got lucky on the 21st try must not get in."  No code is
\* accepted once the number has used up its wrong codes, with the same allowance.
NoProofWhenLocked ==
    [][\A i \in DOMAIN challenge \cap DOMAIN challenge' :
          challenge[i].state # "done" /\ challenge'[i].state = "done"
          => Guesses(challenge[i].mobile) < MaxWrongPerDay + Cardinality(Requests) - 1]_vars

\* KEEP: challenges are deleted "never while [the code] works", though the job measures their
\* age from the request and the code's day runs from the SMS.
NeverDeletedWhileItWorks ==
    [][\A i \in DOMAIN challenge \ DOMAIN challenge' :
          ~(challenge[i].state = "sent" /\ now <= ExpiresAt(challenge[i]))]_vars

\* "The page waits at most WAIT_LIMIT and shows the result": no challenge stays queued.
QueueDrains ==
    \A i \in Ids : (i \in DOMAIN challenge /\ challenge[i].state = "queued")
                      ~> ~(i \in DOMAIN challenge /\ challenge[i].state = "queued")

\* start: a code used again "moves to this browser session, so a code typed the next day in
\* another tab still opens the account".  The code page must then check it.
ReusedCodeIsChecked ==
    [][\A by \in Askers, i \in DOMAIN challenge \cap DOMAIN challenge' :
          challenge[i].asker # by /\ challenge'[i].asker = by => Latest(by)' = i]_vars

\* start: "A forced resend replaces it, so only the last code ever works": a challenge that has
\* been put out of use is never `sent' again.
ReplacedNeverReturns ==
    [][\A i \in DOMAIN challenge \cap DOMAIN challenge' :
          challenge[i].state = "expired" => challenge'[i].state # "sent"]_vars
=============================================================================
