------------------------------- MODULE Responder -------------------------------
(***************************************************************************)
(* How the place responder keeps its index current: the reload loop of      *)
(* services/place_responder, with an Odoo database as its source.           *)
(*                                                                         *)
(* One goroutine (`loop') reads the place tables into memory, builds an     *)
(* index and serves it.  It reloads when the database announces a change    *)
(* (NOTIFY, on a connection that LISTENs and may drop), when a person asks, *)
(* and when a poll finds that the stamp - counters of the statistics, which *)
(* lag behind the tables and belong to no snapshot - is another one than    *)
(* that of the last load.  A load reads its own snapshot on a connection of *)
(* its own and may fail.                                                    *)
(*                                                                         *)
(* What the places are is left out: a committed change is a new version of  *)
(* the tables.  The ranking spec, announced as places are and read by the   *)
(* stamp as languages are, is left out too.  Building the index and storing *)
(* it are one step, and several requests to reload waiting together are one.*)
(***************************************************************************)
EXTENDS Naturals

CONSTANTS
    Langs,              \* languages that may be installed
    None,
    Debounce, MaxWait,  \* in ticks
    MaxChanges          \* bound: changes of the tables, and changes the counters count

ASSUME TimesAssumption == {Debounce, MaxWait, MaxChanges} \subseteq Nat
ASSUME NoneAssumption == None \notin Nat

VARIABLES
    version, langs,     \* the source: the place tables, the installed languages
    counters,           \* the statistics collector's count of changes
    uncounted,          \* changes it will count in a moment
    link,               \* the listening connection
    wire,               \* a notification is on its way on it
    notified,           \* the channel of one place behind it
    asked,              \* a reload somebody asked for (/reload, SIGHUP)
    quiet, pending,     \* ticks until the debounce timer fires; since the first notification
    loop,               \* where the goroutine is, and what it has read
    served,             \* the index: the version and languages it was built from
    stamp,              \* the stamp kept with it
    missed              \* history: a load has failed since the index was built

source == <<version, langs, counters, uncounted>>
vars == <<version, langs, counters, uncounted, link, wire, notified, asked, quiet, pending,
          loop, served, stamp, missed>>

Off == None             \* a timer that is not set
Stamps == [counters : 0..MaxChanges, langs : SUBSET Langs]
Data == [version : 0..MaxChanges, langs : (SUBSET Langs) \ {{}}]
Loops == [at : {"away", "select", "loading", "reading", "building"}, first : BOOLEAN,
          data : Data \cup {None}, stamp : Stamps \cup {None}]
At(place) == [at |-> place, first |-> FALSE, data |-> None, stamp |-> None]
Away == At("away")
Listening == At("select")

\* mutant: a stamp that forgets the languages
StampOfTables(l) == [counters |-> counters, langs |-> {}]

\* odooStamp: the languages are those the transaction sees, the counters those of the moment.
Stamp(l) == [counters |-> counters, langs |-> l]

-----------------------------------------------------------------------------
(* The database *)

Announced == IF link = "up" THEN wire' = TRUE ELSE UNCHANGED wire

\* A transaction that changes places commits: its triggers' notifications are sent.
Change ==
    /\ version < MaxChanges
    /\ counters + uncounted < MaxChanges
    /\ version' = version + 1
    /\ uncounted' = uncounted + 1
    /\ Announced
    /\ UNCHANGED <<langs, counters, link, notified, asked, quiet, pending, loop, served, stamp, missed>>

\* A statement that changes no row is announced too; there is no end to them.
Touch ==
    /\ link = "up"
    /\ Announced
    /\ UNCHANGED <<source, link, notified, asked, quiet, pending, loop, served, stamp, missed>>

\* "a rolled-back transaction still counts"
RollBack ==
    /\ counters + uncounted < MaxChanges
    /\ uncounted' = uncounted + 1
    /\ UNCHANGED <<version, langs, counters, link, wire, notified, asked, quiet, pending, loop,
                   served, stamp, missed>>

Count ==
    /\ uncounted > 0
    /\ counters' = counters + 1
    /\ uncounted' = uncounted - 1
    /\ UNCHANGED <<version, langs, link, wire, notified, asked, quiet, pending, loop, served, stamp, missed>>

\* A language is installed or taken away: nothing announces it.
Relanguage(l) ==
    /\ l # {} /\ l # langs
    /\ langs' = l
    /\ UNCHANGED <<version, counters, uncounted, link, wire, notified, asked, quiet, pending, loop,
                   served, stamp, missed>>

Drop ==
    /\ link = "up"
    /\ link' = "broken"
    /\ wire' = FALSE
    /\ UNCHANGED <<source, notified, asked, quiet, pending, loop, served, stamp, missed>>

-----------------------------------------------------------------------------
(* Beside the loop *)

\* The goroutine at the connection's end, started after a session's first load; `default': one is
\* already waiting to be acted on.
Hear ==
    /\ wire /\ ~loop.first
    /\ wire' = FALSE
    /\ notified' = TRUE
    /\ UNCHANGED <<source, link, asked, quiet, pending, loop, served, stamp, missed>>

\* requestReload
Request ==
    /\ asked' = TRUE
    /\ UNCHANGED <<source, link, wire, notified, quiet, pending, loop, served, stamp, missed>>

Tick ==
    /\ quiet # Off
    /\ quiet' = IF quiet = 0 THEN 0 ELSE quiet - 1
    /\ pending' = IF pending = MaxWait THEN MaxWait ELSE pending + 1
    /\ UNCHANGED <<source, link, wire, notified, asked, loop, served, stamp, missed>>

-----------------------------------------------------------------------------
(* The loop *)

SessionOver ==
    /\ loop' = Away
    /\ notified' = FALSE
    /\ quiet' = Off
    /\ pending' = Off

\* session: connect and LISTEN, then load, since a notification sent while nobody listened is gone.
Connect ==
    /\ loop = Away
    /\ link' = "up"
    /\ loop' = [at |-> "loading", first |-> TRUE, data |-> None, stamp |-> None]
    /\ UNCHANGED <<source, wire, notified, asked, quiet, pending, served, stamp, missed>>

Loads == loop' = At("loading")

\* The first notification of a burst starts the clock, each one puts the reload off.
\* mutant: for ever
HeardPatiently ==
    /\ loop = Listening
    /\ notified
    /\ notified' = FALSE
    /\ pending' = IF pending = Off THEN 0 ELSE pending
    /\ quiet' = Debounce
    /\ UNCHANGED <<source, link, wire, asked, loop, served, stamp, missed>>

\* case <-notified: but never for longer than MaxWait.
Heard ==
    /\ loop = Listening
    /\ notified
    /\ notified' = FALSE
    /\ pending' = IF pending = Off THEN 0 ELSE pending
    /\ quiet' = IF pending' >= MaxWait THEN 0 ELSE Debounce
    /\ UNCHANGED <<source, link, wire, asked, loop, served, stamp, missed>>

\* mutant: the burst's beginning is kept
DueForgetful ==
    /\ loop = Listening
    /\ quiet = 0
    /\ quiet' = Off
    /\ Loads
    /\ UNCHANGED <<source, link, wire, notified, asked, pending, served, stamp, missed>>

\* case <-debounce
Due ==
    /\ loop = Listening
    /\ quiet = 0
    /\ quiet' = Off
    /\ pending' = Off
    /\ Loads
    /\ UNCHANGED <<source, link, wire, notified, asked, served, stamp, missed>>

\* case <-s.requests
Asked ==
    /\ loop = Listening
    /\ asked
    /\ asked' = FALSE
    /\ Loads
    /\ UNCHANGED <<source, link, wire, notified, quiet, pending, served, stamp, missed>>

\* case <-poll.C
Poll ==
    /\ loop = Listening
    /\ stamp # Stamp(langs)
    /\ Loads
    /\ UNCHANGED <<source, link, wire, notified, asked, quiet, pending, served, stamp, missed>>

\* case <-failed: the session is over, and what it had heard with it.
Broken ==
    /\ loop = Listening
    /\ link = "broken"
    /\ link' = "down"
    /\ SessionOver
    /\ UNCHANGED <<source, wire, asked, served, stamp, missed>>

\* loadOdooOnce: the transaction's first query takes the snapshot of everything it reads,
Snapshot ==
    /\ loop.at = "loading"
    /\ loop' = [at |-> "reading", first |-> loop.first, stamp |-> None,
                data |-> [version |-> version, langs |-> langs]]
    /\ UNCHANGED <<source, link, wire, notified, asked, quiet, pending, served, stamp, missed>>

\* but for the stamp, which is read last.
ReadStamp ==
    /\ loop.at = "reading"
    /\ loop' = [at |-> "building", first |-> loop.first, data |-> loop.data,
                stamp |-> Stamp(loop.data.langs)]
    /\ UNCHANGED <<source, link, wire, notified, asked, quiet, pending, served, stamp, missed>>

\* mutant: what was heard during the load is taken for loaded
InstallDeaf ==
    /\ loop.at = "building"
    /\ served' = loop.data
    /\ stamp' = loop.stamp
    /\ missed' = FALSE
    /\ notified' = FALSE
    /\ loop' = Listening
    /\ UNCHANGED <<source, link, wire, asked, quiet, pending>>

\* install
Install ==
    /\ loop.at = "building"
    /\ served' = loop.data
    /\ stamp' = loop.stamp
    /\ missed' = FALSE
    /\ loop' = Listening
    /\ UNCHANGED <<source, link, wire, notified, asked, quiet, pending>>

\* The load's connection fails: the first load of a session ends it, a later one is logged.
Fail ==
    /\ loop.at \in {"loading", "reading"}
    /\ \/ /\ loop.first
          /\ link' = "down"
          /\ wire' = FALSE
          /\ SessionOver
          /\ UNCHANGED missed
       \/ /\ ~loop.first
          /\ loop' = Listening
          /\ missed' = TRUE
          /\ UNCHANGED <<link, wire, notified, quiet, pending>>
    /\ UNCHANGED <<source, asked, served, stamp>>

-----------------------------------------------------------------------------
Init ==
    /\ version = 0 /\ langs \in (SUBSET Langs) \ {{}}
    /\ counters = 0 /\ uncounted = 0
    /\ link = "down" /\ wire = FALSE /\ notified = FALSE /\ asked = FALSE
    /\ quiet = Off /\ pending = Off
    /\ loop = Away
    /\ served = None /\ stamp = None /\ missed = FALSE

Database == Change \/ Touch \/ RollBack \/ Count \/ Drop \/ \E l \in SUBSET Langs : Relanguage(l)

Select == Heard \/ Due \/ Asked \/ Poll \/ Broken

Loop == Connect \/ Select \/ Snapshot \/ ReadStamp \/ Install

Next ==
    \/ Database
    \/ Hear \/ Request \/ Tick
    \/ Loop \/ Fail

Spec == Init /\ [][Next]_vars

\* Time passes, goroutines run, select does not pass over the timer for ever, and the database,
\* asked again and again, does not refuse every time.
FairSpec ==
    /\ Spec
    /\ WF_vars(Tick) /\ WF_vars(Hear) /\ WF_vars(Loop) /\ WF_vars(Due)
    /\ SF_vars(Snapshot) /\ SF_vars(ReadStamp)

\* And the poll is made again and again, on counters that catch up.
PolledSpec == FairSpec /\ WF_vars(Count) /\ SF_vars(Poll)

-----------------------------------------------------------------------------
(* Properties *)

\* Every variable has its type, and the timers are set together.
TypeOK ==
    /\ version \in 0..MaxChanges /\ langs \in (SUBSET Langs) \ {{}}
    /\ counters \in 0..MaxChanges /\ uncounted \in 0..MaxChanges
    /\ counters + uncounted <= MaxChanges
    /\ link \in {"up", "broken", "down"}
    /\ {wire, notified, asked, missed} \subseteq BOOLEAN
    /\ quiet \in 0..Debounce \cup {Off} /\ pending \in 0..MaxWait \cup {Off}
    /\ quiet = Off <=> pending = Off
    /\ loop \in Loops
    /\ served \in Data \cup {None} /\ stamp \in Stamps \cup {None}

\* A change the index being served, or being built, does not have is still on its way to the loop
\* as long as the connection stands: no notification is lost between the burst, the debounce
\* timer and a load that was under way when it came.  A language, which nothing announces, is one
\* the next poll finds.
Coming == wire \/ notified \/ quiet # Off
NothingForgotten ==
    link = "up" =>
        /\ loop = Listening /\ ~missed /\ version # served.version => Coming
        /\ loop.at \in {"reading", "building"} /\ version # loop.data.version => Coming
        /\ loop = Listening /\ langs # served.langs => stamp # Stamp(langs)

\* Every change is served in the end, though notifications never stop, the connection drops and
\* loads fail - or a load has failed since.
AnsweredUnlessFailed ==
    \A v \in 1..MaxChanges :
        version = v ~> missed \/ (served # None /\ served.version >= v)

\* odooStamp: "the price of that is one reload, never a stale answer".  With the poll under the
\* notifications, every change is served in the end even if a reload fails.
Answered ==
    \A v \in 1..MaxChanges : version = v ~> (served # None /\ served.version >= v)
=============================================================================
