--------------------------- MODULE Challenge_proofs ---------------------------
(***************************************************************************)
(* Proofs about Challenge, for any number of numbers, browsers, accounts    *)
(* and challenges and any times: its types, every invariant, what may be    *)
(* deleted and whose code may be taken.                                     *)
(*                                                                         *)
(* The argument: what a request will write is itself in order, whatever has *)
(* happened since its snapshot: a question ends every challenge of its      *)
(* account that it could see in the queue, what is queued later has a       *)
(* greater id, and a row that has left the queue never comes back.  One run *)
(* of the job lasts at most CronLimit, so an SMS leaves at most             *)
(* WaitLimit + CronLimit after its code was asked for.                      *)
(*                                                                         *)
(* Wrong codes: a request that may still commit finds the row it counts on  *)
(* as it read it, so from any moment within the span on the rows count      *)
(* every wrong code typed; each of those was read below the limit, and so   *)
(* were the requests still under way, of whom there are no more than        *)
(* Requests.                                                                *)
(***************************************************************************)
EXTENDS Challenge, BoundedInduction

\* A row holds its code exactly while it is queued; if it is sent, the SMS left in time.
InOrder(c) ==
    /\ c.pending <=> c.state = "queued"
    /\ c.state = "sent" => c.sent_at <= c.queued_at + WaitLimit + CronLimit

\* What a request will write: rows in order; no row of an account goes back to the queue, but
\* for the one a question creates, whose asker saw ids that were handed out.
Means(tx) ==
    /\ \A i \in DOMAIN tx.writes :
          /\ InOrder(tx.writes[i])
          /\ tx.writes[i].asker \in Partners => tx.writes[i].state # "queued"
    /\ \A c \in tx.create : InOrder(c) /\ c.seen <= last

\* A question of an account that is under way ends every challenge of it that it saw queued.
EndsEarlier(tx) ==
    \A c \in tx.create, i \in DOMAIN challenge :
        /\ c.asker \in Partners /\ challenge[i].asker = c.asker
        /\ challenge[i].state = "queued" /\ i <= c.seen
        => i \in DOMAIN tx.writes

\* There are ids for the challenges that will be created.
RoomKept == last + Cardinality(Creating) <= MaxRows

\* The job works on a row of its list, for CronLimit at most; the row it sends had not waited
\* too long when the run began.
JobInTime ==
    /\ cron.phase \in {"late", "sending"} => cron.id \in cron.todo
    /\ cron.phase # "idle" => cron.began <= now /\ now <= cron.began + CronLimit
    /\ cron.phase = "sending" /\ cron.clean =>
          cron.began - challenge[cron.id].queued_at <= WaitLimit

RequestsKept ==
    \A q \in Requests : flight[q] # Idle => Means(flight[q]) /\ EndsEarlier(flight[q])

Inv ==
    /\ TypeOK
    /\ RoomKept
    /\ \A i \in DOMAIN challenge : InOrder(challenge[i])
    /\ OneQueuedPerAccount
    /\ RequestsKept
    /\ JobInTime

-----------------------------------------------------------------------------
(* What is read *)

\* The ids handed out are numbers, and so many as to be counted.
LEMMA Table ==
    ASSUME TypeOK
    PROVE  /\ last \in Nat /\ MaxRows \in Nat /\ MaxTime \in Nat /\ now \in Nat
           /\ IsFiniteSet(1..last)
           /\ DOMAIN challenge \subseteq 1..last /\ DOMAIN challenge \subseteq Ids
           /\ \A i \in DOMAIN challenge : challenge[i] \in Row
<1>1. MaxRows \in Nat /\ MaxTime \in Nat
  BY TimesAssumption
<1>2. last \in Nat /\ now \in Nat
  BY <1>1 DEF TypeOK, Time
<1>3. IsFiniteSet(1..last)
  BY <1>2, FS_Interval
<1> QED
  BY <1>1, <1>2, <1>3 DEF TypeOK, Ids

\* The newest challenge of those that qualify is one of them.
LEMMA NewestIsOne ==
    ASSUME TypeOK, NEW S \in SUBSET DOMAIN challenge, NewestOf(S) # 0
    PROVE  NewestOf(S) \in S
<1>1. S # {} /\ NewestOf(S) = Max(S)
  BY DEF NewestOf
<1>2. S \subseteq 1..last /\ last \in Nat
  BY Table
<1>3. \E m \in S : \A y \in S : y <= m
  BY <1>1, <1>2, GreatestBelow
<1>4. \E m \in S : \A y \in S : m >= y
  BY <1>2, <1>3
<1> QED
  BY <1>1, <1>4 DEF Max

\* The next row of the job's list is one of it.
LEMMA NextIsOne ==
    ASSUME TypeOK, NEW S \in SUBSET DOMAIN challenge, S # {}
    PROVE  Min(S) \in S
<1>1. S \subseteq 1..last /\ last \in Nat
  BY Table
<1>2. \E m \in S : \A y \in S : m <= y
  BY <1>1, LeastFrom
<1> QED
  BY <1>2 DEF Min

\* The challenge on the page is the asker's, and not over.
LEMMA LatestIs ==
    ASSUME TypeOK, NEW by, Latest(by) # 0
    PROVE  /\ Latest(by) \in DOMAIN challenge
           /\ challenge[Latest(by)].asker = by /\ challenge[Latest(by)].state # "done"
<1> DEFINE S == {i \in DOMAIN challenge : challenge[i].asker = by /\ challenge[i].state # "done"}
<1>1. Latest(by) = NewestOf(S) /\ S \in SUBSET DOMAIN challenge
  BY DEF Latest
<1> HIDE DEF S
<1>2. NewestOf(S) \in S
  BY <1>1, NewestIsOne
<1> QED
  BY <1>1, <1>2 DEF S

\* A challenge is used again by who may.
LEMMA ReusableIs ==
    ASSUME TypeOK, NEW by, NEW m, Reusable(by, m) # 0
    PROVE  /\ Reusable(by, m) \in DOMAIN challenge
           /\ MayReuse(by, challenge[Reusable(by, m)])
<1> DEFINE S == {i \in DOMAIN challenge : /\ challenge[i].mobile = m
                                          /\ MayReuse(by, challenge[i])
                                          /\ StillWorks(challenge[i])}
<1>1. Reusable(by, m) = NewestOf(S) /\ S \in SUBSET DOMAIN challenge
  BY DEF Reusable
<1> HIDE DEF S
<1>2. NewestOf(S) \in S
  BY <1>1, NewestIsOne
<1> QED
  BY <1>1, <1>2 DEF S

\* Requests that will create are counted.
LEMMA Counted ==
    /\ IsFiniteSet(Creating) /\ Cardinality(Creating) \in Nat
<1>1. Creating \in SUBSET Requests
  BY DEF Creating
<1> QED
  BY <1>1, AskersAssumption, FS_Subset, FS_CardinalityType

-----------------------------------------------------------------------------
(* Requests *)

\* `writes' is what a request may mean to write over rows that exist.
Writable(writes) ==
    /\ DOMAIN writes \subseteq DOMAIN challenge
    /\ writes \in [DOMAIN writes -> Row]
    /\ \A i \in DOMAIN writes :
          /\ InOrder(writes[i])
          /\ writes[i].asker \in Partners => writes[i].state # "queued"

\* A request that creates nothing keeps the invariant.
LEMMA OpensWrites ==
    ASSUME Inv, NEW q \in Requests, NEW writes, Writable(writes), Open(q, writes, {})
    PROVE  Inv'
<1> DEFINE tx == [writes |-> writes, create |-> {}, clean |-> TRUE]
<1>1. /\ tx.writes = writes /\ tx.create = {} /\ tx.clean = TRUE
      /\ DOMAIN tx = {"writes", "create", "clean"}
  OBVIOUS
<1>2. /\ flight' = [flight EXCEPT ![q] = tx]
      /\ UNCHANGED <<now, challenge, last, cron, delivered, guesses>>
  BY DEF Open
<1> HIDE DEF tx
<1>3. IsTx(tx)
  BY <1>1, Table DEF IsTx, Writable, Inv
<1>4. Means(tx) /\ EndsEarlier(tx)
  BY <1>1 DEF Means, EndsEarlier, Writable
<1>5. DOMAIN flight = Requests
  BY DEF Inv, TypeOK
<1>6. /\ DOMAIN flight' = Requests /\ flight'[q] = tx
      /\ \A a \in Requests \ {q} : flight'[a] = flight[a]
  BY <1>2, <1>5
<1>7. TypeOK'
  BY <1>2, <1>3, <1>6 DEF Inv, TypeOK, IsTx
<1>8. RoomKept'
  <2>1. Creating' \in SUBSET Creating
    BY <1>1, <1>6 DEF Creating
  <2>2. Cardinality(Creating') <= Cardinality(Creating) /\ IsFiniteSet(Creating')
    BY <2>1, Counted, FS_Subset
  <2>3. Cardinality(Creating') \in Nat
    BY <2>2, FS_CardinalityType
  <2> QED
    BY <1>2, <2>2, <2>3, Counted, Table DEF Inv, RoomKept
<1>9. RequestsKept'
  BY <1>2, <1>4, <1>6 DEF Inv, RequestsKept, Means, EndsEarlier
<1> QED
  BY <1>2, <1>7, <1>8, <1>9 DEF Inv, OneQueuedPerAccount, JobInTime

\* A question keeps the invariant: there is room for its challenge, and it ends the earlier ones.
LEMMA OpensNew ==
    ASSUME Inv, NEW q \in Requests, NEW writes, NEW c, Writable(writes), Open(q, writes, {c}),
           c \in Row, InOrder(c), c.seen <= last,
           EndsEarlier([writes |-> writes, create |-> {c}, clean |-> TRUE]),
           last + Cardinality(Creating) < MaxRows
    PROVE  Inv'
<1> DEFINE tx == [writes |-> writes, create |-> {c}, clean |-> TRUE]
<1>1. /\ tx.writes = writes /\ tx.create = {c} /\ tx.clean = TRUE
      /\ DOMAIN tx = {"writes", "create", "clean"}
  OBVIOUS
<1>2. /\ flight' = [flight EXCEPT ![q] = tx]
      /\ UNCHANGED <<now, challenge, last, cron, delivered, guesses>>
  BY DEF Open
<1>3. EndsEarlier(tx)
  OBVIOUS
<1> HIDE DEF tx
<1>4. IsTx(tx)
  <2>1. \E d \in tx.create : tx.create = {d} /\ d \in Row
    BY <1>1
  <2> QED
    BY <1>1, <2>1, Table DEF IsTx, Writable, Inv
<1>5. Means(tx)
  BY <1>1 DEF Means, Writable
<1>6. DOMAIN flight = Requests
  BY DEF Inv, TypeOK
<1>7. /\ DOMAIN flight' = Requests /\ flight'[q] = tx
      /\ \A a \in Requests \ {q} : flight'[a] = flight[a]
  BY <1>2, <1>6
<1>8. TypeOK'
  BY <1>2, <1>4, <1>7 DEF Inv, TypeOK, IsTx
<1>9. RoomKept'
  <2>1. Creating' \subseteq Creating \cup {q}
    BY <1>1, <1>7 DEF Creating
  <2>2. /\ IsFiniteSet(Creating \cup {q})
        /\ Cardinality(Creating \cup {q}) =
              IF q \in Creating THEN Cardinality(Creating) ELSE Cardinality(Creating) + 1
    BY Counted, FS_AddElement
  <2>3. /\ IsFiniteSet(Creating')
        /\ Cardinality(Creating') <= Cardinality(Creating \cup {q})
    BY <2>1, <2>2, FS_Subset
  <2>4. Cardinality(Creating') \in Nat
    BY <2>3, FS_CardinalityType
  <2>5. Cardinality(Creating') <= Cardinality(Creating) + 1
    BY <2>2, <2>3, <2>4, Counted
  <2> QED
    BY <1>2, <2>4, <2>5, Counted, Table DEF Inv, RoomKept
<1>10. RequestsKept'
  BY <1>2, <1>3, <1>5, <1>7 DEF Inv, RequestsKept, Means, EndsEarlier
<1> QED
  BY <1>2, <1>8, <1>9, <1>10 DEF Inv, OneQueuedPerAccount, JobInTime

\* Writing one row of the table.
LEMMA OneWrite ==
    ASSUME NEW i \in DOMAIN challenge, NEW c \in Row, InOrder(c),
           c.asker \in Partners => c.state # "queued"
    PROVE  Writable(Write(i, c))
<1>1. /\ DOMAIN Write(i, c) = {i} /\ Write(i, c)[i] = c /\ Write(i, c) \in [{i} -> Row]
  BY DEF Write
<1> QED
  BY <1>1 DEF Writable

\* A browser takes over a code that still works: of a browser, the account's own stays its own.
LEMMA ReuseKeeps ==
    ASSUME Inv, NEW q \in Requests, NEW by \in Askers, NEW m \in Mobiles, Reuse(q, by, m)
    PROVE  Inv'
<1> DEFINE i == Reusable(by, m)
           c == [challenge[i] EXCEPT !.asker = by]
<1>1. /\ i # 0 /\ challenge[i].asker # by
      /\ Open(q, Write(i, c), {})
  BY DEF Reuse
<1>2. i \in DOMAIN challenge /\ MayReuse(by, challenge[i])
  BY <1>1, ReusableIs DEF Inv
<1>3. challenge[i] \in Row /\ InOrder(challenge[i])
  BY <1>2, Table DEF Inv
<1>4. /\ c \in Row /\ c.asker = by /\ c.pending = challenge[i].pending
      /\ c.state = challenge[i].state /\ c.sent_at = challenge[i].sent_at
      /\ c.queued_at = challenge[i].queued_at
  BY <1>3 DEF Row
<1>5. by \notin Partners
  BY <1>1, <1>2 DEF MayReuse
<1> HIDE DEF i, c
<1>6. InOrder(c)
  BY <1>3, <1>4 DEF InOrder
<1>7. Writable(Write(i, c))
  BY <1>2, <1>4, <1>5, <1>6, OneWrite
<1> QED
  BY <1>1, <1>7, OpensWrites

\* A question.
LEMMA AskKeeps ==
    ASSUME Inv, NEW q \in Requests, NEW by \in Askers, NEW m \in Mobiles,
           NEW force \in BOOLEAN, NEW taken \in BOOLEAN, Ask(q, by, m, force, taken)
    PROVE  Inv'
<1> DEFINE gone(i) == [challenge[i] EXCEPT !.state = "expired", !.pending = FALSE]
           writes == [i \in Superseded(by) |-> gone(i)]
           c == NewRow(by, m)
<1>1. last + Cardinality(Creating) < MaxRows /\ Open(q, writes, {c})
  BY DEF Ask
<1>2. ASSUME NEW i \in DOMAIN challenge
      PROVE  gone(i) \in Row /\ gone(i).state = "expired" /\ gone(i).pending = FALSE
  <2>1. challenge[i] \in Row
    BY Table DEF Inv
  <2> QED
    BY <2>1 DEF Row, State
<1>3. Superseded(by) \subseteq DOMAIN challenge
  BY DEF Superseded
<1>4. DOMAIN writes = Superseded(by) /\ \A i \in Superseded(by) : writes[i] = gone(i)
  OBVIOUS
<1>5. \A i \in DOMAIN writes :
         writes[i] \in Row /\ writes[i].state = "expired" /\ writes[i].pending = FALSE
  BY <1>2, <1>3, <1>4
<1>6. writes = [i \in DOMAIN writes |-> writes[i]]
  OBVIOUS
<1>7. /\ c \in Row /\ c.asker = by /\ c.state = "queued" /\ c.pending = TRUE /\ c.seen <= last
  <2>1. now \in Nat /\ last \in Nat /\ MaxTries \in Nat /\ Never \in Int
    BY Table, LimitsAssumption DEF Inv, Never
  <2> QED
    BY <2>1 DEF NewRow, Row, State
<1>8. EndsEarlier([writes |-> writes, create |-> {c}, clean |-> TRUE])
  BY <1>4, <1>7 DEF EndsEarlier, Superseded
<1> HIDE DEF writes, c, gone
<1>9. Writable(writes)
  <2>1. writes \in [DOMAIN writes -> Row]
    BY <1>5, <1>6
  <2> QED
    BY <2>1, <1>3, <1>4, <1>5 DEF Writable, InOrder
<1>10. InOrder(c)
  BY <1>7 DEF InOrder
<1> QED
  BY <1>1, <1>7, <1>8, <1>9, <1>10, OpensNew

\* The page settles a wait that is over and a code that is too old.
LEMMA PageKeeps ==
    ASSUME Inv, NEW q \in Requests, NEW by \in Askers, Page(q, by)
    PROVE  Inv'
<1> DEFINE i == Latest(by)
           c == challenge[i]
           s == Settled(c)
<1>1. i # 0 /\ s # c /\ Open(q, Write(i, s), {})
  BY DEF Page
<1>2. i \in DOMAIN challenge
  BY <1>1, LatestIs DEF Inv
<1>3. c \in Row /\ InOrder(c)
  BY <1>2, Table DEF Inv
<1> HIDE DEF i
<1>4. /\ s \in Row /\ s.pending = FALSE /\ s.state \in {"failed", "expired"}
  <2>1. CASE c.state = "queued" /\ now - c.queued_at > WaitLimit
    <3>1. s = [c EXCEPT !.state = "failed", !.pending = FALSE]
      BY <2>1 DEF Settled
    <3> QED
      BY <3>1, <1>3 DEF Row, State
  <2>2. CASE c.state = "sent" /\ now > ExpiresAt(c)
    <3>1. s = [c EXCEPT !.state = "expired"]
      BY <2>2 DEF Settled
    <3> QED
      BY <3>1, <2>2, <1>3 DEF Row, State, InOrder
  <2>3. CASE ~(c.state = "queued" /\ now - c.queued_at > WaitLimit)
             /\ ~(c.state = "sent" /\ now > ExpiresAt(c))
    BY <2>3, <1>1 DEF Settled
  <2> QED
    BY <2>1, <2>2, <2>3
<1> HIDE DEF s
<1>5. InOrder(s) /\ s.state # "queued"
  BY <1>4 DEF InOrder
<1>6. Writable(Write(i, s))
  BY <1>2, <1>4, <1>5, OneWrite
<1> QED
  BY <1>1, <1>6, OpensWrites

\* What a code that was typed makes of a row that is sent.
LEMMA CheckedIs ==
    ASSUME Inv, NEW i \in DOMAIN challenge, challenge[i].state = "sent",
           NEW right \in BOOLEAN, NEW taken \in BOOLEAN
    PROVE  /\ Checked(i, right, taken) \in Row
           /\ Checked(i, right, taken).state # "queued"
           /\ InOrder(Checked(i, right, taken))
<1> DEFINE c == challenge[i]
           tried == [c EXCEPT !.tries = c.tries + 1]
           wrong == [tried EXCEPT !.wrong_count = c.wrong_count + 1, !.last_wrong_at = now]
           rows == [challenge EXCEPT ![i] = wrong]
           end(r, st) == [r EXCEPT !.state = st]
           kept(r) == /\ r.state = "sent" /\ r.pending = c.pending
                      /\ r.sent_at = c.sent_at /\ r.queued_at = c.queued_at
<1>1. c \in Row /\ InOrder(c) /\ now \in Nat /\ MaxTries \in Nat
  BY Table, LimitsAssumption DEF Inv
<1>2. c.tries \in 0..MaxTries /\ c.wrong_count \in Nat
  BY <1>1 DEF Row
<1>3. c.tries < MaxTries => tried \in Row /\ kept(tried)
  BY <1>1, <1>2 DEF Row
<1>4. c.tries < MaxTries => wrong \in Row /\ kept(wrong)
  <2>1. ASSUME NEW r \in Row, NEW n \in Nat
        PROVE  LET w == [r EXCEPT !.wrong_count = n, !.last_wrong_at = now]
               IN  /\ w \in Row /\ w.state = r.state /\ w.pending = r.pending
                   /\ w.sent_at = r.sent_at /\ w.queued_at = r.queued_at
    <3> DEFINE w == [r EXCEPT !.wrong_count = n, !.last_wrong_at = now]
    <3>1. now \in Int
      BY <1>1
    <3>2. w \in Row
      BY <3>1 DEF Row
    <3>3. /\ w.state = r.state /\ w.pending = r.pending
          /\ w.sent_at = r.sent_at /\ w.queued_at = r.queued_at
      BY DEF Row
    <3> QED
      BY <3>2, <3>3
  <2>2. c.wrong_count + 1 \in Nat
    BY <1>2
  <2> HIDE DEF tried
  <2> QED
    BY <1>3, <2>1, <2>2
<1>5. kept(c)
  OBVIOUS
<1>6. ASSUME NEW r \in Row, kept(r), NEW st \in {"expired", "done"}
      PROVE  end(r, st) \in Row /\ end(r, st).state # "queued" /\ InOrder(end(r, st))
  <2>1. end(r, st) \in Row /\ end(r, st).state = st /\ end(r, st).pending = r.pending
    BY <1>6 DEF Row, State
  <2>2. r.pending = FALSE
    BY <1>6, <1>1, <1>5 DEF InOrder
  <2> HIDE DEF end
  <2> QED
    BY <2>1, <2>2 DEF InOrder
<1>7. ASSUME NEW r \in Row, kept(r)
      PROVE  r.state # "queued" /\ InOrder(r)
  BY <1>7, <1>1, <1>5 DEF InOrder
<1>8. CASE c.tries >= MaxTries
  <2>1. Checked(i, right, taken) = end(c, "expired")
    <3>1. ~(c.tries < MaxTries /\ ~right)
      BY <1>8, <1>1, <1>2
    <3> QED
      BY <1>8, <3>1 DEF Checked
  <2> HIDE DEF c, end, kept
  <2> QED
    BY <2>1, <1>1, <1>5, <1>6
<1>9. CASE c.tries < MaxTries /\ ~right
  <2>1. Checked(i, right, taken) =
           IF LockedIn(rows, c.mobile) \/ wrong.tries >= MaxTries
           THEN end(wrong, "expired") ELSE wrong
    BY <1>9, <1>1, <1>2 DEF Checked
  <2>2. wrong \in Row /\ kept(wrong)
    BY <1>4, <1>9
  <2> HIDE DEF c, wrong, rows, end, kept
  <2> QED
    BY <2>1, <2>2, <1>6, <1>7
<1>10. CASE c.tries < MaxTries /\ right
  <2>1. Checked(i, right, taken) =
           IF c.asker \in Partners /\ taken THEN end(tried, "expired") ELSE end(tried, "done")
    <3>1. ~(c.tries >= MaxTries) /\ ~(c.tries < MaxTries /\ ~right)
      BY <1>10, <1>1, <1>2
    <3> QED
      BY <3>1 DEF Checked
  <2>2. tried \in Row /\ kept(tried)
    BY <1>3, <1>10
  <2> HIDE DEF c, tried, end, kept
  <2> QED
    BY <2>1, <2>2, <1>6
<1> QED
  BY <1>1, <1>2, <1>8, <1>9, <1>10

\* A code is typed.
LEMMA SubmitKeeps ==
    ASSUME Inv, NEW q \in Requests, NEW by \in Askers, NEW typed, NEW taken \in BOOLEAN,
           Submit(q, by, typed, taken)
    PROVE  Inv'
<1> DEFINE i == Latest(by)
           c == Checked(i, typed = i, taken)
<1>1. i # 0 /\ Settled(challenge[i]).state = "sent" /\ Open(q, Write(i, c), {})
  BY DEF Submit
<1>2. i \in DOMAIN challenge
  BY <1>1, LatestIs DEF Inv
<1>3. challenge[i] \in Row
  BY <1>2, Table DEF Inv
<1>4. challenge[i].state = "sent"
  <2> DEFINE r == challenge[i]
  <2>1. CASE r.state = "queued" /\ now - r.queued_at > WaitLimit
    BY <1>1, <1>3, <2>1 DEF Settled, Row
  <2>2. CASE r.state = "sent" /\ now > ExpiresAt(r)
    BY <2>2
  <2>3. CASE ~(r.state = "queued" /\ now - r.queued_at > WaitLimit)
             /\ ~(r.state = "sent" /\ now > ExpiresAt(r))
    BY <1>1, <2>3 DEF Settled
  <2> QED
    BY <2>1, <2>2, <2>3
<1> HIDE DEF i
<1>5. c \in Row /\ c.state # "queued" /\ InOrder(c)
  BY <1>2, <1>4, CheckedIs
<1> HIDE DEF c
<1>6. Writable(Write(i, c))
  BY <1>2, <1>5, OneWrite
<1> QED
  BY <1>1, <1>6, OpensWrites

\* `f' are flights of requests that are under way, with the plans they have or none any more.
PlansFrom(f) ==
    /\ DOMAIN f = Requests
    /\ \A a \in Requests :
          f[a] # Idle => flight[a] # Idle /\ (f[a] = flight[a] \/ f[a] = Stale)

\* What a request that will be refused means to write: nothing.
LEMMA StaleIs ==
    /\ Stale.writes = NoWrites /\ Stale.create = {} /\ Stale.clean = FALSE
    /\ DOMAIN Stale = {"writes", "create", "clean"}
    /\ DOMAIN Stale.writes = {} /\ Stale.writes \in [{} -> Row]
BY DEF Stale, NoWrites

\* A request that has become stale is still under way.
LEMMA DirtiedPlans ==
    ASSUME NEW ids
    PROVE  PlansFrom(Dirtied(ids))
BY DEF PlansFrom, Dirtied

\* Plans stay in order as long as ids are only added.
LEMMA PlansKeep ==
    ASSUME Inv, PlansFrom(flight'), last' \in Nat, last <= last'
    PROVE  /\ \A a \in Requests : flight'[a] = Idle \/ IsTx(flight[a])'
           /\ \A a \in Requests : flight'[a] # Idle => Means(flight[a])'
           /\ Creating' \subseteq Creating
<1>1. 1..last \subseteq 1..last' /\ last \in Nat
  BY Table DEF Inv
<1>2. ASSUME NEW a \in Requests, flight'[a] # Idle
      PROVE  /\ IsTx(flight[a])' /\ Means(flight[a])'
             /\ flight'[a].create # {} => flight[a].create # {}
  <2> DEFINE tx == flight[a]
  <2>1. /\ flight[a] # Idle
        /\ flight'[a] = tx \/ flight'[a] = Stale
    BY <1>2 DEF PlansFrom
  <2>2. IsTx(tx) /\ Means(tx)
    BY <2>1 DEF Inv, TypeOK, RequestsKept
  <2>3. CASE flight'[a] = tx
    <3>1. \A c \in tx.create : c.seen \in Nat
      BY <2>2 DEF IsTx, Row
    <3> HIDE DEF tx
    <3>2. \A c \in tx.create : c.seen <= last'
      BY <1>1, <2>2, <3>1 DEF Means
    <3>3. IsTx(flight[a])'
      BY <1>1, <2>2, <2>3 DEF IsTx
    <3> QED
      <4>1. Means(flight[a])'
        BY <2>2, <2>3, <3>2 DEF Means, InOrder
      <4> QED
        BY <2>3, <3>3, <4>1 DEF tx
  <2>4. CASE flight'[a] = Stale
    BY <2>4, StaleIs DEF IsTx, Means, InOrder
  <2> QED
    BY <2>1, <2>3, <2>4
<1>3. Creating' \subseteq Creating
  BY <1>2 DEF Creating, PlansFrom
<1> QED
  BY <1>2, <1>3

\* `rows' are the table's, less those deleted, and a row still queued is as it was.
FewerQueued(rows) ==
    /\ DOMAIN rows \subseteq DOMAIN challenge
    /\ rows \in [DOMAIN rows -> Row]
    /\ \A i \in DOMAIN rows :
          /\ InOrder(rows[i])
          /\ rows[i].state = "queued" => rows[i] = challenge[i]

\* What neither creates nor queues a challenge keeps the invariant.
LEMMA FewerKeeps ==
    ASSUME Inv, PlansFrom(flight'), FewerQueued(challenge'), now' \in Time, last' = last,
           guesses' = guesses, delivered' \subseteq 1..last,
           cron' \in Job, cron'.todo \subseteq DOMAIN challenge', JobInTime'
    PROVE  Inv'
<1>1. /\ \A a \in Requests : flight'[a] = Idle \/ IsTx(flight[a])'
      /\ \A a \in Requests : flight'[a] # Idle => Means(flight[a])'
      /\ Creating' \subseteq Creating
  BY PlansKeep, Table DEF Inv
<1>2. TypeOK'
  BY <1>1 DEF Inv, TypeOK, PlansFrom, FewerQueued
<1>3. RoomKept'
  <2>1. Cardinality(Creating') <= Cardinality(Creating) /\ IsFiniteSet(Creating')
    BY <1>1, Counted, FS_Subset
  <2>2. Cardinality(Creating') \in Nat
    BY <2>1, FS_CardinalityType
  <2> QED
    BY <2>1, <2>2, Counted, Table DEF Inv, RoomKept
<1>4. OneQueuedPerAccount'
  <2>1. \A i \in DOMAIN challenge' : challenge'[i].state = "queued" =>
           i \in DOMAIN challenge /\ challenge'[i] = challenge[i]
    BY DEF FewerQueued
  <2> QED
    BY <2>1 DEF Inv, OneQueuedPerAccount
<1>5. ASSUME NEW a \in Requests, flight'[a] # Idle
      PROVE  EndsEarlier(flight[a])'
  <2>1. \/ EndsEarlier(flight[a]) /\ flight'[a] = flight[a]
        \/ flight'[a].create = {}
    BY <1>5, StaleIs DEF Inv, RequestsKept, PlansFrom
  <2> QED
    BY <2>1 DEF EndsEarlier, FewerQueued
<1>6. RequestsKept'
  BY <1>1, <1>5 DEF RequestsKept
<1>7. \A i \in DOMAIN challenge' : InOrder(challenge'[i])
  BY DEF FewerQueued
<1>8. (\A i \in DOMAIN challenge : InOrder(challenge[i]))'
  BY <1>7 DEF InOrder
<1> QED
  BY <1>2, <1>3, <1>4, <1>6, <1>8 DEF Inv

\* The table as it is.
LEMMA SameRows ==
    ASSUME Inv
    PROVE  FewerQueued(challenge) /\ PlansFrom(flight) /\ delivered \subseteq 1..last
BY DEF Inv, TypeOK, FewerQueued, PlansFrom

-----------------------------------------------------------------------------
(* Steps that queue nothing *)

\* A refused request leaves everything as it is.
LEMMA RefuseKeeps ==
    ASSUME Inv, NEW q \in Requests, Refuse(q)
    PROVE  Inv'
<1>1. /\ UNCHANGED <<now, challenge, last, cron, delivered, guesses>>
      /\ flight' = [flight EXCEPT ![q] = Idle]
  BY DEF Refuse
<1>2. PlansFrom(flight) /\ FewerQueued(challenge) /\ delivered \subseteq 1..last
  BY SameRows
<1>3. PlansFrom(flight')
  BY <1>1, <1>2 DEF PlansFrom
<1>4. cron' \in Job /\ cron'.todo \subseteq DOMAIN challenge' /\ JobInTime' /\ now' \in Time
  BY <1>1 DEF Inv, TypeOK, JobInTime
<1> QED
  BY <1>1, <1>2, <1>3, <1>4, FewerKeeps

\* Time passes while the job waits for the provider, CronLimit at most.
LEMMA TickKeeps ==
    ASSUME Inv, Tick
    PROVE  Inv'
<1>1. /\ UNCHANGED <<challenge, last, flight, cron, delivered, guesses>>
      /\ now' = now + 1 /\ now < MaxTime
      /\ cron = NoJob \/ now - cron.began < CronLimit
  BY DEF Tick
<1>2. now' \in Time
  BY <1>1, Table DEF Inv, Time
<1>3. JobInTime'
  <2>1. cron = NoJob => cron.phase = "idle"
    BY DEF NoJob
  <2>2. cron.began \in Nat /\ CronLimit \in Nat /\ now \in Nat
    BY Table, TimesAssumption DEF Inv, TypeOK, Job
  <2>3. cron.phase # "idle" => cron.began <= now' /\ now' <= cron.began + CronLimit
    BY <1>1, <2>1, <2>2 DEF Inv, JobInTime
  <2> QED
    BY <1>1, <2>3 DEF Inv, JobInTime
<1>4. PlansFrom(flight) /\ FewerQueued(challenge) /\ delivered \subseteq 1..last
  BY SameRows
<1>5. cron' \in Job /\ cron'.todo \subseteq DOMAIN challenge'
  BY <1>1 DEF Inv, TypeOK
<1> QED
  BY <1>1, <1>2, <1>3, <1>4, <1>5, FewerKeeps

\* The job before and after a run.
LEMMA NoJobIs ==
    /\ NoJob \in Job /\ NoJob.phase = "idle" /\ NoJob.todo = {} /\ NoJob.clean = TRUE
<1>1. MaxRows \in Nat /\ 0 \in 0..MaxRows /\ {} \in SUBSET Ids
  BY TimesAssumption
<1> QED
  BY <1>1 DEF NoJob, Job

\* `j' is a run that began at `b', with `t' to do.
RunAt(j, p, t, b) == j \in Job /\ j.phase = p /\ j.todo = t /\ j.began = b
RunWith(j, p, t, b, i) == RunAt(j, p, t, b) /\ j.id = i

\* What a run remembers between two rows, and while it has one in its hands.
LEMMA JobOf ==
    ASSUME NEW p \in {"idle", "loop", "late", "sending"}, NEW t \in SUBSET Ids, NEW b \in Nat
    PROVE  /\ RunAt([NoJob EXCEPT !.phase = p, !.began = b, !.todo = t], p, t, b)
           /\ RunAt([NoJob EXCEPT !.phase = p, !.began = b], p, {}, b)
           /\ \A i \in 0..MaxRows, k \in BOOLEAN :
                 RunWith([NoJob EXCEPT !.phase = p, !.todo = t, !.began = b, !.id = i, !.code = k],
                         p, t, b, i)
<1>1. ASSUME NEW n \in Job
      PROVE  RunAt([n EXCEPT !.phase = p, !.began = b, !.todo = t], p, t, b)
  BY DEF Job, RunAt
<1>2. ASSUME NEW n \in Job
      PROVE  RunAt([n EXCEPT !.phase = p, !.began = b], p, n.todo, b)
  BY DEF Job, RunAt
<1>3. ASSUME NEW n \in Job, NEW i \in 0..MaxRows, NEW k \in BOOLEAN
      PROVE  RunWith([n EXCEPT !.phase = p, !.todo = t, !.began = b, !.id = i, !.code = k],
                     p, t, b, i)
  BY DEF Job, RunAt, RunWith
<1> QED
  BY <1>1, <1>2, <1>3, NoJobIs

\* The job has read a row of its list.
LEMMA ReadingIs ==
    ASSUME TypeOK, NEW todo, todo \subseteq DOMAIN challenge, NEW i \in todo, NEW began \in Nat
    PROVE  /\ Reading(i, todo, began) \in Job
           /\ Reading(i, todo, began).phase \in {"late", "sending"}
           /\ Reading(i, todo, began).id = i
           /\ Reading(i, todo, began).todo = todo
           /\ Reading(i, todo, began).began = began
           /\ Reading(i, todo, began).phase = "sending" =>
                 began - challenge[i].queued_at <= WaitLimit
<1>1. challenge[i] \in Row /\ i \in Ids /\ todo \subseteq Ids /\ MaxRows \in Nat
  BY Table
<1>2. challenge[i].pending \in BOOLEAN /\ challenge[i].queued_at \in Nat /\ i \in 0..MaxRows
  BY <1>1 DEF Row, Ids
<1>3. WaitLimit \in Nat
  BY TimesAssumption
<1> DEFINE p == IF began - challenge[i].queued_at > WaitLimit THEN "late" ELSE "sending"
           k == challenge[i].pending
           j == [NoJob EXCEPT !.phase = p, !.todo = todo, !.began = began, !.id = i, !.code = k]
<1>4. Reading(i, todo, began) = j
  BY DEF Reading
<1>5. /\ p \in {"late", "sending"}
      /\ p = "sending" => began - challenge[i].queued_at <= WaitLimit
  BY <1>2, <1>3
<1>6. k \in BOOLEAN
  BY <1>2
<1> HIDE DEF p, k
<1>7. p \in {"idle", "loop", "late", "sending"}
  BY <1>5
<1>8. todo \in SUBSET Ids
  BY <1>1
<1>9. RunWith(j, p, todo, began, i)
  BY <1>2, <1>6, <1>7, <1>8, JobOf
<1> HIDE DEF j
<1> QED
  BY <1>4, <1>5, <1>9 DEF RunAt, RunWith

\* A step of the job alone.
LEMMA JobAlone ==
    ASSUME Inv, UNCHANGED <<now, challenge, last, flight, guesses>>, delivered' \subseteq 1..last,
           cron' \in Job, cron'.todo \subseteq DOMAIN challenge, JobInTime'
    PROVE  Inv'
<1>1. PlansFrom(flight) /\ FewerQueued(challenge) /\ now \in Time
  BY SameRows DEF Inv, TypeOK
<1> QED
  BY <1>1, FewerKeeps

\* The job begins.
LEMMA JobStartsKeeps ==
    ASSUME Inv, JobStarts
    PROVE  Inv'
<1> DEFINE todo == {i \in DOMAIN challenge : challenge[i].state = "queued"}
<1>1. UNCHANGED <<now, challenge, last, flight, delivered, guesses>>
  BY DEF JobStarts
<1>2. /\ todo \subseteq DOMAIN challenge /\ todo \in SUBSET DOMAIN challenge
      /\ now \in Nat /\ CronLimit \in Nat /\ delivered' \subseteq 1..last
  BY <1>1, Table, TimesAssumption DEF Inv, TypeOK
<1>3. \/ todo # {} /\ cron' = Reading(Min(todo), todo, now)
      \/ cron' = [NoJob EXCEPT !.phase = "loop", !.began = now]
  BY DEF JobStarts
<1>4. CASE todo # {} /\ cron' = Reading(Min(todo), todo, now)
  <2> HIDE DEF todo
  <2>1. Min(todo) \in todo
    BY <1>2, <1>4, NextIsOne DEF Inv
  <2>2. /\ cron' \in Job /\ cron'.phase \in {"late", "sending"} /\ cron'.id = Min(todo)
        /\ cron'.todo = todo /\ cron'.began = now
        /\ cron'.phase = "sending" => now - challenge[Min(todo)].queued_at <= WaitLimit
    BY <1>2, <1>4, <2>1, ReadingIs DEF Inv
  <2>3. JobInTime'
    BY <1>1, <1>2, <2>1, <2>2 DEF JobInTime
  <2> QED
    BY <1>1, <1>2, <2>2, <2>3, JobAlone
<1>5. CASE cron' = [NoJob EXCEPT !.phase = "loop", !.began = now]
  <2>1. cron' \in Job /\ cron'.phase = "loop" /\ cron'.began = now /\ cron'.todo = {}
    <3>1. {} \in SUBSET Ids
      OBVIOUS
    <3>2. RunAt([NoJob EXCEPT !.phase = "loop", !.began = now], "loop", {}, now)
      BY <1>2, <3>1, JobOf
    <3>3. RunAt(cron', "loop", {}, now)
      BY <1>5, <3>2
    <3> QED
      BY <3>3 DEF RunAt
  <2>2. JobInTime'
    BY <1>1, <1>2, <2>1 DEF JobInTime
  <2> QED
    BY <1>1, <1>2, <2>1, <2>2, JobAlone
<1> QED
  BY <1>3, <1>4, <1>5

\* The job reads the next row.
LEMMA JobReadsKeeps ==
    ASSUME Inv, JobReads
    PROVE  Inv'
<1>1. /\ UNCHANGED <<now, challenge, last, flight, delivered, guesses>>
      /\ cron.phase = "loop" /\ cron.todo # {}
      /\ cron' = Reading(Min(cron.todo), cron.todo, cron.began)
  BY DEF JobReads
<1>2. /\ cron.todo \subseteq DOMAIN challenge /\ cron.todo \in SUBSET DOMAIN challenge
      /\ cron.began \in Nat /\ delivered' \subseteq 1..last
      /\ cron.began <= now /\ now <= cron.began + CronLimit
  BY <1>1 DEF Inv, TypeOK, Job, JobInTime
<1>3. Min(cron.todo) \in cron.todo
  BY <1>1, <1>2, NextIsOne DEF Inv
<1>4. /\ cron' \in Job /\ cron'.phase \in {"late", "sending"} /\ cron'.id = Min(cron.todo)
      /\ cron'.todo = cron.todo /\ cron'.began = cron.began
      /\ cron'.phase = "sending" =>
            cron.began - challenge[Min(cron.todo)].queued_at <= WaitLimit
  BY <1>1, <1>2, <1>3, ReadingIs DEF Inv
<1>5. JobInTime'
  BY <1>1, <1>2, <1>3, <1>4 DEF JobInTime
<1> QED
  BY <1>1, <1>2, <1>4, <1>5, JobAlone

\* What has gone out are ids handed out.
LEMMA OutAreIds ==
    ASSUME Inv, NEW out, cron.id \in cron.todo, GoesOut(out)
    PROVE  delivered' \subseteq 1..last
<1>1. cron.id \in 1..last
  BY Table DEF Inv, TypeOK
<1> QED
  BY <1>1 DEF Inv, TypeOK, GoesOut

\* The job dies with a row in its hands.
LEMMA JobDiesKeeps ==
    ASSUME Inv, NEW out \in BOOLEAN, JobDies(out)
    PROVE  Inv'
<1>1. /\ UNCHANGED <<now, challenge, last, flight, guesses>>
      /\ cron' = NoJob /\ GoesOut(out) /\ cron.id \in cron.todo
  BY DEF JobDies, Inv, JobInTime
<1>2. delivered' \subseteq 1..last
  BY <1>1, OutAreIds
<1>3. cron' \in Job /\ cron'.phase = "idle" /\ cron'.todo = {}
  BY <1>1, NoJobIs
<1>4. JobInTime'
  BY <1>3 DEF JobInTime
<1> QED
  BY <1>1, <1>2, <1>3, <1>4, JobAlone

\* The job has settled the row in its hands as `row' and goes on.
LEMMA SettledKeeps ==
    ASSUME Inv, NEW row \in Row, InOrder(row), row.state # "queued",
           cron.phase \in {"late", "sending"},
           challenge' = [challenge EXCEPT ![cron.id] = row],
           flight' = Dirtied({cron.id}), JobMovesOn,
           UNCHANGED <<now, last, guesses>>, delivered' \subseteq 1..last
    PROVE  Inv'
<1>1. /\ DOMAIN challenge' = DOMAIN challenge /\ cron.id \in DOMAIN challenge
      /\ \A i \in DOMAIN challenge : i # cron.id => challenge'[i] = challenge[i]
      /\ challenge'[cron.id] = row
  BY DEF Inv, TypeOK, JobInTime
<1>2. FewerQueued(challenge')
  <2>1. challenge' \in [DOMAIN challenge' -> Row]
    BY <1>1, Table DEF Inv
  <2> QED
    BY <1>1, <2>1 DEF Inv, FewerQueued
<1>3. PlansFrom(flight')
  BY DirtiedPlans
<1>4. /\ cron.began \in Nat /\ cron.todo \ {cron.id} \subseteq Ids
      /\ cron.todo \subseteq DOMAIN challenge
      /\ cron.began <= now /\ now <= cron.began + CronLimit
  BY Table DEF Inv, TypeOK, Job, JobInTime
<1>5. /\ cron' \in Job /\ cron'.phase = "loop" /\ cron'.began = cron.began
      /\ cron'.todo = cron.todo \ {cron.id}
  <2>1. cron' = [NoJob EXCEPT !.phase = "loop", !.began = cron.began,
                              !.todo = cron.todo \ {cron.id}]
    BY DEF JobMovesOn
  <2> QED
    <3>1. cron.todo \ {cron.id} \in SUBSET Ids
      BY <1>4
    <3> DEFINE rest == cron.todo \ {cron.id}
    <3> HIDE DEF rest
    <3>2. RunAt([NoJob EXCEPT !.phase = "loop", !.began = cron.began, !.todo = rest],
                "loop", rest, cron.began)
      BY <1>4, <3>1, JobOf DEF rest
    <3>3. RunAt(cron', "loop", rest, cron.began)
      BY <2>1, <3>2 DEF rest
    <3> QED
      BY <3>3 DEF RunAt, rest
<1>6. JobInTime'
  BY <1>4, <1>5 DEF JobInTime
<1>7. now' \in Time /\ cron'.todo \subseteq DOMAIN challenge'
  BY <1>1, <1>4, <1>5 DEF Inv, TypeOK
<1> QED
  BY <1>2, <1>3, <1>5, <1>6, <1>7, FewerKeeps

\* A row that waited too long.
LEMMA JobGivesUpKeeps ==
    ASSUME Inv, JobGivesUp
    PROVE  Inv'
<1> DEFINE row == [challenge[cron.id] EXCEPT !.state = "failed", !.pending = FALSE]
<1>1. /\ cron.phase \in {"late", "sending"} /\ cron.id \in DOMAIN challenge
      /\ flight' = Dirtied({cron.id}) /\ JobMovesOn
      /\ UNCHANGED <<now, last, delivered, guesses>>
  BY DEF JobGivesUp, Inv, TypeOK, JobInTime
<1>2. challenge[cron.id] \in Row
  BY <1>1, Table DEF Inv
<1>3. row \in Row /\ row.state = "failed" /\ row.pending = FALSE
  BY <1>2 DEF Row, State
<1>4. challenge' = [challenge EXCEPT ![cron.id] = row]
  BY <1>1 DEF JobGivesUp
<1>5. delivered' \subseteq 1..last
  BY <1>1 DEF Inv, TypeOK
<1> HIDE DEF row
<1>6. InOrder(row)
  BY <1>3 DEF InOrder
<1> QED
  BY <1>1, <1>3, <1>4, <1>5, <1>6, SettledKeeps

\* The provider has answered.
LEMMA JobSettlesKeeps ==
    ASSUME Inv, NEW out \in BOOLEAN, JobSettles(out)
    PROVE  Inv'
<1> DEFINE c == challenge[cron.id]
           row == [c EXCEPT !.state = IF out THEN "sent" ELSE "failed",
                            !.sent_at = IF out THEN now ELSE @,
                            !.pending = FALSE]
<1>1. /\ cron.phase = "sending" /\ cron.clean /\ cron.id \in DOMAIN challenge
      /\ cron.id \in cron.todo /\ GoesOut(out)
      /\ flight' = Dirtied({cron.id}) /\ JobMovesOn
      /\ UNCHANGED <<now, last, guesses>>
  BY DEF JobSettles, Inv, TypeOK, JobInTime
<1>2. c \in Row /\ now \in Nat
  BY <1>1, Table DEF Inv
<1>3. challenge' = [challenge EXCEPT ![cron.id] = row]
  BY <1>1 DEF JobSettles
<1>4. delivered' \subseteq 1..last
  BY <1>1, OutAreIds
<1>5. /\ cron.began \in Nat /\ now <= cron.began + CronLimit
      /\ cron.began - c.queued_at <= WaitLimit
  BY <1>1 DEF Inv, TypeOK, Job, JobInTime
<1>6. CASE out
  <2>1. row = [c EXCEPT !.state = "sent", !.sent_at = now, !.pending = FALSE]
    BY <1>6
  <2>2. /\ row \in Row /\ row.state = "sent" /\ row.pending = FALSE /\ row.sent_at = now
        /\ row.queued_at = c.queued_at
    <3>1. now \in Int
      BY <1>2
    <3> HIDE DEF c
    <3>2. row \in Row
      BY <1>2, <2>1, <3>1 DEF Row, State
    <3>3. /\ row.state = "sent" /\ row.pending = FALSE /\ row.sent_at = now
          /\ row.queued_at = c.queued_at
      BY <1>2, <2>1 DEF Row
    <3> QED
      BY <3>2, <3>3
  <2>3. c.queued_at \in Nat /\ WaitLimit \in Nat /\ CronLimit \in Nat
    BY <1>2, TimesAssumption DEF Row
  <2> HIDE DEF row, c
  <2>4. InOrder(row)
    BY <1>2, <1>5, <2>2, <2>3 DEF InOrder
  <2> QED
    BY <1>1, <1>3, <1>4, <2>2, <2>4, SettledKeeps
<1>7. CASE ~out
  <2>1. row = [c EXCEPT !.state = "failed", !.pending = FALSE]
    BY <1>2, <1>7 DEF Row
  <2>2. row \in Row /\ row.state = "failed" /\ row.pending = FALSE
    BY <1>2, <2>1 DEF Row, State
  <2> HIDE DEF row, c
  <2>3. InOrder(row)
    BY <2>2 DEF InOrder
  <2> QED
    BY <1>1, <1>3, <1>4, <2>2, <2>3, SettledKeeps
<1> QED
  BY <1>6, <1>7

\* The end of a run, which deletes what is old.
LEMMA JobEndsKeeps ==
    ASSUME Inv, JobEnds
    PROVE  Inv'
<1>1. /\ challenge' = Restrict(challenge, DOMAIN challenge \ OldAt(cron.began))
      /\ flight' = Dirtied(OldAt(cron.began)) /\ cron' = NoJob
      /\ UNCHANGED <<now, last, delivered, guesses>>
  BY DEF JobEnds
<1>2. /\ DOMAIN challenge' \subseteq DOMAIN challenge
      /\ \A i \in DOMAIN challenge' : challenge'[i] = challenge[i]
      /\ challenge' \in [DOMAIN challenge' -> Row]
  BY <1>1, Table DEF Inv, Restrict
<1>3. FewerQueued(challenge')
  BY <1>2 DEF Inv, FewerQueued
<1>4. PlansFrom(flight')
  BY <1>1, DirtiedPlans
<1>5. cron' \in Job /\ cron'.phase = "idle" /\ cron'.todo = {}
  BY <1>1, NoJobIs
<1>6. JobInTime'
  BY <1>5 DEF JobInTime
<1>7. now' \in Time /\ delivered' \subseteq 1..last
  BY <1>1 DEF Inv, TypeOK
<1> QED
  BY <1>1, <1>3, <1>4, <1>5, <1>6, <1>7, FewerKeeps

-----------------------------------------------------------------------------
(* A commit *)

\* The rows of the table after `tx' has been committed: written, new, or as they were.
Written(tx) ==
    /\ DOMAIN challenge \subseteq DOMAIN challenge'
    /\ DOMAIN challenge' \subseteq 1..last'
    /\ \A i \in DOMAIN challenge' :
          \/ i \in DOMAIN challenge /\ i \in DOMAIN tx.writes /\ challenge'[i] = tx.writes[i]
          \/ i \in DOMAIN challenge /\ i \notin DOMAIN tx.writes /\ challenge'[i] = challenge[i]
          \/ i = last + 1 /\ i \notin DOMAIN tx.writes /\ challenge'[i] \in tx.create
    /\ challenge' = [i \in DOMAIN challenge' |-> challenge'[i]]

LEMMA CommitWrites ==
    ASSUME Inv, NEW q \in Requests, Commit(q)
    PROVE  /\ flight[q] # Idle /\ IsTx(flight[q])
           /\ Means(flight[q]) /\ EndsEarlier(flight[q])
           /\ last' = IF flight[q].create = {} THEN last ELSE last + 1
           /\ Written(flight[q])
<1> DEFINE tx == flight[q]
           new == IF tx.create = {} THEN {} ELSE {last + 1}
<1>1. /\ tx # Idle
      /\ challenge' = [i \in DOMAIN challenge \cup new |->
                          IF i \in DOMAIN tx.writes THEN tx.writes[i]
                          ELSE IF i \in new THEN CHOOSE c \in tx.create : TRUE
                          ELSE challenge[i]]
      /\ last' = last + Cardinality(new)
  BY DEF Commit
<1>2. IsTx(tx) /\ Means(tx) /\ EndsEarlier(tx)
  BY <1>1 DEF Inv, TypeOK, RequestsKept
<1>3. /\ DOMAIN tx.writes \subseteq 1..last
      /\ tx.create # {} => (CHOOSE c \in tx.create : TRUE) \in tx.create
  BY <1>2 DEF IsTx
<1>4. last \in Nat /\ DOMAIN challenge \subseteq 1..last
  BY Table DEF Inv
<1>5. last' = IF tx.create = {} THEN last ELSE last + 1
  <2>1. Cardinality({}) = 0 /\ Cardinality({last + 1}) = 1
    BY FS_EmptySet, FS_Singleton
  <2> QED
    BY <1>1, <1>4, <2>1
<1> HIDE DEF tx
<1>6. Written(tx)
  <2>1. DOMAIN challenge' = DOMAIN challenge \cup new
    BY <1>1
  <2>2. DOMAIN challenge' \subseteq 1..last'
    BY <1>4, <1>5, <2>1
  <2>3. ASSUME NEW i \in DOMAIN challenge'
        PROVE  \/ i \in DOMAIN challenge /\ i \in DOMAIN tx.writes /\ challenge'[i] = tx.writes[i]
               \/ i \in DOMAIN challenge /\ i \notin DOMAIN tx.writes /\ challenge'[i] = challenge[i]
               \/ i = last + 1 /\ i \notin DOMAIN tx.writes /\ challenge'[i] \in tx.create
    <3>1. CASE i \in DOMAIN challenge
      <4>1. i \notin new
        BY <1>4, <3>1
      <4> QED
        BY <1>1, <3>1, <4>1
    <3>2. CASE i \notin DOMAIN challenge
      <4>1. i = last + 1 /\ tx.create # {} /\ i \in new
        BY <2>1, <3>2
      <4>2. i \notin DOMAIN tx.writes
        BY <1>3, <1>4, <4>1
      <4> QED
        BY <1>1, <1>3, <4>1, <4>2
    <3> QED
      BY <3>1, <3>2
  <2>4. challenge' = [i \in DOMAIN challenge' |-> challenge'[i]]
    BY <1>1
  <2> QED
    BY <2>1, <2>2, <2>3, <2>4 DEF Written
<1> QED
  BY <1>1, <1>2, <1>5, <1>6 DEF tx

\* The others' plans after a commit; whoever committed has none.
LEMMA CommitPlans ==
    ASSUME Inv, NEW q \in Requests, Commit(q)
    PROVE  /\ PlansFrom(flight') /\ flight'[q] = Idle
           /\ Creating' \subseteq Creating \ {q}
<1>1. flight' = [Dirtied(DOMAIN flight[q].writes) EXCEPT ![q] = Idle]
  BY DEF Commit
<1>2. PlansFrom(Dirtied(DOMAIN flight[q].writes))
  BY DirtiedPlans
<1> DEFINE f == Dirtied(DOMAIN flight[q].writes)
<1> HIDE DEF f
<1>3. flight' = [f EXCEPT ![q] = Idle] /\ PlansFrom(f)
  BY <1>1, <1>2 DEF f
<1>4. PlansFrom(flight') /\ flight'[q] = Idle
  BY <1>3 DEF PlansFrom
<1>5. Creating' \subseteq Creating \ {q}
  BY <1>4, StaleIs DEF Creating, PlansFrom
<1> QED
  BY <1>4, <1>5

\* A commit finds room for the challenge it creates.
LEMMA CommitRoom ==
    ASSUME Inv, NEW q \in Requests, Commit(q)
    PROVE  RoomKept' /\ last' \in 0..MaxRows /\ last <= last'
<1>1. /\ flight[q] # Idle
      /\ last' = IF flight[q].create = {} THEN last ELSE last + 1
  BY CommitWrites
<1>2. Creating' \subseteq Creating \ {q}
  BY CommitPlans
<1>3. /\ IsFiniteSet(Creating \ {q})
      /\ Cardinality(Creating \ {q}) =
            IF q \in Creating THEN Cardinality(Creating) - 1 ELSE Cardinality(Creating)
  BY Counted, FS_RemoveElement
<1>4. Cardinality(Creating') <= Cardinality(Creating \ {q}) /\ IsFiniteSet(Creating')
  BY <1>2, <1>3, FS_Subset
<1>5. Cardinality(Creating') \in Nat
  BY <1>4, FS_CardinalityType
<1>6. q \in Creating <=> flight[q].create # {}
  BY <1>1 DEF Creating
<1>7. /\ last + Cardinality(Creating) <= MaxRows /\ last \in Nat /\ MaxRows \in Nat
      /\ Cardinality(Creating) \in Nat
  BY Table, Counted DEF Inv, RoomKept
<1>8. Cardinality(Creating \ {q}) \in Nat
  BY <1>3, FS_CardinalityType
<1>9. last' + Cardinality(Creating') <= MaxRows /\ last' \in Nat /\ last <= last'
  <2>1. CASE flight[q].create = {}
    BY <1>1, <1>3, <1>4, <1>5, <1>6, <1>7, <2>1
  <2>2. CASE flight[q].create # {}
    BY <1>1, <1>3, <1>4, <1>5, <1>6, <1>7, <2>2
  <2> QED
    BY <2>1, <2>2
<1> QED
  BY <1>5, <1>7, <1>9, TimesAssumption DEF RoomKept

\* A commit keeps the invariant.
LEMMA CommitKeeps ==
    ASSUME Inv, NEW q \in Requests, Commit(q)
    PROVE  Inv'
<1> DEFINE tx == flight[q]
<1>1. /\ IsTx(tx) /\ Means(tx) /\ EndsEarlier(tx) /\ Written(tx)
  BY CommitWrites
<1>2. /\ UNCHANGED <<now, delivered>>
      /\ guesses' = [m \in Mobiles |-> [guesses[m] EXCEPT ![now] =
                          @ + Cardinality({i \in Wrongs(tx) : challenge[i].mobile = m})]]
      /\ cron' = IF cron.id \in DOMAIN tx.writes THEN [cron EXCEPT !.clean = FALSE] ELSE cron
  BY DEF Commit
<1>3. RoomKept' /\ last' \in 0..MaxRows /\ last <= last'
  BY CommitRoom
<1>4. PlansFrom(flight') /\ flight'[q] = Idle
  BY CommitPlans
<1> HIDE DEF tx
<1>5. /\ \A a \in Requests : flight'[a] = Idle \/ IsTx(flight[a])'
      /\ \A a \in Requests : flight'[a] # Idle => Means(flight[a])'
  <2>1. last' \in Nat
    BY <1>3, TimesAssumption
  <2> QED
    BY <1>3, <1>4, <2>1, PlansKeep
<1>6. ASSUME NEW i \in DOMAIN challenge'
      PROVE  challenge'[i] \in Row /\ InOrder(challenge'[i])
  <2>1. \A j \in DOMAIN tx.writes : tx.writes[j] \in Row /\ InOrder(tx.writes[j])
    BY <1>1 DEF IsTx, Means
  <2>2. \A c \in tx.create : c \in Row /\ InOrder(c)
    BY <1>1 DEF IsTx, Means
  <2>3. \A j \in DOMAIN challenge : challenge[j] \in Row /\ InOrder(challenge[j])
    BY Table DEF Inv
  <2> QED
    BY <1>1, <2>1, <2>2, <2>3 DEF Written
<1>7. guesses' \in [Mobiles -> [Time -> Nat]]
  <2>1. ASSUME NEW m \in Mobiles
        PROVE  Cardinality({i \in Wrongs(tx) : challenge[i].mobile = m}) \in Nat
    <3>1. IsFiniteSet(1..last)
      BY Table DEF Inv
    <3>2. {i \in Wrongs(tx) : challenge[i].mobile = m} \in SUBSET (1..last)
      BY <1>1 DEF Wrongs, IsTx
    <3> QED
      BY <3>1, <3>2, FS_Subset, FS_CardinalityType
  <2>2. guesses \in [Mobiles -> [Time -> Nat]]
    BY DEF Inv, TypeOK
  <2> DEFINE more(m) == Cardinality({i \in Wrongs(tx) : challenge[i].mobile = m})
  <2> HIDE DEF more
  <2>3. guesses' = [m \in Mobiles |-> [guesses[m] EXCEPT ![now] = @ + more(m)]]
    BY <1>2 DEF more
  <2>4. \A m \in Mobiles : more(m) \in Nat
    BY <2>1 DEF more
  <2>5. ASSUME NEW m \in Mobiles
        PROVE  [guesses[m] EXCEPT ![now] = @ + more(m)] \in [Time -> Nat]
    <3>1. guesses[m] \in [Time -> Nat] /\ more(m) \in Nat /\ now \in Time
      BY <2>2, <2>4 DEF Inv, TypeOK
    <3> DEFINE g == guesses[m]
               k == more(m)
    <3> HIDE DEF g, k
    <3>2. g \in [Time -> Nat] /\ k \in Nat
      BY <3>1 DEF g, k
    <3>3. g[now] + k \in Nat
      BY <3>1, <3>2
    <3>4. [g EXCEPT ![now] = @ + k] \in [Time -> Nat]
      BY <3>2, <3>3
    <3> QED
      BY <3>4 DEF g, k
  <2> QED
    BY <2>3, <2>5
<1>8. /\ cron' \in Job /\ cron'.todo = cron.todo /\ cron'.phase = cron.phase
      /\ cron'.id = cron.id
      /\ cron'.began = cron.began
      /\ cron'.clean => cron.clean /\ cron.id \notin DOMAIN tx.writes
  <2>1. cron \in Job
    BY DEF Inv, TypeOK
  <2>2. CASE cron.id \in DOMAIN tx.writes
    <3>1. cron' = [cron EXCEPT !.clean = FALSE]
      BY <1>2, <2>2
    <3> QED
      BY <2>1, <3>1 DEF Job
  <2>3. CASE cron.id \notin DOMAIN tx.writes
    BY <1>2, <2>1, <2>3
  <2> QED
    BY <2>2, <2>3
<1>9. TypeOK'
  <2>1. challenge' \in [DOMAIN challenge' -> Row]
    BY <1>1, <1>6 DEF Written
  <2>2. /\ DOMAIN challenge' \subseteq 1..last' /\ DOMAIN challenge \subseteq DOMAIN challenge'
    BY <1>1 DEF Written
  <2>3. DOMAIN flight' = Requests
    BY <1>4 DEF PlansFrom
  <2>4. delivered' \subseteq 1..last'
    BY <1>2, <1>3, Table DEF Inv, TypeOK
  <2>5. now' \in Time /\ cron'.todo \subseteq DOMAIN challenge'
    BY <1>2, <1>8, <2>2 DEF Inv, TypeOK
  <2> QED
    BY <1>3, <1>5, <1>7, <1>8, <2>1, <2>2, <2>3, <2>4, <2>5 DEF TypeOK
<1>10. ASSUME NEW i \in DOMAIN challenge', challenge'[i].asker \in Partners,
              challenge'[i].state = "queued"
       PROVE  \/ i \in DOMAIN challenge /\ i \notin DOMAIN tx.writes /\ challenge'[i] = challenge[i]
              \/ i = last + 1 /\ challenge'[i] \in tx.create
  BY <1>1, <1>10 DEF Written, Means
<1>11. OneQueuedPerAccount'
  <2>1. ASSUME NEW i \in DOMAIN challenge', NEW j \in DOMAIN challenge',
               challenge'[i].asker = challenge'[j].asker, challenge'[i].asker \in Partners,
               challenge'[i].state = "queued", challenge'[j].state = "queued", i < j
        PROVE  challenge'[j].seen < i
    <3>1. i \in Nat /\ i # last + 1
      <4>1. i \in 1..last' /\ j \in 1..last' /\ last' <= last + 1 /\ last' \in Nat /\ last \in Nat
        BY <1>1, CommitWrites, Table DEF Inv, Written
      <4> QED
        BY <2>1, <4>1
    <3>2. i \in DOMAIN challenge /\ i \notin DOMAIN tx.writes /\ challenge'[i] = challenge[i]
      BY <1>10, <2>1, <3>1
    <3>3. CASE j \in DOMAIN challenge /\ challenge'[j] = challenge[j]
      BY <2>1, <3>2, <3>3 DEF Inv, OneQueuedPerAccount
    <3>4. CASE challenge'[j] \in tx.create
      <4> DEFINE c == challenge'[j]
      <4>1. c.seen \in Nat
        BY <1>1, <3>4 DEF IsTx, Row
      <4>2. ~(i <= c.seen)
        BY <1>1, <2>1, <3>2, <3>4 DEF EndsEarlier
      <4> HIDE DEF c
      <4>3. c.seen < i
        BY <3>1, <4>1, <4>2
      <4> QED
        BY <4>3 DEF c
    <3> QED
      BY <1>10, <2>1, <3>3, <3>4
  <2> QED
    BY <2>1 DEF OneQueuedPerAccount
<1>12. RequestsKept'
  <2>1. ASSUME NEW a \in Requests, flight'[a] # Idle
        PROVE  EndsEarlier(flight[a])'
    <3>1. \/ EndsEarlier(flight[a]) /\ Means(flight[a]) /\ IsTx(flight[a])
             /\ flight'[a] = flight[a]
          \/ flight'[a].create = {}
      BY <1>4, <2>1, StaleIs DEF Inv, TypeOK, RequestsKept, PlansFrom
    <3>2. ASSUME NEW c \in flight[a].create, NEW i \in DOMAIN challenge',
                 EndsEarlier(flight[a]), Means(flight[a]), IsTx(flight[a]),
                 c.asker \in Partners, challenge'[i].asker = c.asker,
                 challenge'[i].state = "queued", i <= c.seen
          PROVE  i \in DOMAIN flight[a].writes
      <4>1. c.seen \in Nat /\ c.seen <= last /\ last \in Nat
        BY <3>2, Table DEF Inv, IsTx, Row, Means
      <4>2. i # last + 1
        BY <3>2, <4>1
      <4>3. i \in DOMAIN challenge /\ challenge'[i] = challenge[i]
        BY <1>10, <3>2, <4>2
      <4> QED
        BY <3>2, <4>3 DEF EndsEarlier
    <3> QED
      BY <3>1, <3>2 DEF EndsEarlier
  <2> QED
    BY <1>5, <2>1 DEF RequestsKept
<1>13. JobInTime'
  <2>1. ASSUME cron.phase = "sending", cron'.clean
        PROVE  cron.began - challenge'[cron.id].queued_at <= WaitLimit
    <3>1. cron.clean /\ cron.id \notin DOMAIN tx.writes /\ cron.id \in DOMAIN challenge
      BY <1>8, <2>1 DEF Inv, TypeOK, JobInTime
    <3>2. challenge'[cron.id] = challenge[cron.id]
      <4>1. cron.id \in DOMAIN challenge'
        BY <1>1, <3>1 DEF Written
      <4>2. cron.id # last + 1
        BY <3>1, Table DEF Inv
      <4> QED
        BY <1>1, <3>1, <4>1, <4>2 DEF Written
    <3> QED
      BY <2>1, <3>1, <3>2 DEF Inv, JobInTime
  <2> QED
    BY <1>2, <1>8, <2>1 DEF Inv, JobInTime
<1>14. (\A i \in DOMAIN challenge : InOrder(challenge[i]))'
  BY <1>6 DEF InOrder
<1> QED
  BY <1>3, <1>9, <1>11, <1>12, <1>13, <1>14 DEF Inv

-----------------------------------------------------------------------------
(* The theorems *)

\* The invariant holds before any request.
LEMMA InitInv ==
    ASSUME Init
    PROVE  Inv
<1>1. /\ DOMAIN challenge = {} /\ last = 0 /\ now = 0 /\ delivered = {} /\ cron = NoJob
      /\ DOMAIN flight = Requests /\ \A a \in Requests : flight[a] = Idle
  BY DEF Init, NoWrites
<1>2. MaxRows \in Nat /\ MaxTime \in Nat
  BY TimesAssumption
<1>3. challenge \in [DOMAIN challenge -> Row] /\ guesses \in [Mobiles -> [Time -> Nat]]
  BY DEF Init, NoWrites
<1>4. NoJob \in Job /\ NoJob.phase = "idle" /\ NoJob.todo = {}
  BY NoJobIs
<1>5. TypeOK
  BY <1>1, <1>2, <1>3, <1>4 DEF TypeOK, Time
<1>6. RoomKept
  <2>1. Creating = {}
    BY <1>1 DEF Creating
  <2> QED
    BY <1>1, <1>2, <2>1, FS_EmptySet DEF RoomKept
<1>7. OneQueuedPerAccount /\ RequestsKept /\ JobInTime
  BY <1>1, <1>4 DEF OneQueuedPerAccount, RequestsKept, JobInTime
<1> QED
  BY <1>1, <1>5, <1>6, <1>7 DEF Inv

\* Every step keeps it.
LEMMA NextInv ==
    ASSUME Inv, [Next]_vars
    PROVE  Inv'
<1>1. ASSUME NEW q \in Requests, NEW by \in Askers, Request(q, by)
      PROVE  Inv'
  <2>1. ASSUME NEW m \in Mobiles, Reuse(q, by, m) PROVE Inv'
    BY <2>1, ReuseKeeps
  <2>2. ASSUME NEW m \in Mobiles, NEW force \in BOOLEAN, NEW taken \in BOOLEAN,
               Ask(q, by, m, force, taken)
        PROVE  Inv'
    BY <2>2, AskKeeps
  <2>3. ASSUME Page(q, by) PROVE Inv'
    BY <2>3, PageKeeps
  <2>4. ASSUME NEW typed \in delivered \cup {0}, NEW taken \in BOOLEAN, Submit(q, by, typed, taken)
        PROVE  Inv'
    BY <2>4, SubmitKeeps
  <2> QED
    BY <1>1, <2>1, <2>2, <2>3, <2>4 DEF Request
<1>2. ASSUME NEW q \in Requests, Commit(q) PROVE Inv'
  BY <1>2, CommitKeeps
<1>3. ASSUME NEW q \in Requests, Refuse(q) PROVE Inv'
  BY <1>3, RefuseKeeps
<1>4. ASSUME Jobs PROVE Inv'
  BY <1>4, JobStartsKeeps, JobReadsKeeps, JobGivesUpKeeps, JobSettlesKeeps, JobDiesKeeps,
     JobEndsKeeps DEF Jobs
<1>5. ASSUME Tick PROVE Inv'
  BY <1>5, TickKeeps
<1>6. CASE UNCHANGED vars
  <2>1. UNCHANGED <<now, challenge, last, flight, cron, delivered, guesses>>
    BY <1>6 DEF vars
  <2>2. delivered' \subseteq 1..last /\ cron' \in Job /\ cron'.todo \subseteq DOMAIN challenge
        /\ JobInTime'
    BY <2>1 DEF Inv, TypeOK, JobInTime
  <2> QED
    BY <2>1, <2>2, JobAlone
<1> QED
  BY <1>1, <1>2, <1>3, <1>4, <1>5, <1>6 DEF Next

\* The invariant holds of every behaviour.
THEOREM Invariance == Spec => []Inv
BY InitInv, NextInv, PTL DEF Spec

\* However requests, the job and the clock interleave, no challenge is tried more than MAX_TRIES
\* times, ids are handed out one by one and the job's list names rows that exist.
THEOREM TypeCorrect == Spec => []TypeOK
<1>1. Inv => TypeOK
  BY DEF Inv
<1> QED
  BY <1>1, Invariance, PTL

\* A row holds its plain code exactly while it is queued, whoever ends the wait.
THEOREM CodeIsForgotten == Spec => []CodeForgotten
<1>1. Inv => CodeForgotten
  BY DEF Inv, CodeForgotten, InOrder
<1> QED
  BY <1>1, Invariance, PTL

\* The job never has two codes of one signed-in account to send.
THEOREM OneCodeQueued == Spec => []OneQueuedPerAccount
<1>1. Inv => OneQueuedPerAccount
  BY DEF Inv
<1> QED
  BY <1>1, Invariance, PTL

\* No step deletes a challenge whose code still works: the job measures its age from the
\* question, and the SMS left within WaitLimit + CronLimit of it, which is less than the day
\* that KEEP leaves for it.
LEMMA DeletesTheOld ==
    ASSUME Inv, [Next]_vars, NEW i \in DOMAIN challenge \ DOMAIN challenge'
    PROVE  ~(challenge[i].state = "sent" /\ now <= ExpiresAt(challenge[i]))
<1>1. CASE JobEnds
  <2>1. /\ challenge' = Restrict(challenge, DOMAIN challenge \ OldAt(cron.began))
        /\ cron.phase = "loop"
    BY <1>1 DEF JobEnds
  <2>2. i \in OldAt(cron.began)
    BY <2>1 DEF Restrict
  <2>3. challenge[i].queued_at < cron.began - Keep /\ cron.began <= now
    BY <2>1, <2>2 DEF OldAt, Inv, JobInTime
  <2>4. /\ challenge[i] \in Row /\ InOrder(challenge[i])
        /\ now \in Nat /\ cron.began \in Nat
    BY Table DEF Inv, TypeOK, Job
  <2>5. challenge[i].queued_at \in Nat /\ challenge[i].sent_at \in Int
    BY <2>4 DEF Row
  <2> DEFINE q == challenge[i].queued_at
             s == challenge[i].sent_at
             b == cron.began
  <2>6. challenge[i].state = "sent" => s <= q + WaitLimit + CronLimit
    BY <2>4 DEF InOrder
  <2>7. q < b - (CodeTTL + CodeTTL)
    BY <2>3 DEF Keep
  <2>8. ExpiresAt(challenge[i]) = s + CodeTTL
    BY DEF ExpiresAt
  <2>9. /\ WaitLimit \in Nat /\ CronLimit \in Nat /\ CodeTTL \in Nat
        /\ WaitLimit + CronLimit < CodeTTL
    BY TimesAssumption
  <2>10. q \in Nat /\ s \in Int /\ b \in Nat /\ b <= now /\ now \in Nat
    BY <2>3, <2>4, <2>5
  <2> HIDE DEF q, s, b
  <2> QED
    BY <2>6, <2>7, <2>8, <2>9, <2>10
<1>2. ASSUME NEW q \in Requests, Commit(q) PROVE FALSE
  BY <1>2, CommitWrites DEF Written
<1>3. ASSUME DOMAIN challenge' = DOMAIN challenge PROVE FALSE
  BY <1>3
<1>4. ASSUME NEW q \in Requests, (\E by \in Askers : Request(q, by)) \/ Refuse(q)
      PROVE  challenge' = challenge
  BY <1>4 DEF Request, Reuse, Ask, Page, Submit, Open, Refuse
<1>5. ASSUME JobStarts \/ JobReads \/ \E out \in BOOLEAN : JobDies(out)
      PROVE  challenge' = challenge
  BY <1>5 DEF JobStarts, JobReads, JobDies
<1>6. ASSUME JobGivesUp \/ \E out \in BOOLEAN : JobSettles(out)
      PROVE  DOMAIN challenge' = DOMAIN challenge
  BY <1>6 DEF JobGivesUp, JobSettles
<1>7. ASSUME Tick \/ UNCHANGED vars
      PROVE  challenge' = challenge
  BY <1>7 DEF Tick, vars
<1> QED
  BY <1>1, <1>2, <1>3, <1>4, <1>5, <1>6, <1>7 DEF Next, Jobs

\* KEEP: challenges are deleted, but never while the code works.
THEOREM NeverDeleted == Spec => NeverDeletedWhileItWorks
<1> DEFINE Deletes == \A i \in DOMAIN challenge \ DOMAIN challenge' :
                          ~(challenge[i].state = "sent" /\ now <= ExpiresAt(challenge[i]))
<1>1. Inv /\ [Next]_vars => [Deletes]_vars
  BY DeletesTheOld
<1> QED
  BY <1>1, Invariance, PTL DEF Spec, NeverDeletedWhileItWorks
-----------------------------------------------------------------------------
(* Totals *)

\* SumTo adds the weights up.
LEMMA SumToAdds ==
    ASSUME NEW n \in Nat, NEW weight \in [1..n -> Int]
    PROVE  \E up : Totals(up, weight, n) /\ up[n] \in Int /\ SumTo(weight, n) = up[n]
<1> DEFINE up == CHOOSE up : Totals(up, weight, n)
<1>1. \E u : Totals(u, weight, n)
  BY TotalsExist
<1>2. Totals(up, weight, n)
  BY <1>1
<1>3. SumTo(weight, n) = up[n]
  BY DEF SumTo, Totals
<1> HIDE DEF up
<1>4. up[n] \in Int
  BY <1>2, TotalsStep
<1> QED BY <1>2, <1>3, <1>4

\* Weights that are nowhere greater have no greater total.
LEMMA SumMonotone ==
    ASSUME NEW n \in Nat, NEW weight \in [1..n -> Int], NEW other \in [1..n -> Int],
           \A k \in 1..n : weight[k] <= other[k]
    PROVE  SumTo(weight, n) \in Int /\ SumTo(other, n) \in Int /\ SumTo(weight, n) <= SumTo(other, n)
<1>1. PICK up : Totals(up, weight, n) /\ up[n] \in Int /\ SumTo(weight, n) = up[n]
  BY SumToAdds
<1>2. PICK down : Totals(down, other, n) /\ down[n] \in Int /\ SumTo(other, n) = down[n]
  BY SumToAdds
<1>3. /\ up \in [0..n -> Int] /\ up[0] = 0 /\ \A k \in 1..n : up[k] = up[k - 1] + weight[k]
      /\ down \in [0..n -> Int] /\ down[0] = 0 /\ \A k \in 1..n : down[k] = down[k - 1] + other[k]
  BY <1>1, <1>2, TotalsStep
<1> DEFINE P == {k \in 0..n : up[k] <= down[k]}
<1>4. ASSUME NEW k \in 1..n, k - 1 \in P PROVE k \in P
  <2>1. /\ up[k - 1] <= down[k - 1] /\ up[k - 1] \in Int /\ down[k - 1] \in Int
        /\ weight[k] <= other[k] /\ weight[k] \in Int /\ other[k] \in Int
    BY <1>3, <1>4
  <2>2. up[k] = up[k - 1] + weight[k] /\ down[k] = down[k - 1] + other[k]
    BY <1>3
  <2>3. up[k] <= down[k]
    BY <2>1, <2>2
  <2> QED BY <2>3
<1>5. 0 \in P
  BY <1>3
<1> HIDE DEF P
<1>6. \A k \in 0..n : k \in P
  BY <1>4, <1>5, Induction
<1>7. up[n] <= down[n]
  BY <1>6 DEF P
<1> QED BY <1>1, <1>2, <1>7

\* Nothing adds up to nothing.
LEMMA SumOfNothing ==
    ASSUME NEW n \in Nat, NEW weight \in [1..n -> Int], \A k \in 1..n : weight[k] = 0
    PROVE  SumTo(weight, n) = 0
<1>1. PICK up : Totals(up, weight, n) /\ up[n] \in Int /\ SumTo(weight, n) = up[n]
  BY SumToAdds
<1>2. up[0] = 0 /\ \A k \in 1..n : up[k] = up[k - 1] + weight[k]
  BY <1>1, TotalsStep
<1> DEFINE P == {k \in 0..n : up[k] = 0}
<1>3. \A k \in 1..n : k - 1 \in P => k \in P
  BY <1>2
<1>4. 0 \in P
  BY <1>2
<1> HIDE DEF P
<1>5. \A k \in 0..n : k \in P
  BY <1>3, <1>4, Induction
<1>6. up[n] = 0
  BY <1>5 DEF P
<1> QED BY <1>1, <1>6

\* One weight changed changes the total by as much.
LEMMA SumMoves ==
    ASSUME NEW n \in Nat, NEW weight \in [1..n -> Int], NEW other \in [1..n -> Int],
           NEW m \in 1..n, DifferAt(m, weight, other, n)
    PROVE  /\ SumTo(weight, n) \in Int /\ SumTo(other, n) \in Int
           /\ MovesAs(SumTo(other, n), SumTo(weight, n), weight[m], other[m])
<1>1. PICK up : Totals(up, weight, n) /\ up[n] \in Int /\ SumTo(weight, n) = up[n]
  BY SumToAdds
<1>2. PICK down : Totals(down, other, n) /\ down[n] \in Int /\ SumTo(other, n) = down[n]
  BY SumToAdds
<1>3. MovesAs(down[n], up[n], weight[m], other[m])
  BY <1>1, <1>2, TotalsDiffer
<1> QED BY <1>1, <1>2, <1>3

-----------------------------------------------------------------------------
(* Wrong codes counted *)

\* The rows' share in CountedSince, and the ticks' in GuessesSince.
RowWeighs(rows, m, since) ==
    [i \in Ids |-> IF /\ i \in DOMAIN rows
                      /\ rows[i].mobile = m
                      /\ rows[i].last_wrong_at # Never
                      /\ rows[i].last_wrong_at >= since
                   THEN rows[i].wrong_count ELSE 0]
TickWeighs(g, since) == [k \in 1..(MaxTime + 1) |-> IF k - 1 >= since THEN g[k - 1] ELSE 0]

\* What is written over row `c' leaves what it counts, or counts one more wrong code, now.
KeepsCount(c, d) ==
    /\ d.mobile = c.mobile /\ d.queued_at = c.queued_at
    /\ d.wrong_count = c.wrong_count /\ d.last_wrong_at = c.last_wrong_at
LastTry(c) == c.queued_at + WaitLimit + CronLimit + CodeTTL
Counts(c, d) ==
    /\ d.mobile = c.mobile /\ d.queued_at = c.queued_at
    /\ d.wrong_count = c.wrong_count + 1 /\ d.last_wrong_at = now
    /\ now <= LastTry(c)

\* A request under way counts at most one wrong code.
CountsOnce(tx) ==
    /\ DOMAIN tx.writes \subseteq DOMAIN challenge
    /\ \A i \in DOMAIN tx.writes :
          \/ KeepsCount(challenge[i], tx.writes[i])
          \/ DOMAIN tx.writes = {i} /\ Counts(challenge[i], tx.writes[i])
    /\ \A c \in tx.create : c.last_wrong_at = Never
PlansCount == \A a \in Requests : flight[a] # Idle /\ flight[a].clean => CountsOnce(flight[a])

\* Requests under way that will count a wrong code for `m', or take the right one.
Tries(tx, m) ==
    \E i \in DOMAIN tx.writes :
        /\ challenge[i].mobile = m
        /\ tx.writes[i].state = "done" \/ tx.writes[i].wrong_count > challenge[i].wrong_count
Guessing(m) == {a \in Requests : flight[a] # Idle /\ flight[a].clean /\ Tries(flight[a], m)}

\* A code is typed within its day, so a row that is old enough to be deleted counts nothing.
TriedInTime ==
    \A i \in DOMAIN challenge :
        challenge[i].last_wrong_at <= now /\ challenge[i].last_wrong_at <= LastTry(challenge[i])

\* The rows count every wrong code of the span; those and the requests that may add one stay
\* within the limit, and the allowance for what read the count at the same moment.
Bounded(m, since) ==
    GuessesSince(m, since) + Cardinality(Guessing(m)) <= MaxWrongPerDay + Cardinality(Requests) - 1
InSpan(since) == since \in Int /\ since >= now - SureSpan
BudgetKept ==
    \A m \in Mobiles, since \in Int :
        InSpan(since) => /\ GuessesSince(m, since) <= CountedSince(challenge, m, since)
                         /\ Bounded(m, since)

CountInv == Inv /\ TriedInTime /\ PlansCount /\ BudgetKept

\* The weights are numbers.
LEMMA RowsWeigh ==
    ASSUME NEW rows, DOMAIN rows \subseteq Ids, \A i \in DOMAIN rows : rows[i] \in Row,
           NEW m, NEW since
    PROVE  /\ RowWeighs(rows, m, since) \in [1..MaxRows -> Int]
           /\ \A i \in 1..MaxRows : RowWeighs(rows, m, since)[i] >= 0
           /\ CountedSince(rows, m, since) = SumTo(RowWeighs(rows, m, since), MaxRows)
           /\ CountedSince(rows, m, since) \in Int
<1> DEFINE w == RowWeighs(rows, m, since)
<1>1. \A i \in DOMAIN rows : rows[i].wrong_count \in Nat
  BY DEF Row
<1>2. w \in [1..MaxRows -> Int] /\ \A i \in 1..MaxRows : w[i] >= 0
  BY <1>1 DEF RowWeighs, Ids
<1>3. CountedSince(rows, m, since) = SumTo(w, MaxRows)
  BY DEF CountedSince, RowWeighs
<1> HIDE DEF w
<1>4. SumTo(w, MaxRows) \in Int
  BY <1>2, SumToAdds, TimesAssumption
<1> QED BY <1>2, <1>3, <1>4 DEF w

\* So are those of the ticks.
LEMMA TicksWeigh ==
    ASSUME NEW g \in [Time -> Nat], NEW since
    PROVE  /\ TickWeighs(g, since) \in [1..(MaxTime + 1) -> Int]
           /\ SumTo(TickWeighs(g, since), MaxTime + 1) \in Int
<1> DEFINE w == TickWeighs(g, since)
<1>1. MaxTime \in Nat /\ MaxTime + 1 \in Nat
  BY TimesAssumption
<1>2. \A k \in 1..(MaxTime + 1) : k - 1 \in Time
  BY <1>1 DEF Time
<1>3. w \in [1..(MaxTime + 1) -> Int]
  BY <1>2 DEF TickWeighs
<1> HIDE DEF w
<1>4. SumTo(w, MaxTime + 1) \in Int
  BY <1>1, <1>3, SumToAdds
<1> QED BY <1>3, <1>4 DEF w

\* The wrong codes typed, as a total of ticks.
LEMMA GuessesAddUp ==
    ASSUME TypeOK, NEW m \in Mobiles, NEW since
    PROVE  /\ GuessesSince(m, since) = SumTo(TickWeighs(guesses[m], since), MaxTime + 1)
           /\ GuessesSince(m, since) \in Int
<1>1. guesses[m] \in [Time -> Nat]
  BY DEF TypeOK
<1>2. GuessesSince(m, since) = SumTo(TickWeighs(guesses[m], since), MaxTime + 1)
  BY DEF GuessesSince, TickWeighs
<1> QED BY <1>1, <1>2, TicksWeigh

\* A later start counts no more.
LEMMA LaterCountsLess ==
    ASSUME TypeOK, NEW m, NEW since \in Int, NEW earlier \in Int, earlier <= since
    PROVE  CountedSince(challenge, m, since) <= CountedSince(challenge, m, earlier)
<1> DEFINE w == RowWeighs(challenge, m, since)
           v == RowWeighs(challenge, m, earlier)
<1>1. /\ DOMAIN challenge \subseteq Ids /\ \A i \in DOMAIN challenge : challenge[i] \in Row
  BY Table
<1>2. /\ w \in [1..MaxRows -> Int] /\ v \in [1..MaxRows -> Int]
      /\ CountedSince(challenge, m, since) = SumTo(w, MaxRows)
      /\ CountedSince(challenge, m, earlier) = SumTo(v, MaxRows)
  BY <1>1, RowsWeigh
<1>3. \A i \in 1..MaxRows : w[i] <= v[i]
  <2>1. \A i \in DOMAIN challenge :
           challenge[i].wrong_count \in Nat /\ challenge[i].last_wrong_at \in Int
    BY <1>1 DEF Row
  <2> QED BY <2>1 DEF RowWeighs, Ids
<1> HIDE DEF w, v
<1>4. SumTo(w, MaxRows) <= SumTo(v, MaxRows)
  BY <1>2, <1>3, SumMonotone, TimesAssumption
<1> QED BY <1>2, <1>4

\* Rows that count no less than the table's.
NoLess(rows, m, since) ==
    \A i \in 1..MaxRows : RowWeighs(challenge, m, since)[i] <= RowWeighs(rows, m, since)[i]

LEMMA RowsCountNoLess ==
    ASSUME TypeOK, NEW rows, DOMAIN rows \subseteq Ids, \A i \in DOMAIN rows : rows[i] \in Row,
           NEW m, NEW since, NoLess(rows, m, since)
    PROVE  CountedSince(challenge, m, since) <= CountedSince(rows, m, since)
<1> DEFINE w == RowWeighs(challenge, m, since)
           v == RowWeighs(rows, m, since)
<1>1. /\ DOMAIN challenge \subseteq Ids /\ \A i \in DOMAIN challenge : challenge[i] \in Row
  BY Table
<1>2. /\ w \in [1..MaxRows -> Int]
      /\ CountedSince(challenge, m, since) = SumTo(w, MaxRows)
  BY <1>1, RowsWeigh
<1>3. /\ v \in [1..MaxRows -> Int]
      /\ CountedSince(rows, m, since) = SumTo(v, MaxRows)
  BY RowsWeigh
<1>4. \A i \in 1..MaxRows : w[i] <= v[i]
  BY DEF NoLess
<1> HIDE DEF w, v
<1>5. SumTo(w, MaxRows) <= SumTo(v, MaxRows)
  BY <1>2, <1>3, <1>4, SumMonotone, TimesAssumption
<1> QED BY <1>2, <1>3, <1>5

\* Requests that guess are counted, and are no more than the requests under way.
LEMMA GuessersCounted ==
    ASSUME NEW m
    PROVE  /\ IsFiniteSet(Guessing(m)) /\ Cardinality(Guessing(m)) \in Nat
           /\ Cardinality(Guessing(m)) <= Cardinality(Requests) /\ Cardinality(Requests) \in Nat
<1>1. Guessing(m) \in SUBSET Requests
  BY DEF Guessing
<1> QED
  BY <1>1, AskersAssumption, FS_Subset, FS_CardinalityType

-----------------------------------------------------------------------------
(* Steps that count nothing *)

\* Requests that may still commit are as they were, and so are the rows they will write.
Undisturbed ==
    \A a \in Requests : flight'[a] # Idle /\ flight'[a].clean =>
        /\ flight'[a] = flight[a]
        /\ \A i \in DOMAIN flight[a].writes :
              i \in DOMAIN challenge => i \in DOMAIN challenge' /\ challenge'[i] = challenge[i]

\* Such requests count and guess what they did.
LEMMA PlansStand ==
    ASSUME Inv, PlansCount, Undisturbed, now' = now
    PROVE  PlansCount' /\ \A m : Guessing(m)' \subseteq Guessing(m)
<1>1. ASSUME NEW a \in Requests, flight'[a] # Idle, flight'[a].clean
      PROVE  /\ flight[a] # Idle /\ flight[a].clean /\ flight'[a] = flight[a]
             /\ CountsOnce(flight[a])
             /\ \A i \in DOMAIN flight[a].writes :
                   /\ i \in DOMAIN challenge /\ i \in DOMAIN challenge'
                   /\ challenge'[i] = challenge[i]
  <2>1. flight'[a] = flight[a] /\ flight[a] # Idle /\ flight[a].clean
    BY <1>1 DEF Undisturbed
  <2>2. CountsOnce(flight[a])
    BY <2>1 DEF PlansCount
  <2>3. DOMAIN flight[a].writes \subseteq DOMAIN challenge
    BY <2>2 DEF CountsOnce
  <2> QED BY <1>1, <2>1, <2>2, <2>3 DEF Undisturbed
<1>2. ASSUME NEW a \in Requests, flight'[a] # Idle, flight'[a].clean
      PROVE  CountsOnce(flight[a])'
  <2> DEFINE tx == flight[a]
  <2>1. /\ flight'[a] = tx /\ CountsOnce(tx)
        /\ \A i \in DOMAIN tx.writes : /\ i \in DOMAIN challenge /\ i \in DOMAIN challenge'
                                       /\ challenge'[i] = challenge[i]
    BY <1>1, <1>2
  <2>2. /\ \A i \in DOMAIN tx.writes :
              \/ KeepsCount(challenge[i], tx.writes[i])
              \/ DOMAIN tx.writes = {i} /\ Counts(challenge[i], tx.writes[i])
        /\ \A c \in tx.create : c.last_wrong_at = Never
    BY <2>1 DEF CountsOnce
  <2>3. DOMAIN tx.writes \subseteq DOMAIN challenge'
    BY <2>1
  <2> DEFINE ok(i, row) == \/ KeepsCount(row, tx.writes[i])
                           \/ DOMAIN tx.writes = {i} /\ Counts(row, tx.writes[i])
  <2>4. \A i \in DOMAIN tx.writes : ok(i, challenge[i])
    BY <2>2
  <2> HIDE DEF ok
  <2>5. \A i \in DOMAIN tx.writes : ok(i, challenge'[i])
    BY <2>1, <2>4
  <2>6. \A i \in DOMAIN tx.writes :
              \/ KeepsCount(challenge'[i], tx.writes[i])
              \/ DOMAIN tx.writes = {i} /\ Counts(challenge'[i], tx.writes[i])
    BY <2>5 DEF ok
  <2> QED BY <2>1, <2>2, <2>3, <2>6 DEF CountsOnce, KeepsCount, Counts, LastTry
<1>3. PlansCount'
  BY <1>2 DEF PlansCount
<1>4. ASSUME NEW m, NEW a \in Guessing(m)'
      PROVE  a \in Guessing(m)
  <2>1. a \in Requests /\ flight'[a] # Idle /\ flight'[a].clean /\ Tries(flight[a], m)'
    BY <1>4 DEF Guessing
  <2>2. Tries(flight[a], m)
    BY <1>1, <2>1 DEF Tries
  <2> QED BY <1>1, <2>1, <2>2 DEF Guessing
<1> QED BY <1>3, <1>4

\* Rows `ids' are written, the others are as they were: whoever meant to write them cannot.
LEMMA StaleAside ==
    ASSUME TypeOK, NEW ids,
           \A a \in Requests : flight'[a] = Idle \/ flight'[a] = Dirtied(ids)[a],
           \A i \in DOMAIN challenge \ ids : i \in DOMAIN challenge' /\ challenge'[i] = challenge[i]
    PROVE  Undisturbed
<1>1. ASSUME NEW a \in Requests, flight'[a] # Idle, flight'[a].clean
      PROVE  flight'[a] = flight[a] /\ DOMAIN flight[a].writes \cap ids = {}
  BY <1>1, StaleIs DEF Dirtied
<1> QED BY <1>1 DEF Undisturbed

\* Nothing new is guessed and no counting row is lost: the budget holds.
LEMMA BudgetStays ==
    ASSUME Inv, BudgetKept, TypeOK', guesses' = guesses, now' \in Nat, now <= now',
           \A m : Guessing(m)' \subseteq Guessing(m),
           \A m, since : InSpan(since) => NoLess(challenge', m, since)
    PROVE  BudgetKept'
<1> SUFFICES ASSUME NEW m \in Mobiles, NEW since \in Int, InSpan(since)'
             PROVE  (/\ GuessesSince(m, since) <= CountedSince(challenge, m, since)
                     /\ Bounded(m, since))'
  BY DEF BudgetKept
<1>1. now \in Nat /\ SureSpan \in Int
  BY Table, TimesAssumption DEF Inv, SureSpan, WrongWindow
<1>2. since >= now' - SureSpan
  BY DEF InSpan, SureSpan, WrongWindow
<1>3. InSpan(since)
  <2> DEFINE s == SureSpan
  <2>1. s \in Int /\ since >= now' - s
    BY <1>1, <1>2
  <2> HIDE DEF s
  <2>2. \A n, k \in Nat, x, d \in Int : n <= k /\ x >= k - d => x >= n - d
    OBVIOUS
  <2>3. since >= now - s
    BY <1>1, <2>1, <2>2
  <2> QED BY <2>3 DEF InSpan, s
<1>4. /\ GuessesSince(m, since) <= CountedSince(challenge, m, since) /\ Bounded(m, since)
      /\ NoLess(challenge', m, since)
  BY <1>3 DEF BudgetKept
<1>5. GuessesSince(m, since)' = GuessesSince(m, since)
  BY DEF GuessesSince
<1>6. /\ DOMAIN challenge' \subseteq 1..last' /\ last' \in 0..MaxRows
      /\ \A i \in DOMAIN challenge' : challenge'[i] \in Row
  BY DEF TypeOK
<1>7. DOMAIN challenge' \subseteq Ids
  BY <1>6, TimesAssumption DEF Ids
<1>8. CountedSince(challenge, m, since) <= CountedSince(challenge', m, since)
  BY <1>4, <1>6, <1>7, RowsCountNoLess DEF Inv
<1>9. /\ GuessesSince(m, since) \in Int /\ CountedSince(challenge, m, since) \in Int
      /\ CountedSince(challenge', m, since) \in Int
  <2>1. /\ DOMAIN challenge \subseteq Ids /\ \A i \in DOMAIN challenge : challenge[i] \in Row
    BY Table DEF Inv
  <2>2. CountedSince(challenge, m, since) \in Int /\ CountedSince(challenge', m, since) \in Int
    BY <1>6, <1>7, <2>1, RowsWeigh
  <2> QED BY <2>2, GuessesAddUp DEF Inv
<1>10. GuessesSince(m, since)' <= CountedSince(challenge, m, since)'
  <2>1. CountedSince(challenge, m, since)' = CountedSince(challenge', m, since)
    BY DEF CountedSince
  <2> QED BY <1>4, <1>5, <1>8, <1>9, <2>1
<1>11. Bounded(m, since)'
  <2>1. Guessing(m)' \in SUBSET Guessing(m)
    OBVIOUS
  <2>2. /\ Cardinality(Guessing(m)') \in Nat
        /\ Cardinality(Guessing(m)') <= Cardinality(Guessing(m))
    BY <2>1, GuessersCounted, FS_Subset, FS_CardinalityType
  <2>3. Cardinality(Guessing(m)) \in Nat /\ Cardinality(Requests) \in Nat /\ MaxWrongPerDay \in Nat
    BY GuessersCounted, LimitsAssumption
  <2>4. GuessesSince(m, since) + Cardinality(Guessing(m)) <= MaxWrongPerDay + Cardinality(Requests) - 1
    BY <1>4 DEF Bounded
  <2>5. GuessesSince(m, since) + Cardinality(Guessing(m)') <= MaxWrongPerDay + Cardinality(Requests) - 1
    BY <1>9, <2>2, <2>3, <2>4
  <2> QED BY <1>5, <2>5 DEF Bounded
<1> QED BY <1>10, <1>11

\* Rows with what they counted before, or not there when they counted nothing, count no less.
LEMMA SameCount ==
    ASSUME TypeOK, NEW rows, NEW m, NEW since,
           \A i \in DOMAIN challenge :
              \/ i \in DOMAIN rows /\ KeepsCount(challenge[i], rows[i])
              \/ ~(challenge[i].last_wrong_at # Never /\ challenge[i].last_wrong_at >= since),
           DOMAIN rows \subseteq Ids, \A i \in DOMAIN rows : rows[i] \in Row
    PROVE  NoLess(rows, m, since)
<1>1. \A i \in DOMAIN rows : rows[i].wrong_count \in Nat
  BY DEF Row
<1> QED BY <1>1 DEF NoLess, RowWeighs, KeepsCount, Ids

\* The table untouched.
LEMMA SameTable ==
    ASSUME TypeOK, NEW m, NEW since
    PROVE  NoLess(challenge, m, since)
<1>1. /\ DOMAIN challenge \subseteq Ids /\ \A i \in DOMAIN challenge : challenge[i] \in Row
  BY Table
<1>2. \A i \in DOMAIN challenge : KeepsCount(challenge[i], challenge[i])
  BY DEF KeepsCount
<1> QED BY <1>1, <1>2, SameCount

\* What keeps the counts of the rows it leaves, and takes away only rows older than the span.
KeepsCounts ==
    /\ \A i \in DOMAIN challenge' :
          i \in DOMAIN challenge /\ KeepsCount(challenge[i], challenge'[i])
    /\ \A i \in DOMAIN challenge \ DOMAIN challenge' :
          challenge[i].last_wrong_at < now - SureSpan

LEMMA QuietKeeps ==
    ASSUME CountInv, Inv', guesses' = guesses, now' = now, Undisturbed, KeepsCounts
    PROVE  CountInv'
<1>1. /\ now \in Nat /\ SureSpan \in Int /\ DOMAIN challenge \subseteq Ids
      /\ \A i \in DOMAIN challenge : challenge[i] \in Row
  BY Table, TimesAssumption DEF CountInv, Inv, SureSpan, WrongWindow
<1>2. PlansCount' /\ \A m : Guessing(m)' \subseteq Guessing(m)
  BY PlansStand DEF CountInv
<1>3. TriedInTime'
  BY DEF CountInv, TriedInTime, KeepsCounts, KeepsCount, LastTry
<1>4. ASSUME NEW m, NEW since, InSpan(since)
      PROVE  NoLess(challenge', m, since)
  <2>1. \A i \in DOMAIN challenge \ DOMAIN challenge' :
           ~(challenge[i].last_wrong_at # Never /\ challenge[i].last_wrong_at >= since)
    <3> DEFINE s == SureSpan
    <3>1. since \in Int /\ since >= now - s /\ s \in Int /\ now \in Nat
      BY <1>1, <1>4 DEF InSpan
    <3>2. \A i \in DOMAIN challenge \ DOMAIN challenge' :
             challenge[i].last_wrong_at \in Int /\ challenge[i].last_wrong_at < now - s
      BY <1>1 DEF Row, KeepsCounts
    <3> HIDE DEF s
    <3> QED BY <3>1, <3>2
  <2>2. /\ DOMAIN challenge' \subseteq Ids
        /\ \A i \in DOMAIN challenge' : challenge'[i] \in Row
    BY <1>1 DEF KeepsCounts, Inv, TypeOK
  <2>3. \A i \in DOMAIN challenge :
           \/ i \in DOMAIN challenge' /\ KeepsCount(challenge[i], challenge'[i])
           \/ ~(challenge[i].last_wrong_at # Never /\ challenge[i].last_wrong_at >= since)
    BY <2>1 DEF KeepsCounts
  <2> QED BY <2>2, <2>3, SameCount DEF CountInv, Inv
<1>5. BudgetKept'
  <2>1. Inv /\ BudgetKept /\ TypeOK' /\ now' \in Nat /\ now <= now'
    BY <1>1 DEF CountInv, Inv
  <2> QED BY <1>2, <1>4, <2>1, BudgetStays
<1> QED BY <1>2, <1>3, <1>5 DEF CountInv

\* Steps that write no row and dirty no request.
LEMMA AsideKeeps ==
    ASSUME CountInv, Inv', UNCHANGED <<now, challenge, guesses>>,
           \A a \in Requests : flight'[a] = Idle \/ flight'[a] = flight[a]
    PROVE  CountInv'
<1>1. Undisturbed
  BY DEF Undisturbed
<1>2. KeepsCounts
  BY DEF KeepsCounts, KeepsCount
<1> QED BY <1>1, <1>2, QuietKeeps

\* Time passes when no request is under way.
LEMMA TickCounts ==
    ASSUME CountInv, Inv', Tick
    PROVE  CountInv'
<1>1. /\ now' = now + 1 /\ UNCHANGED <<challenge, flight, guesses>>
      /\ \A a \in Requests : flight[a] = Idle
  BY DEF Tick
<1>2. now \in Nat /\ now' \in Nat /\ now <= now'
  BY <1>1, Table DEF CountInv, Inv
<1>3. PlansCount' /\ \A m : Guessing(m)' \subseteq Guessing(m)
  BY <1>1 DEF PlansCount, Guessing
<1>4. TriedInTime'
  <2>1. \A i \in DOMAIN challenge : challenge[i].last_wrong_at \in Int
    BY Table DEF CountInv, Inv, Row
  <2> QED BY <1>1, <1>2, <2>1 DEF CountInv, TriedInTime, LastTry
<1>5. \A m, since : NoLess(challenge', m, since)
  BY <1>1, SameTable DEF CountInv, Inv
<1>6. BudgetKept'
  <2>1. Inv /\ BudgetKept /\ TypeOK' /\ guesses' = guesses
    BY <1>1 DEF CountInv, Inv
  <2> QED BY <1>2, <1>3, <1>5, <2>1, BudgetStays
<1> QED BY <1>3, <1>4, <1>6 DEF CountInv

\* The job writes a row and leaves what it counts.
LEMMA JobRowCounts ==
    ASSUME CountInv, Inv', NEW i, NEW row, KeepsCount(challenge[i], row),
           challenge' = [challenge EXCEPT ![i] = row],
           flight' = Dirtied({i}), UNCHANGED <<now, guesses>>
    PROVE  CountInv'
<1>1. /\ DOMAIN challenge' = DOMAIN challenge
      /\ \A j \in DOMAIN challenge : challenge'[j] = IF j = i THEN row ELSE challenge[j]
  OBVIOUS
<1>2. \A j \in DOMAIN challenge \ {i} : j \in DOMAIN challenge' /\ challenge'[j] = challenge[j]
  BY <1>1
<1>3. Undisturbed
  BY <1>2, StaleAside DEF CountInv, Inv
<1>4. KeepsCounts
  <2>1. \A c : KeepsCount(c, c)
    BY DEF KeepsCount
  <2> QED BY <1>1, <2>1 DEF KeepsCounts
<1> QED BY <1>3, <1>4, QuietKeeps

LEMMA JobWritesCount ==
    ASSUME CountInv, Inv', JobGivesUp \/ \E out \in BOOLEAN : JobSettles(out)
    PROVE  CountInv'
<1> DEFINE c == challenge[cron.id]
<1>0. cron.phase \in {"late", "sending"}
  BY DEF JobGivesUp, JobSettles
<1>1. cron.id \in DOMAIN challenge
  BY <1>0 DEF CountInv, Inv, TypeOK, JobInTime
<1>2. c \in Row
  BY <1>1, Table DEF CountInv, Inv
<1>3. CASE JobGivesUp
  <2> DEFINE row == [c EXCEPT !.state = "failed", !.pending = FALSE]
  <2>1. KeepsCount(c, row)
    BY <1>2 DEF KeepsCount, Row
  <2>2. challenge' = [challenge EXCEPT ![cron.id] = row]
    BY <1>3 DEF JobGivesUp
  <2>3. flight' = Dirtied({cron.id}) /\ UNCHANGED <<now, guesses>>
    BY <1>3 DEF JobGivesUp
  <2> HIDE DEF row
  <2> QED BY <2>1, <2>2, <2>3, JobRowCounts
<1>4. CASE \E out \in BOOLEAN : JobSettles(out)
  <2>0. PICK out \in BOOLEAN : JobSettles(out)
    BY <1>4
  <2> DEFINE row == [c EXCEPT !.state = IF out THEN "sent" ELSE "failed",
                              !.sent_at = IF out THEN now ELSE @,
                              !.pending = FALSE]
  <2>1. KeepsCount(c, row)
    BY <1>2 DEF KeepsCount, Row
  <2>2. challenge' = [challenge EXCEPT ![cron.id] = row]
    BY <2>0 DEF JobSettles
  <2>3. flight' = Dirtied({cron.id}) /\ UNCHANGED <<now, guesses>>
    BY <2>0 DEF JobSettles
  <2> HIDE DEF row
  <2> QED BY <2>1, <2>2, <2>3, JobRowCounts
<1> QED BY <1>3, <1>4

\* The rows a run deletes are older than the span: a code is typed within its day.
LEMMA JobEndsCounts ==
    ASSUME CountInv, Inv', JobEnds
    PROVE  CountInv'
<1>1. /\ challenge' = Restrict(challenge, DOMAIN challenge \ OldAt(cron.began))
      /\ flight' = Dirtied(OldAt(cron.began)) /\ UNCHANGED <<now, guesses>>
      /\ cron.phase = "loop"
  BY DEF JobEnds
<1>2. /\ DOMAIN challenge' = DOMAIN challenge \ OldAt(cron.began)
      /\ \A i \in DOMAIN challenge' : challenge'[i] = challenge[i]
  BY <1>1 DEF Restrict
<1>3. Undisturbed
  <2>1. \A i \in DOMAIN challenge \ OldAt(cron.began) :
           i \in DOMAIN challenge' /\ challenge'[i] = challenge[i]
    BY <1>2
  <2> QED BY <1>1, <2>1, StaleAside DEF CountInv, Inv
<1>4. ASSUME NEW i \in DOMAIN challenge \ DOMAIN challenge'
      PROVE  challenge[i].last_wrong_at < now - SureSpan
  <2> DEFINE q == challenge[i].queued_at
             w == challenge[i].last_wrong_at
             b == cron.began
  <2>1. q < b - (CodeTTL + CodeTTL)
    BY <1>2 DEF OldAt, Keep
  <2>2. w <= q + WaitLimit + CronLimit + CodeTTL
    BY DEF CountInv, TriedInTime, LastTry
  <2>3. b <= now /\ b \in Nat /\ now \in Nat
    BY <1>1, Table DEF CountInv, Inv, JobInTime, TypeOK, Job
  <2>4. challenge[i] \in Row
    BY Table DEF CountInv, Inv
  <2>5. q \in Nat /\ w \in Int
    BY <2>4 DEF Row
  <2>6. WaitLimit \in Nat /\ CronLimit \in Nat /\ CodeTTL \in Nat
    BY TimesAssumption
  <2>7. SureSpan = CodeTTL - WaitLimit - CronLimit
    BY DEF SureSpan, WrongWindow
  <2> HIDE DEF q, w, b
  <2>8. w < now - SureSpan
    BY <2>1, <2>2, <2>3, <2>5, <2>6, <2>7
  <2> QED BY <2>8 DEF w
<1>5. KeepsCounts
  <2>1. \A c : KeepsCount(c, c)
    BY DEF KeepsCount
  <2> QED BY <1>2, <1>4, <2>1 DEF KeepsCounts
<1> QED BY <1>1, <1>3, <1>5, QuietKeeps

-----------------------------------------------------------------------------
(* Requests that count *)

\* `tx' is what the request of `by' that has just begun will write.
Begins(q, tx) ==
    /\ flight[q] = Idle /\ tx # Idle /\ tx.clean = TRUE
    /\ flight' = [flight EXCEPT ![q] = tx]
    /\ UNCHANGED <<now, challenge, last, cron, delivered, guesses>>

\* A request that begins is at most one more that guesses.
LEMMA BeginsOneMore ==
    ASSUME CountInv, NEW q \in Requests, NEW tx, Begins(q, tx), CountsOnce(tx)
    PROVE  /\ PlansCount' /\ TriedInTime'
           /\ \A m : ~Tries(tx, m) => Guessing(m)' \subseteq Guessing(m)
<1>1. /\ flight' = [flight EXCEPT ![q] = tx] /\ UNCHANGED <<now, challenge, guesses>>
      /\ DOMAIN flight = Requests
  BY DEF Begins, CountInv, Inv, TypeOK
<1>2. flight'[q] = tx /\ \A a \in Requests \ {q} : flight'[a] = flight[a]
  BY <1>1
<1>3. \A t : CountsOnce(t) => /\ DOMAIN t.writes \subseteq DOMAIN challenge'
                              /\ \A i \in DOMAIN t.writes :
                                    \/ KeepsCount(challenge'[i], t.writes[i])
                                    \/ DOMAIN t.writes = {i} /\ Counts(challenge'[i], t.writes[i])
                              /\ \A c \in t.create : c.last_wrong_at = Never
  BY <1>1 DEF CountsOnce
<1>4. \A a \in Requests : flight'[a] # Idle /\ flight'[a].clean => CountsOnce(flight'[a])
  BY <1>2 DEF CountInv, PlansCount
<1>5. PlansCount'
  BY <1>1, <1>3, <1>4 DEF PlansCount, CountsOnce, Counts, KeepsCount, LastTry
<1>6. TriedInTime'
  BY <1>1 DEF CountInv, TriedInTime, LastTry
<1>7. ASSUME NEW m, ~Tries(tx, m), NEW a \in Guessing(m)'
      PROVE  a \in Guessing(m)
  <2>1. a \in Requests /\ flight'[a] # Idle /\ flight'[a].clean /\ Tries(flight'[a], m)
    BY <1>1, <1>7 DEF Guessing, Tries
  <2>2. a # q
    BY <1>2, <1>7, <2>1
  <2> QED BY <1>2, <2>1, <2>2 DEF Guessing
<1> QED BY <1>5, <1>6, <1>7

\* A request that neither counts nor accepts a code.
LEMMA PlainOpens ==
    ASSUME CountInv, Inv', NEW q \in Requests, NEW writes, NEW create,
           Open(q, writes, create),
           DOMAIN writes \subseteq DOMAIN challenge,
           \A i \in DOMAIN writes :
              KeepsCount(challenge[i], writes[i]) /\ writes[i].state # "done",
           \A c \in create : c.last_wrong_at = Never
    PROVE  CountInv'
<1> DEFINE tx == [writes |-> writes, create |-> create, clean |-> TRUE]
<1>1. /\ flight' = [flight EXCEPT ![q] = tx] /\ flight[q] = Idle
      /\ UNCHANGED <<now, challenge, last, cron, delivered, guesses>>
  BY DEF Open
<1>2. tx.writes = writes /\ tx.create = create /\ tx.clean = TRUE
  OBVIOUS
<1> HIDE DEF tx
<1>3. CountsOnce(tx)
  BY <1>2 DEF CountsOnce
<1>4. ASSUME NEW m PROVE ~Tries(tx, m)
  <2>1. \A i \in DOMAIN challenge : challenge[i].wrong_count \in Nat
    BY Table DEF CountInv, Inv, Row
  <2>2. ASSUME NEW i \in DOMAIN tx.writes
        PROVE  ~(tx.writes[i].state = "done" \/ tx.writes[i].wrong_count > challenge[i].wrong_count)
    <3>1. tx.writes[i].wrong_count = challenge[i].wrong_count /\ challenge[i].wrong_count \in Nat
      BY <1>2, <2>1 DEF KeepsCount
    <3> QED BY <1>2, <3>1
  <2> QED BY <2>2 DEF Tries
<1>5. CASE tx = Idle
  <2>1. UNCHANGED <<now, challenge, guesses>> /\ \A a \in Requests : flight'[a] = flight[a]
    BY <1>1, <1>5 DEF CountInv, Inv, TypeOK
  <2> QED BY <2>1, AsideKeeps
<1>6. CASE tx # Idle
  <2>1. Begins(q, tx)
    BY <1>1, <1>2, <1>6 DEF Begins
  <2>2. PlansCount' /\ TriedInTime' /\ \A m : Guessing(m)' \subseteq Guessing(m)
    BY <1>3, <1>4, <2>1, BeginsOneMore
  <2>3. now' \in Nat /\ now <= now'
    BY <1>1, Table DEF CountInv, Inv
  <2>4. \A m, since : NoLess(challenge', m, since)
    BY <1>1, SameTable DEF CountInv, Inv
  <2>5. BudgetKept'
    <3>1. Inv /\ BudgetKept /\ TypeOK' /\ guesses' = guesses
      BY <1>1 DEF CountInv, Inv
    <3> QED BY <2>2, <2>3, <2>4, <3>1, BudgetStays
  <2> QED BY <2>2, <2>5 DEF CountInv
<1> QED BY <1>5, <1>6

LEMMA ReuseCounts ==
    ASSUME CountInv, Inv', NEW q \in Requests, NEW by \in Askers, NEW m \in Mobiles, Reuse(q, by, m)
    PROVE  CountInv'
<1> DEFINE i == Reusable(by, m)
           c == [challenge[i] EXCEPT !.asker = by]
<1>1. i # 0 /\ Open(q, Write(i, c), {})
  BY DEF Reuse
<1>2. i \in DOMAIN challenge /\ StillWorks(challenge[i])
  <2> DEFINE S == {j \in DOMAIN challenge : /\ challenge[j].mobile = m
                                            /\ MayReuse(by, challenge[j])
                                            /\ StillWorks(challenge[j])}
  <2>1. i = NewestOf(S) /\ S \in SUBSET DOMAIN challenge
    BY DEF Reusable
  <2> HIDE DEF S
  <2>2. NewestOf(S) \in S
    BY <1>1, <2>1, NewestIsOne DEF CountInv, Inv
  <2> QED BY <2>1, <2>2 DEF S
<1>3. challenge[i] \in Row /\ challenge[i].state # "done"
  BY <1>2, Table DEF CountInv, Inv, StillWorks
<1>4. KeepsCount(challenge[i], c) /\ c.state # "done"
  BY <1>3 DEF KeepsCount, Row
<1> HIDE DEF i, c
<1>5. DOMAIN Write(i, c) = {i} /\ Write(i, c)[i] = c
  BY DEF Write
<1>6. \A d \in {} : d.last_wrong_at = Never
  OBVIOUS
<1>7. /\ DOMAIN Write(i, c) \subseteq DOMAIN challenge
      /\ \A j \in DOMAIN Write(i, c) :
            KeepsCount(challenge[j], Write(i, c)[j]) /\ Write(i, c)[j].state # "done"
  BY <1>2, <1>4, <1>5
<1> QED BY <1>1, <1>6, <1>7, PlainOpens

LEMMA AskCounts ==
    ASSUME CountInv, Inv', NEW q \in Requests, NEW by \in Askers, NEW m \in Mobiles,
           NEW force \in BOOLEAN, NEW taken \in BOOLEAN, Ask(q, by, m, force, taken)
    PROVE  CountInv'
<1> DEFINE gone(i) == [challenge[i] EXCEPT !.state = "expired", !.pending = FALSE]
           writes == [i \in Superseded(by) |-> gone(i)]
           c == NewRow(by, m)
<1>1. Open(q, writes, {c})
  BY DEF Ask
<1>2. ASSUME NEW i \in DOMAIN challenge
      PROVE  KeepsCount(challenge[i], gone(i)) /\ gone(i).state # "done"
  <2>1. challenge[i] \in Row
    BY Table DEF CountInv, Inv
  <2> QED BY <2>1 DEF Row, KeepsCount
<1>3. /\ Superseded(by) \subseteq DOMAIN challenge /\ DOMAIN writes = Superseded(by)
      /\ \A i \in Superseded(by) : writes[i] = gone(i)
  BY DEF Superseded
<1>4. \A d \in {c} : d.last_wrong_at = Never
  BY DEF NewRow
<1> HIDE DEF writes, c, gone
<1>5. /\ DOMAIN writes \subseteq DOMAIN challenge
      /\ \A i \in DOMAIN writes :
            KeepsCount(challenge[i], writes[i]) /\ writes[i].state # "done"
  BY <1>2, <1>3
<1> QED BY <1>1, <1>4, <1>5, PlainOpens

LEMMA PageCounts ==
    ASSUME CountInv, Inv', NEW q \in Requests, NEW by \in Askers, Page(q, by)
    PROVE  CountInv'
<1> DEFINE i == Latest(by)
           c == challenge[i]
           s == Settled(c)
<1>1. i # 0 /\ s # c /\ Open(q, Write(i, s), {})
  BY DEF Page
<1>2. i \in DOMAIN challenge /\ c \in Row
  BY <1>1, LatestIs, Table DEF CountInv, Inv
<1> HIDE DEF i
<1>3. KeepsCount(c, s) /\ s.state # "done"
  <2>1. CASE c.state = "queued" /\ now - c.queued_at > WaitLimit
    BY <1>2, <2>1 DEF Settled, Row, KeepsCount
  <2>2. CASE c.state = "sent" /\ now > ExpiresAt(c)
    BY <1>2, <2>2 DEF Settled, Row, KeepsCount
  <2>3. CASE ~(c.state = "queued" /\ now - c.queued_at > WaitLimit)
             /\ ~(c.state = "sent" /\ now > ExpiresAt(c))
    BY <2>3, <1>1 DEF Settled
  <2> QED BY <2>1, <2>2, <2>3
<1> HIDE DEF s
<1>4. DOMAIN Write(i, s) = {i} /\ Write(i, s)[i] = s
  BY DEF Write
<1>5. \A d \in {} : d.last_wrong_at = Never
  OBVIOUS
<1>6. /\ DOMAIN Write(i, s) \subseteq DOMAIN challenge
      /\ \A j \in DOMAIN Write(i, s) :
            KeepsCount(challenge[j], Write(i, s)[j]) /\ Write(i, s)[j].state # "done"
  BY <1>2, <1>3, <1>4
<1> QED BY <1>1, <1>5, <1>6, PlainOpens

\* A code is typed only while the row is sent and the code's day lasts.
LEMMA TypedInTime ==
    ASSUME Inv, NEW i \in DOMAIN challenge, Settled(challenge[i]).state = "sent"
    PROVE  challenge[i].state = "sent" /\ now <= LastTry(challenge[i])
<1> DEFINE r == challenge[i]
<1>1. r \in Row /\ InOrder(r) /\ now \in Nat
  BY Table DEF Inv
<1>2. r.state = "sent" /\ ~(now > ExpiresAt(r))
  <2>1. CASE r.state = "queued" /\ now - r.queued_at > WaitLimit
    <3>1. Settled(r) = [r EXCEPT !.state = "failed", !.pending = FALSE]
      BY <2>1 DEF Settled
    <3>2. Settled(r).state = "failed"
      BY <1>1, <3>1 DEF Row
    <3> QED BY <3>2
  <2>2. CASE r.state = "sent" /\ now > ExpiresAt(r)
    <3>1. Settled(r) = [r EXCEPT !.state = "expired"]
      BY <2>2 DEF Settled
    <3>2. Settled(r).state = "expired"
      BY <1>1, <3>1 DEF Row
    <3> QED BY <3>2
  <2>3. CASE ~(r.state = "queued" /\ now - r.queued_at > WaitLimit)
             /\ ~(r.state = "sent" /\ now > ExpiresAt(r))
    BY <2>3 DEF Settled
  <2> QED BY <2>1, <2>2, <2>3
<1> DEFINE s == r.sent_at
           q == r.queued_at
<1>3. s \in Int /\ q \in Nat /\ WaitLimit \in Nat /\ CronLimit \in Nat /\ CodeTTL \in Nat
  BY <1>1, TimesAssumption DEF Row
<1>4. s <= q + WaitLimit + CronLimit /\ ~(now > s + CodeTTL)
  BY <1>1, <1>2 DEF InOrder, ExpiresAt
<1>5. LastTry(r) = q + WaitLimit + CronLimit + CodeTTL
  BY DEF LastTry
<1> HIDE DEF s, q
<1>6. now <= q + WaitLimit + CronLimit + CodeTTL
  BY <1>1, <1>3, <1>4
<1> QED BY <1>2, <1>5, <1>6

\* What a typed code makes of the row: one wrong code more, or no more than before.
LEMMA CheckedCounts ==
    ASSUME Inv, NEW i \in DOMAIN challenge, Settled(challenge[i]).state = "sent",
           NEW right \in BOOLEAN, NEW taken \in BOOLEAN
    PROVE  LET c == challenge[i]
               d == Checked(i, right, taken)
           IN  /\ KeepsCount(c, d) \/ Counts(c, d)
               /\ c.tries >= MaxTries => KeepsCount(c, d) /\ d.state # "done"
<1> DEFINE c == challenge[i]
           tried == [c EXCEPT !.tries = c.tries + 1]
           wrong == [tried EXCEPT !.wrong_count = c.wrong_count + 1, !.last_wrong_at = now]
           rows == [challenge EXCEPT ![i] = wrong]
           end(r, st) == [r EXCEPT !.state = st]
           fields(r) == DOMAIN r = DOMAIN c
<1>1. c \in Row /\ c.state = "sent" /\ now <= LastTry(c) /\ MaxTries \in Nat
  BY Table, TypedInTime, LimitsAssumption DEF Inv
<1>2. c.tries \in 0..MaxTries /\ c.wrong_count \in Nat
  BY <1>1 DEF Row
<1>3. /\ DOMAIN c = {"asker", "mobile", "state", "pending", "tries", "wrong_count",
                     "last_wrong_at", "queued_at", "sent_at", "seen"}
  BY <1>1 DEF Row
<1>4. KeepsCount(c, tried) /\ fields(tried) /\ fields(c) /\ KeepsCount(c, c)
  BY <1>3 DEF KeepsCount
<1>5. Counts(c, wrong) /\ fields(wrong)
  <2>1. ASSUME NEW r, DOMAIN r = DOMAIN c, NEW n
        PROVE  LET w == [r EXCEPT !.wrong_count = n, !.last_wrong_at = now]
               IN  /\ w.mobile = r.mobile /\ w.queued_at = r.queued_at
                   /\ w.wrong_count = n /\ w.last_wrong_at = now /\ DOMAIN w = DOMAIN r
    BY <1>3, <2>1
  <2>2. tried.mobile = c.mobile /\ tried.queued_at = c.queued_at /\ DOMAIN tried = DOMAIN c
    BY <1>4 DEF KeepsCount
  <2> HIDE DEF tried
  <2>3. /\ wrong.mobile = tried.mobile /\ wrong.queued_at = tried.queued_at
        /\ wrong.wrong_count = c.wrong_count + 1 /\ wrong.last_wrong_at = now
        /\ DOMAIN wrong = DOMAIN tried
    BY <2>1, <2>2
  <2> HIDE DEF wrong
  <2> QED BY <1>1, <2>2, <2>3 DEF Counts
<1>6. ASSUME NEW r, fields(r), NEW st
      PROVE  /\ end(r, st).state = st /\ end(r, st).mobile = r.mobile
             /\ end(r, st).queued_at = r.queued_at /\ end(r, st).wrong_count = r.wrong_count
             /\ end(r, st).last_wrong_at = r.last_wrong_at
  BY <1>3, <1>6
<1>7. ASSUME NEW r, fields(r), NEW st
      PROVE  /\ KeepsCount(c, r) => KeepsCount(c, end(r, st))
             /\ Counts(c, r) => Counts(c, end(r, st))
             /\ end(r, st).state = st
  <2>1. /\ end(r, st).state = st /\ end(r, st).mobile = r.mobile
        /\ end(r, st).queued_at = r.queued_at /\ end(r, st).wrong_count = r.wrong_count
        /\ end(r, st).last_wrong_at = r.last_wrong_at
    BY <1>6, <1>7
  <2> HIDE DEF c, end
  <2> QED BY <2>1 DEF KeepsCount, Counts
<1>8. CASE c.tries >= MaxTries
  <2>1. Checked(i, right, taken) = end(c, "expired")
    <3>1. ~(c.tries < MaxTries /\ ~right)
      BY <1>8, <1>1, <1>2
    <3> QED BY <1>8, <3>1 DEF Checked
  <2> HIDE DEF c, end, fields
  <2>2. KeepsCount(c, end(c, "expired")) /\ end(c, "expired").state # "done"
    BY <1>4, <1>7
  <2> QED BY <2>1, <2>2 DEF c
<1>9. CASE c.tries < MaxTries /\ ~right
  <2>1. Checked(i, right, taken) =
           IF LockedIn(rows, c.mobile) \/ wrong.tries >= MaxTries
           THEN end(wrong, "expired") ELSE wrong
    BY <1>9, <1>1, <1>2 DEF Checked
  <2>2. ~(c.tries >= MaxTries)
    BY <1>1, <1>2, <1>9
  <2> HIDE DEF c, wrong, rows, end, fields
  <2>3. Counts(c, Checked(i, right, taken))
    BY <2>1, <1>5, <1>7
  <2> QED BY <2>2, <2>3 DEF c
<1>10. CASE c.tries < MaxTries /\ right
  <2>1. Checked(i, right, taken) =
           IF c.asker \in Partners /\ taken THEN end(tried, "expired") ELSE end(tried, "done")
    <3>1. ~(c.tries >= MaxTries) /\ ~(c.tries < MaxTries /\ ~right)
      BY <1>10, <1>1, <1>2
    <3> QED BY <3>1 DEF Checked
  <2>2. ~(c.tries >= MaxTries)
    BY <1>1, <1>2, <1>10
  <2> HIDE DEF c, tried, end, fields
  <2>3. KeepsCount(c, Checked(i, right, taken))
    BY <2>1, <1>4, <1>7
  <2> QED BY <2>2, <2>3 DEF c
<1> QED BY <1>1, <1>2, <1>8, <1>9, <1>10

\* A typed code is looked at only when the number is not locked: the request that begins is
\* within the allowance.
LEMMA SubmitCounts ==
    ASSUME CountInv, Inv', NEW q \in Requests, NEW by \in Askers, NEW typed, NEW taken \in BOOLEAN,
           Submit(q, by, typed, taken)
    PROVE  CountInv'
<1> DEFINE i == Latest(by)
           c == challenge[i]
           d == Checked(i, typed = i, taken)
           tx == [writes |-> Write(i, d), create |-> {}, clean |-> TRUE]
<1>1. /\ i # 0 /\ Settled(c).state = "sent" /\ flight[q] = Idle
      /\ c.tries >= MaxTries \/ ~Locked(c.mobile)
      /\ flight' = [flight EXCEPT ![q] = tx]
      /\ UNCHANGED <<now, challenge, last, cron, delivered, guesses>>
  BY DEF Submit, Open
<1>2. i \in DOMAIN challenge /\ c \in Row
  BY <1>1, LatestIs, Table DEF CountInv, Inv
<1>3. /\ KeepsCount(c, d) \/ Counts(c, d)
      /\ c.tries >= MaxTries => KeepsCount(c, d) /\ d.state # "done"
  <2>1. (typed = i) \in BOOLEAN
    OBVIOUS
  <2> HIDE DEF i
  <2> QED BY <1>1, <1>2, <2>1, CheckedCounts DEF CountInv
<1>4. tx.create = {} /\ tx.clean = TRUE /\ tx.writes = Write(i, d)
  OBVIOUS
<1>5. DOMAIN Write(i, d) = {i} /\ Write(i, d)[i] = d
  BY DEF Write
<1> HIDE DEF tx, d, i
<1>6. CountsOnce(tx)
  BY <1>2, <1>3, <1>4, <1>5 DEF CountsOnce
<1>7. ASSUME NEW m, Tries(tx, m)
      PROVE  m = c.mobile /\ ~Locked(m)
  <2>1. /\ c.mobile = m
        /\ d.state = "done" \/ d.wrong_count > c.wrong_count
    BY <1>4, <1>5, <1>7 DEF Tries
  <2>2. c.wrong_count \in Nat
    BY <1>2 DEF Row
  <2>3. ~(KeepsCount(c, d) /\ d.state # "done")
    <3>1. KeepsCount(c, d) => d.wrong_count = c.wrong_count
      BY DEF KeepsCount
    <3> QED BY <2>1, <2>2, <3>1
  <2> QED BY <1>1, <1>3, <2>1, <2>3
<1>8. CASE tx = Idle
  <2>1. UNCHANGED <<now, challenge, guesses>> /\ \A a \in Requests : flight'[a] = flight[a]
    BY <1>1, <1>8 DEF CountInv, Inv, TypeOK
  <2> QED BY <2>1, AsideKeeps
<1>9. CASE tx # Idle
  <2>1. Begins(q, tx)
    BY <1>1, <1>4, <1>9 DEF Begins
  <2>2. PlansCount' /\ TriedInTime' /\ \A m : ~Tries(tx, m) => Guessing(m)' \subseteq Guessing(m)
    BY <1>6, <2>1, BeginsOneMore
  <2>3. ASSUME NEW m \in Mobiles, NEW since \in Int, InSpan(since)
        PROVE  /\ GuessesSince(m, since) <= CountedSince(challenge, m, since)
               /\ GuessesSince(m, since) + Cardinality(Guessing(m)')
                     <= MaxWrongPerDay + Cardinality(Requests) - 1
    <3>1. GuessesSince(m, since) <= CountedSince(challenge, m, since) /\ Bounded(m, since)
      BY <2>3 DEF CountInv, BudgetKept
    <3>2. /\ GuessesSince(m, since) \in Int /\ MaxWrongPerDay \in Nat
          /\ Cardinality(Guessing(m)) \in Nat /\ Cardinality(Requests) \in Nat
      BY GuessesAddUp, GuessersCounted, LimitsAssumption DEF CountInv, Inv
    <3>3. CASE Tries(tx, m)
      <4> DEFINE day == now - WrongWindow
      <4>1. /\ WrongWindow = CodeTTL /\ SureSpan = CodeTTL - WaitLimit - CronLimit
            /\ CodeTTL \in Nat /\ WaitLimit \in Nat /\ CronLimit \in Nat /\ now \in Nat
        BY Table, TimesAssumption DEF CountInv, Inv, SureSpan, WrongWindow
      <4>2. since >= now - SureSpan
        BY <2>3 DEF InSpan
      <4>3. day <= since /\ day \in Int
        BY <4>1, <4>2
      <4>4. ~(CountedSince(challenge, m, day) >= MaxWrongPerDay)
        BY <1>7, <3>3 DEF Locked, LockedIn
      <4> HIDE DEF day
      <4>5. CountedSince(challenge, m, since) <= CountedSince(challenge, m, day)
        BY <4>3, LaterCountsLess DEF CountInv, Inv
      <4>6. /\ CountedSince(challenge, m, since) \in Int
            /\ CountedSince(challenge, m, day) \in Int
        <5>1. /\ DOMAIN challenge \subseteq Ids /\ \A j \in DOMAIN challenge : challenge[j] \in Row
          BY Table DEF CountInv, Inv
        <5> QED BY <5>1, RowsWeigh
      <4>7. GuessesSince(m, since) <= MaxWrongPerDay - 1
        BY <3>1, <3>2, <4>4, <4>5, <4>6
      <4>8. Cardinality(Guessing(m)') \in Nat /\ Cardinality(Guessing(m)') <= Cardinality(Requests)
        <5>1. Guessing(m)' \in SUBSET Requests
          BY DEF Guessing
        <5> QED BY <5>1, AskersAssumption, FS_Subset, FS_CardinalityType
      <4> QED BY <3>1, <3>2, <4>7, <4>8
    <3>4. CASE ~Tries(tx, m)
      <4>1. Guessing(m)' \in SUBSET Guessing(m)
        BY <2>2, <3>4
      <4>2. /\ Cardinality(Guessing(m)') \in Nat
            /\ Cardinality(Guessing(m)') <= Cardinality(Guessing(m))
        BY <4>1, GuessersCounted, FS_Subset, FS_CardinalityType
      <4>3. GuessesSince(m, since) + Cardinality(Guessing(m))
               <= MaxWrongPerDay + Cardinality(Requests) - 1
        BY <3>1 DEF Bounded
      <4> QED BY <3>1, <3>2, <4>2, <4>3
    <3> QED BY <3>3, <3>4
  <2>4. BudgetKept'
    <3> SUFFICES ASSUME NEW m \in Mobiles, NEW since \in Int, InSpan(since)'
                 PROVE  (/\ GuessesSince(m, since) <= CountedSince(challenge, m, since)
                         /\ Bounded(m, since))'
      BY DEF BudgetKept
    <3>1. InSpan(since)
      BY <1>1 DEF InSpan, SureSpan, WrongWindow
    <3>2. GuessesSince(m, since)' = GuessesSince(m, since)
      BY <1>1 DEF GuessesSince
    <3>3. CountedSince(challenge, m, since)' = CountedSince(challenge, m, since)
      BY <1>1 DEF CountedSince
    <3> QED BY <2>3, <3>1, <3>2, <3>3 DEF Bounded
  <2> QED BY <2>2, <2>4 DEF CountInv
<1> QED BY <1>8, <1>9

-----------------------------------------------------------------------------
(* A commit counts *)

\* Whom a commit leaves under way: the requests that write none of its rows, as they were.
LEMMA CommitLeaves ==
    ASSUME CountInv, Inv', NEW q \in Requests, Commit(q)
    PROVE  PlansCount' /\ TriedInTime' /\ \A m : Guessing(m)' \subseteq Guessing(m) \ {q}
<1> DEFINE tx == flight[q]
<1>1. /\ now' = now /\ tx # Idle /\ tx.clean
      /\ flight' = [Dirtied(DOMAIN tx.writes) EXCEPT ![q] = Idle]
  BY DEF Commit
<1>2. Written(tx) /\ CountsOnce(tx)
  BY <1>1, CommitWrites DEF CountInv, PlansCount
<1>3. \A a \in Requests : flight'[a] = Idle \/ flight'[a] = Dirtied(DOMAIN tx.writes)[a]
  <2>1. DOMAIN Dirtied(DOMAIN tx.writes) = Requests
    BY DEF Dirtied
  <2> QED BY <1>1, <2>1
<1>4. flight'[q] = Idle
  BY CommitPlans DEF CountInv
<1> HIDE DEF tx
<1>5. \A i \in DOMAIN challenge \ DOMAIN tx.writes :
         i \in DOMAIN challenge' /\ challenge'[i] = challenge[i]
  <2>1. ASSUME NEW i \in DOMAIN challenge \ DOMAIN tx.writes
        PROVE  i \in DOMAIN challenge' /\ challenge'[i] = challenge[i]
    <3>1. i # last + 1
      BY Table DEF CountInv, Inv
    <3> QED BY <1>2, <3>1 DEF Written
  <2> QED BY <2>1
<1>6. Undisturbed
  BY <1>3, <1>5, StaleAside DEF CountInv, Inv
<1>7. PlansCount' /\ \A m : Guessing(m)' \subseteq Guessing(m)
  BY <1>1, <1>6, PlansStand DEF CountInv
<1>8. \A m : q \notin Guessing(m)'
  BY <1>4 DEF Guessing
<1>9. TriedInTime'
  <2>1. ASSUME NEW i \in DOMAIN challenge'
        PROVE  challenge'[i].last_wrong_at <= now /\ challenge'[i].last_wrong_at <= LastTry(challenge'[i])
    <3>1. CASE i \in DOMAIN challenge /\ i \in DOMAIN tx.writes /\ challenge'[i] = tx.writes[i]
      <4>1. KeepsCount(challenge[i], challenge'[i]) \/ Counts(challenge[i], challenge'[i])
        BY <1>2, <3>1 DEF CountsOnce
      <4>2. now <= now
        BY Table DEF CountInv, Inv
      <4> QED BY <3>1, <4>1, <4>2 DEF CountInv, TriedInTime, KeepsCount, Counts, LastTry
    <3>2. CASE i \in DOMAIN challenge /\ challenge'[i] = challenge[i]
      BY <3>2 DEF CountInv, TriedInTime
    <3>3. CASE challenge'[i] \in tx.create
      <4>1. challenge'[i].last_wrong_at = Never
        BY <1>2, <3>3 DEF CountsOnce
      <4>2. challenge'[i] \in Row /\ now \in Nat
        BY Table DEF CountInv, Inv, TypeOK
      <4>3. challenge'[i].queued_at \in Nat
        BY <4>2 DEF Row
      <4>4. WaitLimit \in Nat /\ CronLimit \in Nat /\ CodeTTL \in Nat
        BY TimesAssumption
      <4>5. Never <= now /\ Never <= challenge'[i].queued_at + WaitLimit + CronLimit + CodeTTL
        BY <4>2, <4>3, <4>4 DEF Never
      <4> QED BY <4>1, <4>5 DEF LastTry
    <3> QED BY <1>2, <3>1, <3>2, <3>3 DEF Written
  <2> QED BY <1>1, <2>1 DEF TriedInTime, LastTry
<1> QED BY <1>7, <1>8, <1>9

\* The wrong codes a commit counts for `m'.
NewWrongs(tx, m) == Cardinality({i \in Wrongs(tx) : challenge[i].mobile = m})
Added(n, since) == IF now >= since THEN n ELSE 0

\* They are the next tick's share.
LEMMA CommitGuesses ==
    ASSUME Inv, NEW q \in Requests, Commit(q), NEW m \in Mobiles, NEW since \in Int,
           NEW n \in Nat, n = NewWrongs(flight[q], m)
    PROVE  GuessesSince(m, since)' = GuessesSince(m, since) + Added(n, since)
<1> DEFINE g == guesses[m]
           h == [g EXCEPT ![now] = @ + n]
           w == TickWeighs(g, since)
           v == TickWeighs(h, since)
<1>1. g \in [Time -> Nat] /\ now \in Time /\ now \in Nat /\ MaxTime \in Nat
  BY Table DEF Inv, TypeOK
<1>2. guesses'[m] = h
  BY DEF Commit, NewWrongs
<1>3. GuessesSince(m, since)' = SumTo(TickWeighs(guesses'[m], since), MaxTime + 1)
  BY DEF GuessesSince, TickWeighs
<1>4. GuessesSince(m, since) = SumTo(w, MaxTime + 1)
  BY GuessesAddUp DEF Inv
<1> HIDE DEF g
<1>5. h \in [Time -> Nat] /\ h[now] = g[now] + n /\ \A t \in Time : t # now => h[t] = g[t]
  <2>1. g[now] + n \in Nat
    BY <1>1
  <2> QED BY <1>1, <2>1
<1> HIDE DEF h
<1>6. w \in [1..(MaxTime + 1) -> Int] /\ v \in [1..(MaxTime + 1) -> Int]
  BY <1>1, <1>5, TicksWeigh
<1>7. now + 1 \in 1..(MaxTime + 1) /\ MaxTime + 1 \in Nat
  BY <1>1 DEF Time
<1>8. ASSUME NEW k \in 1..(MaxTime + 1), k # now + 1
      PROVE  v[k] = w[k]
  <2>1. k - 1 \in Time /\ k - 1 # now
    BY <1>1, <1>8 DEF Time
  <2>2. h[k - 1] = g[k - 1]
    BY <1>5, <2>1
  <2> QED BY <2>2 DEF TickWeighs
<1>9. DifferAt(now + 1, w, v, MaxTime + 1)
  BY <1>8 DEF DifferAt
<1>10. v[now + 1] = w[now + 1] + Added(n, since)
  <2>1. PICK k \in 1..(MaxTime + 1) : k = now + 1 /\ k - 1 = now
    BY <1>1, <1>7
  <2>2. /\ v[k] = IF k - 1 >= since THEN h[k - 1] ELSE 0
        /\ w[k] = IF k - 1 >= since THEN g[k - 1] ELSE 0
    BY DEF TickWeighs
  <2>3. CASE now >= since
    BY <1>1, <1>5, <2>1, <2>2, <2>3 DEF Added
  <2>4. CASE ~(now >= since)
    BY <2>1, <2>2, <2>4 DEF Added
  <2> QED BY <2>3, <2>4
<1> HIDE DEF w, v
<1>11. /\ SumTo(w, MaxTime + 1) \in Int /\ SumTo(v, MaxTime + 1) \in Int
       /\ MovesAs(SumTo(v, MaxTime + 1), SumTo(w, MaxTime + 1), w[now + 1], v[now + 1])
  BY <1>6, <1>7, <1>9, SumMoves
<1>12. SumTo(v, MaxTime + 1) = SumTo(w, MaxTime + 1) + Added(n, since)
  <2> DEFINE a == Added(n, since)
             x == w[now + 1]
  <2>1. a \in Int /\ x \in Int
    BY <1>6, <1>7 DEF Added
  <2>2. SumTo(v, MaxTime + 1) = SumTo(w, MaxTime + 1) + (x + a) - x
    BY <1>10, <1>11 DEF MovesAs
  <2> HIDE DEF a, x
  <2>3. SumTo(v, MaxTime + 1) = SumTo(w, MaxTime + 1) + a
    BY <1>11, <2>1, <2>2
  <2> QED BY <2>3 DEF a
<1> QED BY <1>2, <1>3, <1>4, <1>12 DEF v

\* The rows count them too.
LEMMA CommitRows ==
    ASSUME CountInv, Inv', NEW q \in Requests, Commit(q), NEW m \in Mobiles, NEW since \in Int,
           NEW n, n = NewWrongs(flight[q], m)
    PROVE  /\ n \in Nat
           /\ CountedSince(challenge, m, since) + Added(n, since) <= CountedSince(challenge', m, since)
           /\ n > 0 => n = 1 /\ q \in Guessing(m)
<1> DEFINE tx == flight[q]
           w == RowWeighs(challenge, m, since)
           v == RowWeighs(challenge', m, since)
           mine == {i \in Wrongs(tx) : challenge[i].mobile = m}
<1>1. /\ tx # Idle /\ tx.clean /\ Written(tx) /\ CountsOnce(tx)
      /\ n = Cardinality(mine) /\ now \in Nat
  BY CommitWrites, Table DEF CountInv, Inv, Commit, PlansCount, NewWrongs
<1>2. /\ DOMAIN challenge \subseteq Ids /\ \A i \in DOMAIN challenge : challenge[i] \in Row
  BY Table DEF CountInv, Inv
<1>3. DOMAIN challenge' \subseteq Ids /\ \A i \in DOMAIN challenge' : challenge'[i] \in Row
  BY TimesAssumption DEF Inv, TypeOK, Ids
<1>4. /\ w \in [1..MaxRows -> Int] /\ CountedSince(challenge, m, since) = SumTo(w, MaxRows)
      /\ v \in [1..MaxRows -> Int] /\ CountedSince(challenge', m, since) = SumTo(v, MaxRows)
      /\ \A i \in 1..MaxRows : v[i] >= 0
  BY <1>2, <1>3, RowsWeigh
<1>5. \A i \in DOMAIN challenge : i \in DOMAIN challenge' /\ i # last + 1
  BY <1>1, Table DEF Written, CountInv, Inv
<1> HIDE DEF tx
<1>6. \A i \in DOMAIN challenge :
         challenge[i].wrong_count \in Nat /\ challenge[i].last_wrong_at \in Int
  BY <1>2 DEF Row
<1>7. ASSUME NEW i \in 1..MaxRows,
             i \in DOMAIN challenge => KeepsCount(challenge[i], challenge'[i])
      PROVE  w[i] <= v[i]
  <2>1. CASE i \notin DOMAIN challenge
    <3>1. w[i] = 0
      BY <2>1 DEF RowWeighs, Ids
    <3> QED BY <1>4, <3>1
  <2>2. CASE i \in DOMAIN challenge
    <3>1. v[i] = w[i]
      BY <1>5, <1>7, <2>2 DEF RowWeighs, Ids, KeepsCount
    <3>2. w[i] \in Int
      BY <1>4
    <3> HIDE DEF w, v
    <3> QED BY <3>1, <3>2
  <2> QED BY <2>1, <2>2
<1>8. \A i \in DOMAIN challenge :
         challenge'[i] = IF i \in DOMAIN tx.writes THEN tx.writes[i] ELSE challenge[i]
  BY <1>1, <1>5 DEF Written
<1>9. MaxRows \in Nat
  BY TimesAssumption
<1>10. CASE \A i \in DOMAIN tx.writes : KeepsCount(challenge[i], tx.writes[i])
  <2>1. \A i \in DOMAIN tx.writes : ~(tx.writes[i].wrong_count > challenge[i].wrong_count)
    <3>1. DOMAIN tx.writes \subseteq DOMAIN challenge
      BY <1>1 DEF CountsOnce
    <3> QED BY <1>6, <1>10, <3>1 DEF KeepsCount
  <2>2. mine = {}
    BY <2>1 DEF Wrongs
  <2> HIDE DEF mine
  <2>3. n = 0
    BY <1>1, <2>2, FS_EmptySet
  <2>4. \A i \in DOMAIN challenge : KeepsCount(challenge[i], challenge'[i])
    BY <1>8, <1>10 DEF KeepsCount
  <2>5. \A i \in 1..MaxRows : w[i] <= v[i]
    BY <1>7, <2>4
  <2> HIDE DEF w, v
  <2>6. SumTo(w, MaxRows) \in Int /\ SumTo(v, MaxRows) \in Int /\ SumTo(w, MaxRows) <= SumTo(v, MaxRows)
    BY <1>4, <1>9, <2>5, SumMonotone
  <2> QED BY <1>4, <2>3, <2>6 DEF Added
<1>11. CASE ~ \A i \in DOMAIN tx.writes : KeepsCount(challenge[i], tx.writes[i])
  <2>1. PICK i \in DOMAIN tx.writes :
           i \in DOMAIN challenge /\ DOMAIN tx.writes = {i} /\ Counts(challenge[i], tx.writes[i])
    BY <1>1, <1>11 DEF CountsOnce
  <2>2. /\ challenge'[i] = tx.writes[i]
        /\ \A j \in DOMAIN challenge : j # i => challenge'[j] = challenge[j]
    BY <1>8, <2>1
  <2>3. tx.writes[i].wrong_count = challenge[i].wrong_count + 1 /\ challenge[i].wrong_count \in Nat
    BY <1>6, <2>1 DEF Counts
  <2>4. Wrongs(tx) = {i}
    <3>1. tx.writes[i].wrong_count > challenge[i].wrong_count
      BY <2>3
    <3> QED BY <2>1, <3>1 DEF Wrongs
  <2>5. i \in 1..MaxRows
    BY <1>2, <2>1 DEF Ids
  <2>6. ASSUME NEW j \in 1..MaxRows, j # i
        PROVE  w[j] <= v[j]
    <3>1. j \in DOMAIN challenge => KeepsCount(challenge[j], challenge'[j])
      BY <2>2, <2>6 DEF KeepsCount
    <3> QED BY <1>7, <3>1
  <2>7. CASE challenge[i].mobile # m
    <3>1. mine = {}
      BY <2>4, <2>7
    <3> HIDE DEF mine
    <3>2. n = 0
      BY <1>1, <3>1, FS_EmptySet
    <3>3. w[i] = 0
      BY <2>5, <2>7 DEF RowWeighs, Ids
    <3> HIDE DEF w, v
    <3>4. \A j \in 1..MaxRows : w[j] <= v[j]
      BY <1>4, <2>6, <3>3
    <3>5. /\ SumTo(w, MaxRows) \in Int /\ SumTo(v, MaxRows) \in Int
          /\ SumTo(w, MaxRows) <= SumTo(v, MaxRows)
      BY <1>4, <1>9, <3>4, SumMonotone
    <3> QED BY <1>4, <3>2, <3>5 DEF Added
  <2>8. CASE challenge[i].mobile = m
    <3>1. mine = {i}
      BY <2>4, <2>8
    <3>2. n = 1
      BY <1>1, <3>1, FS_Singleton
    <3>3. q \in Guessing(m)
      <4>1. Tries(tx, m)
        BY <2>3, <2>8 DEF Tries
      <4> QED BY <1>1, <4>1 DEF Guessing, tx
    <3>4. w[i] + Added(n, since) <= v[i]
      <4>1. /\ challenge'[i].mobile = m /\ challenge'[i].last_wrong_at = now
            /\ challenge'[i].wrong_count = challenge[i].wrong_count + 1
            /\ i \in DOMAIN challenge'
        BY <1>5, <2>1, <2>2, <2>8 DEF Counts
      <4>2. now # Never /\ challenge[i].last_wrong_at <= now
        BY <1>1, <2>1 DEF Never, CountInv, TriedInTime
      <4>3. v[i] = IF now >= since THEN challenge[i].wrong_count + 1 ELSE 0
        BY <2>5, <4>1, <4>2 DEF RowWeighs, Ids
      <4>4. CASE now >= since
        <5>1. w[i] <= challenge[i].wrong_count /\ w[i] \in Int
          BY <1>4, <2>1, <2>3, <2>5 DEF RowWeighs, Ids
        <5> HIDE DEF w, v
        <5> QED BY <2>3, <3>2, <4>3, <4>4, <5>1 DEF Added
      <4>5. CASE ~(now >= since)
        <5>1. ~(challenge[i].last_wrong_at >= since)
          BY <1>1, <1>6, <2>1, <4>2, <4>5
        <5>2. w[i] = 0
          BY <2>5, <5>1 DEF RowWeighs, Ids
        <5> HIDE DEF w, v
        <5> QED BY <4>3, <4>5, <5>2 DEF Added
      <4> QED BY <4>4, <4>5
    <3> HIDE DEF w, v, mine
    <3> DEFINE u == [j \in 1..MaxRows |-> IF j = i THEN v[i] ELSE w[j]]
    <3>5. u \in [1..MaxRows -> Int] /\ u[i] = v[i] /\ \A j \in 1..MaxRows : j # i => u[j] = w[j]
      BY <1>4, <2>5
    <3> HIDE DEF u
    <3>6. DifferAt(i, w, u, MaxRows)
      BY <3>5 DEF DifferAt
    <3>7. /\ SumTo(w, MaxRows) \in Int /\ SumTo(u, MaxRows) \in Int
          /\ MovesAs(SumTo(u, MaxRows), SumTo(w, MaxRows), w[i], u[i])
      BY <1>4, <1>9, <2>5, <3>5, <3>6, SumMoves
    <3>8. \A j \in 1..MaxRows : u[j] <= v[j]
      <4>1. v[i] \in Int /\ v[i] <= v[i]
        BY <1>4, <2>5
      <4> QED BY <2>6, <3>5, <4>1
    <3>9. SumTo(v, MaxRows) \in Int /\ SumTo(u, MaxRows) <= SumTo(v, MaxRows)
      BY <1>4, <1>9, <3>5, <3>8, SumMonotone
    <3>10. SumTo(w, MaxRows) + Added(n, since) <= SumTo(v, MaxRows)
      <4> DEFINE a == Added(n, since)
                 x == w[i]
                 y == v[i]
                 p == SumTo(w, MaxRows)
                 z == SumTo(u, MaxRows)
                 r == SumTo(v, MaxRows)
      <4>1. a \in Int /\ x \in Int /\ y \in Int /\ p \in Int /\ z \in Int /\ r \in Int
        BY <1>4, <2>5, <3>2, <3>7, <3>9 DEF Added
      <4>2. x + a <= y /\ z = p + y - x /\ z <= r
        BY <3>4, <3>5, <3>7, <3>9 DEF MovesAs
      <4> HIDE DEF a, x, y, p, z, r
      <4>3. p + a <= r
        BY <4>1, <4>2
      <4> QED BY <4>3 DEF p, a, r
    <3> QED BY <1>4, <3>2, <3>3, <3>10
  <2> QED BY <2>7, <2>8
<1> QED BY <1>10, <1>11

\* A commit keeps the budget: what it counts it no longer has under way.
LEMMA CommitCounts ==
    ASSUME CountInv, Inv', NEW q \in Requests, Commit(q)
    PROVE  CountInv'
<1>1. PlansCount' /\ TriedInTime' /\ \A m : Guessing(m)' \subseteq Guessing(m) \ {q}
  BY CommitLeaves
<1>2. ASSUME NEW m \in Mobiles, NEW since \in Int, InSpan(since)
      PROVE  /\ GuessesSince(m, since)' <= CountedSince(challenge', m, since)
             /\ GuessesSince(m, since)' + Cardinality(Guessing(m)')
                   <= MaxWrongPerDay + Cardinality(Requests) - 1
  <2> DEFINE n == NewWrongs(flight[q], m)
             a == Added(n, since)
             g == GuessesSince(m, since)
             r == CountedSince(challenge, m, since)
             s == CountedSince(challenge', m, since)
  <2>1. /\ n \in Nat /\ r + a <= s
        /\ n > 0 => n = 1 /\ q \in Guessing(m)
    BY CommitRows
  <2>2. GuessesSince(m, since)' = g + a
    <3> HIDE DEF n
    <3> QED BY <2>1, CommitGuesses DEF CountInv, n
  <2>3. g <= r /\ Bounded(m, since)
    BY <1>2 DEF CountInv, BudgetKept
  <2>4. g \in Int /\ r \in Int /\ s \in Int /\ a \in Int
    <3>1. /\ DOMAIN challenge \subseteq Ids /\ \A i \in DOMAIN challenge : challenge[i] \in Row
      BY Table DEF CountInv, Inv
    <3>2. DOMAIN challenge' \subseteq Ids /\ \A i \in DOMAIN challenge' : challenge'[i] \in Row
      BY TimesAssumption DEF Inv, TypeOK, Ids
    <3>3. r \in Int /\ s \in Int
      BY <3>1, <3>2, RowsWeigh
    <3>4. g \in Int
      BY GuessesAddUp DEF CountInv, Inv
    <3> HIDE DEF n
    <3>5. a \in Int
      BY <2>1 DEF Added
    <3> QED BY <3>3, <3>4, <3>5
  <2> DEFINE all == Cardinality(Guessing(m))
             left == Cardinality(Guessing(m)')
  <2>5. /\ all \in Nat /\ MaxWrongPerDay \in Nat /\ Cardinality(Requests) \in Nat
        /\ g + all <= MaxWrongPerDay + Cardinality(Requests) - 1
    BY <2>3, GuessersCounted, LimitsAssumption DEF Bounded
  <2>6. left \in Nat /\ left + a <= all
    <3>1. Guessing(m)' \in SUBSET (Guessing(m) \ {q})
      BY <1>1
    <3>2. /\ IsFiniteSet(Guessing(m) \ {q})
          /\ Cardinality(Guessing(m) \ {q}) = IF q \in Guessing(m) THEN all - 1 ELSE all
      BY GuessersCounted, FS_RemoveElement
    <3>3. left \in Nat /\ left <= Cardinality(Guessing(m) \ {q})
      BY <3>1, <3>2, FS_Subset, FS_CardinalityType
    <3> HIDE DEF n, left, all
    <3>4. CASE n > 0
      <4>1. a \in {0, 1} /\ q \in Guessing(m)
        BY <2>1, <3>4 DEF Added
      <4> HIDE DEF a
      <4> QED BY <2>5, <3>2, <3>3, <4>1
    <3>5. CASE ~(n > 0)
      <4>1. a = 0
        BY <2>1, <3>5 DEF Added
      <4> HIDE DEF a
      <4> QED BY <2>5, <3>2, <3>3, <4>1
    <3> QED BY <3>4, <3>5
  <2> HIDE DEF n, a, g, r, s, all, left
  <2>7. g + a <= s
    BY <2>1, <2>3, <2>4
  <2>8. (g + a) + left <= MaxWrongPerDay + Cardinality(Requests) - 1
    BY <2>4, <2>5, <2>6
  <2>9. /\ GuessesSince(m, since)' <= s
        /\ GuessesSince(m, since)' + left <= MaxWrongPerDay + Cardinality(Requests) - 1
    BY <2>2, <2>7, <2>8
  <2> QED BY <2>9 DEF s, left
<1>3. BudgetKept'
  <2> SUFFICES ASSUME NEW m \in Mobiles, NEW since \in Int, InSpan(since)'
               PROVE  (/\ GuessesSince(m, since) <= CountedSince(challenge, m, since)
                       /\ Bounded(m, since))'
    BY DEF BudgetKept
  <2>1. InSpan(since)
    BY DEF InSpan, SureSpan, WrongWindow, Commit
  <2>2. CountedSince(challenge, m, since)' = CountedSince(challenge', m, since)
    BY DEF CountedSince
  <2> QED BY <1>2, <2>1, <2>2 DEF Bounded
<1> QED BY <1>1, <1>3 DEF CountInv

\* Nobody has guessed before the first request.
LEMMA InitCount ==
    ASSUME Init
    PROVE  CountInv
<1>1. Inv
  BY InitInv
<1>2. /\ DOMAIN challenge = {} /\ \A a \in Requests : flight[a] = Idle
      /\ guesses = [m \in Mobiles |-> [t \in Time |-> 0]]
  BY DEF Init, NoWrites
<1>3. TriedInTime /\ PlansCount
  BY <1>2 DEF TriedInTime, PlansCount
<1>4. ASSUME NEW m \in Mobiles, NEW since \in Int
      PROVE  GuessesSince(m, since) = 0 /\ CountedSince(challenge, m, since) = 0
             /\ Cardinality(Guessing(m)) = 0
  <2> DEFINE w == TickWeighs(guesses[m], since)
             v == RowWeighs(challenge, m, since)
  <2>1. MaxTime \in Nat /\ MaxTime + 1 \in Nat /\ MaxRows \in Nat
    BY TimesAssumption
  <2>2. \A k \in 1..(MaxTime + 1) : w[k] = 0
    <3>1. \A k \in 1..(MaxTime + 1) : k - 1 \in Time
      BY <2>1 DEF Time
    <3>2. \A t \in Time : guesses[m][t] = 0
      BY <1>2
    <3> QED BY <3>1, <3>2 DEF TickWeighs
  <2>3. \A i \in 1..MaxRows : v[i] = 0
    BY <1>2 DEF RowWeighs, Ids
  <2>4. /\ w \in [1..(MaxTime + 1) -> Int] /\ GuessesSince(m, since) = SumTo(w, MaxTime + 1)
    <3>1. guesses[m] \in [Time -> Nat]
      BY <1>1 DEF Inv, TypeOK
    <3> QED BY <1>1, <3>1, TicksWeigh, GuessesAddUp DEF Inv
  <2>5. v \in [1..MaxRows -> Int] /\ CountedSince(challenge, m, since) = SumTo(v, MaxRows)
    BY <1>2, RowsWeigh
  <2> HIDE DEF w, v
  <2>6. SumTo(w, MaxTime + 1) = 0
    BY <2>1, <2>2, <2>4, SumOfNothing
  <2>7. SumTo(v, MaxRows) = 0
    BY <2>1, <2>3, <2>5, SumOfNothing
  <2>8. Guessing(m) = {}
    BY <1>2 DEF Guessing
  <2> QED BY <2>4, <2>5, <2>6, <2>7, <2>8, FS_EmptySet
<1>5. BudgetKept
  <2>1. MaxWrongPerDay \in Nat \ {0} /\ Cardinality(Requests) \in Nat
    BY LimitsAssumption, AskersAssumption, FS_CardinalityType
  <2>2. 0 + 0 <= MaxWrongPerDay + Cardinality(Requests) - 1
    BY <2>1
  <2> QED BY <1>4, <2>2 DEF BudgetKept, Bounded
<1> QED BY <1>1, <1>3, <1>5 DEF CountInv

\* Every step keeps the count.
LEMMA NextCount ==
    ASSUME CountInv, [Next]_vars
    PROVE  CountInv'
<1>0. Inv'
  BY NextInv DEF CountInv
<1>1. ASSUME NEW q \in Requests, NEW by \in Askers, Request(q, by)
      PROVE  CountInv'
  <2>1. ASSUME NEW m \in Mobiles, Reuse(q, by, m) PROVE CountInv'
    BY <1>0, <2>1, ReuseCounts
  <2>2. ASSUME NEW m \in Mobiles, NEW force \in BOOLEAN, NEW taken \in BOOLEAN,
               Ask(q, by, m, force, taken)
        PROVE  CountInv'
    BY <1>0, <2>2, AskCounts
  <2>3. ASSUME Page(q, by) PROVE CountInv'
    BY <1>0, <2>3, PageCounts
  <2>4. ASSUME NEW typed, NEW taken \in BOOLEAN, Submit(q, by, typed, taken) PROVE CountInv'
    BY <1>0, <2>4, SubmitCounts
  <2> QED BY <1>1, <2>1, <2>2, <2>3, <2>4 DEF Request
<1>2. ASSUME NEW q \in Requests, Commit(q) PROVE CountInv'
  BY <1>0, <1>2, CommitCounts
<1>3. ASSUME NEW q \in Requests, Refuse(q) PROVE CountInv'
  <2>1. /\ UNCHANGED <<now, challenge, guesses>>
        /\ flight' = [flight EXCEPT ![q] = Idle]
    BY <1>3 DEF Refuse
  <2>2. \A a \in Requests : flight'[a] = Idle \/ flight'[a] = flight[a]
    BY <2>1 DEF CountInv, Inv, TypeOK
  <2> QED BY <1>0, <2>1, <2>2, AsideKeeps
<1>4. ASSUME Jobs PROVE CountInv'
  <2>1. CASE JobStarts \/ JobReads \/ \E out \in BOOLEAN : JobDies(out)
    <3>1. UNCHANGED <<now, challenge, flight, guesses>>
      BY <2>1 DEF JobStarts, JobReads, JobDies
    <3> QED BY <1>0, <3>1, AsideKeeps
  <2>2. CASE JobGivesUp \/ \E out \in BOOLEAN : JobSettles(out)
    BY <1>0, <2>2, JobWritesCount
  <2>3. CASE JobEnds
    BY <1>0, <2>3, JobEndsCounts
  <2> QED BY <1>4, <2>1, <2>2, <2>3 DEF Jobs
<1>5. ASSUME Tick PROVE CountInv'
  BY <1>0, <1>5, TickCounts
<1>6. ASSUME UNCHANGED vars PROVE CountInv'
  <2>1. UNCHANGED <<now, challenge, flight, guesses>>
    BY <1>6 DEF vars
  <2> QED BY <1>0, <2>1, AsideKeeps
<1> QED BY <1>1, <1>2, <1>3, <1>4, <1>5, <1>6 DEF Next

\* However many browsers and accounts type codes at once, the rows count every wrong one.
THEOREM CountInvariance == Spec => []CountInv
BY InitCount, NextCount, PTL DEF Spec

\* The span that is sure is one of those counted.
LEMMA SureSpanCounted ==
    ASSUME CountInv, NEW m \in Mobiles
    PROVE  /\ Guesses(m) + Cardinality(Guessing(m)) <= MaxWrongPerDay + Cardinality(Requests) - 1
           /\ Guesses(m) \in Int
<1>1. now \in Nat /\ SureSpan \in Int
  BY Table, TimesAssumption DEF CountInv, Inv, SureSpan, WrongWindow
<1> DEFINE start == now - SureSpan
<1>2. start \in Int /\ start >= now - SureSpan
  BY <1>1
<1>3. Guesses(m) = GuessesSince(m, start)
  BY DEF Guesses
<1>4. InSpan(start)
  BY <1>2 DEF InSpan
<1> HIDE DEF start
<1>5. Bounded(m, start)
  BY <1>2, <1>4 DEF CountInv, BudgetKept
<1>6. GuessesSince(m, start) \in Int
  BY GuessesAddUp DEF CountInv, Inv
<1> QED BY <1>3, <1>5, <1>6 DEF Bounded

\* Across all codes and browsers a number takes MAX_WRONG_PER_DAY wrong codes, and one more at
\* most for each other request that read the count at the same moment (_locked, check).
THEOREM BudgetHolds == Spec => []GuessBudget
<1>1. CountInv => GuessBudget
  <2> SUFFICES ASSUME CountInv, NEW m \in Mobiles
               PROVE  Guesses(m) <= MaxWrongPerDay + Cardinality(Requests) - 1
    BY DEF GuessBudget
  <2>1. /\ Guesses(m) + Cardinality(Guessing(m)) <= MaxWrongPerDay + Cardinality(Requests) - 1
        /\ Guesses(m) \in Int /\ Cardinality(Guessing(m)) \in Nat
        /\ Cardinality(Requests) \in Nat /\ MaxWrongPerDay \in Nat
    BY SureSpanCounted, GuessersCounted, LimitsAssumption
  <2> QED BY <2>1
<1> QED BY <1>1, CountInvariance, PTL

\* The step that takes a code is the commit of a request that was within the budget.
LEMMA ProofWithinBudget ==
    ASSUME CountInv, [Next]_vars, NEW i \in DOMAIN challenge \cap DOMAIN challenge',
           challenge[i].state # "done", challenge'[i].state = "done"
    PROVE  Guesses(challenge[i].mobile) < MaxWrongPerDay + Cardinality(Requests) - 1
<1>1. ASSUME NEW q \in Requests, Commit(q)
      PROVE  Guesses(challenge[i].mobile) < MaxWrongPerDay + Cardinality(Requests) - 1
  <2> DEFINE m == challenge[i].mobile
  <2>1. flight[q] # Idle /\ flight[q].clean /\ Written(flight[q])
    BY <1>1, CommitWrites DEF CountInv, Commit
  <2>2. i \in DOMAIN flight[q].writes /\ flight[q].writes[i].state = "done"
    <3>1. i # last + 1
      BY Table DEF CountInv, Inv
    <3> QED BY <2>1, <3>1 DEF Written
  <2>3. q \in Guessing(m)
    BY <2>1, <2>2 DEF Guessing, Tries
  <2>4. m \in Mobiles
    BY Table DEF CountInv, Inv, Row
  <2> HIDE DEF m
  <2>5. Cardinality(Guessing(m)) # 0 /\ Cardinality(Guessing(m)) \in Nat
    BY <2>3, GuessersCounted, FS_EmptySet
  <2>6. /\ Guesses(m) + Cardinality(Guessing(m)) <= MaxWrongPerDay + Cardinality(Requests) - 1
        /\ Guesses(m) \in Int /\ Cardinality(Requests) \in Nat /\ MaxWrongPerDay \in Nat
    BY <2>4, SureSpanCounted, GuessersCounted, LimitsAssumption
  <2>7. Guesses(m) < MaxWrongPerDay + Cardinality(Requests) - 1
    BY <2>5, <2>6
  <2> QED BY <2>7 DEF m
<1>2. ASSUME challenge'[i].state # "done" PROVE FALSE
  BY <1>2
<1>3. ASSUME NEW q \in Requests, (\E by \in Askers : Request(q, by)) \/ Refuse(q)
      PROVE  challenge' = challenge
  BY <1>3 DEF Request, Reuse, Ask, Page, Submit, Open, Refuse
<1>4. ASSUME JobStarts \/ JobReads \/ (\E out \in BOOLEAN : JobDies(out)) \/ Tick \/ UNCHANGED vars
      PROVE  challenge' = challenge
  BY <1>4 DEF JobStarts, JobReads, JobDies, Tick, vars
<1>5. ASSUME JobGivesUp \/ \E out \in BOOLEAN : JobSettles(out)
      PROVE  challenge'[i].state # "done"
  <2>1. cron.id \in DOMAIN challenge
    BY <1>5 DEF CountInv, Inv, TypeOK, JobInTime, JobGivesUp, JobSettles
  <2>2. challenge[cron.id] \in Row
    BY <2>1, Table DEF CountInv, Inv
  <2>3. ASSUME NEW row, row.state # "done", challenge' = [challenge EXCEPT ![cron.id] = row]
        PROVE  challenge'[i].state # "done"
    <3>1. challenge'[i] = IF i = cron.id THEN row ELSE challenge[i]
      BY <2>3
    <3> QED BY <2>3, <3>1
  <2>4. CASE JobGivesUp
    <3> DEFINE row == [challenge[cron.id] EXCEPT !.state = "failed", !.pending = FALSE]
    <3>1. row.state # "done"
      BY <2>2 DEF Row
    <3>2. challenge' = [challenge EXCEPT ![cron.id] = row]
      BY <2>4 DEF JobGivesUp
    <3> HIDE DEF row
    <3> QED BY <2>3, <3>1, <3>2
  <2>5. CASE \E out \in BOOLEAN : JobSettles(out)
    <3>0. PICK out \in BOOLEAN : JobSettles(out)
      BY <2>5
    <3> DEFINE row == [challenge[cron.id] EXCEPT !.state = IF out THEN "sent" ELSE "failed",
                                                 !.sent_at = IF out THEN now ELSE @,
                                                 !.pending = FALSE]
    <3>1. row.state # "done"
      BY <2>2 DEF Row
    <3>2. challenge' = [challenge EXCEPT ![cron.id] = row]
      BY <3>0 DEF JobSettles
    <3> HIDE DEF row
    <3> QED BY <2>3, <3>1, <3>2
  <2> QED BY <1>5, <2>4, <2>5
<1>6. ASSUME JobEnds PROVE challenge'[i] = challenge[i]
  BY <1>6 DEF JobEnds, Restrict
<1> QED BY <1>1, <1>3, <1>4, <1>5, <1>6 DEF Next, Jobs

\* "Even the right code: a guesser who got lucky on the 21st try must not get in": no step takes
\* a code for a number that has used up its wrong codes, with the same allowance.
THEOREM LockedProvesNothing == Spec => NoProofWhenLocked
<1> DEFINE Within == \A i \in DOMAIN challenge \cap DOMAIN challenge' :
                         challenge[i].state # "done" /\ challenge'[i].state = "done"
                         => Guesses(challenge[i].mobile) < MaxWrongPerDay + Cardinality(Requests) - 1
<1>1. CountInv /\ [Next]_vars => [Within]_vars
  BY ProofWithinBudget
<1> QED BY <1>1, CountInvariance, PTL DEF Spec, NoProofWhenLocked
=============================================================================
