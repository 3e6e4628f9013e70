------------------------------ MODULE Pages_proofs ------------------------------
(***************************************************************************)
(* The pages that remember something between two requests, for every value of     *)
(* the constants: the questions of a need, the profile of a worker, where somebody  *)
(* lands, and what the standard does not know.  What each invariant adds to what it  *)
(* is for is what an open request may rely on: that what it read is still there, and *)
(* what it is about to write is made of it.                                          *)
(***************************************************************************)
EXTENDS Office, BoundedInduction, FiniteSetTheorems, TLAPS

-----------------------------------------------------------------------------
\* The five questions of a need.  Answers given, in the session or in a request that read them, name a
\* need there is, whose café they are for unless they were turned to another; a request that is to
\* write a need has the position of the café it is written for.
Announced(cafes, last_run) ==
    [business : cafes, position : cafes, open : BOOLEAN, run : 1..last_run, aimed : BOOLEAN]
Held(d, cafes) == d.business \in {None} \cup cafes /\ d.position \in {None} \cup cafes
Named(d, needs, cafes) ==
    d.edit # 0 => /\ d.edit \in DOMAIN needs /\ d.business \in cafes
                  /\ d.business = needs[d.edit].business \/ d.aimed
Given(d, needs, cafes, last_run) ==
    /\ d \in D!Answers /\ Held(d, cafes) /\ Named(d, needs, cafes)
    /\ d = D!Nothing \/ d.run \in 1..last_run
Read(o, needs, cafes, last_run) ==
    /\ o.page \in D!Pages \cup cafes /\ Given(o.draft, needs, cafes, last_run)
    /\ o.page = "who" => o.business \in cafes
    /\ o.page = "where" => /\ o.business \in cafes /\ o.draft.position = o.business
                           /\ o.draft.run \in 1..last_run
                           /\ o.draft.business # None => o.draft.business = o.business
Apart(needs) == \A i, j \in DOMAIN needs : needs[i].run = needs[j].run => i = j
Fresh(needs, d) == d.edit = 0 => \A i \in DOMAIN needs : needs[i].run # d.run
DraftInv ==
    /\ held \subseteq Businesses /\ runs \in 0..MaxRuns /\ lapped \in BOOLEAN
    /\ need \in Seq(Announced(held, runs)) /\ Len(need) <= MaxNeeds
    /\ Given(draft, need, held, runs)
    /\ \A t \in Tabs : tab[t] # None => Read(tab[t], need, held, runs)
    /\ tab = [t \in Tabs |-> tab[t]]
    /\ ~lapped => Apart(need) /\ Fresh(need, draft)
    /\ D!OwnPosition

LEMMA DraftStarts == D!Init => DraftInv
<1>. SUFFICES ASSUME D!Init PROVE DraftInv
  OBVIOUS
<1>. USE DraftAssumption
<1>1. held = {First} /\ runs = 0 /\ lapped = FALSE /\ need = <<>> /\ draft = D!Nothing
  BY DEF D!Init
<1>2. need \in Seq(Announced(held, runs)) /\ Len(need) <= MaxNeeds /\ DOMAIN need = {}
  BY <1>1
<1>3. D!Nothing \in D!Answers /\ D!Nothing.edit = 0 /\ D!Nothing.business = None /\ D!Nothing.position = None
  BY DEF D!Nothing, D!Answers
<1>4. Given(draft, need, held, runs)
  BY <1>1, <1>3 DEF Given, Held, Named
<1>5. tab = [t \in Tabs |-> tab[t]] /\ \A t \in Tabs : tab[t] = None
  BY DEF D!Init
<1>6. Apart(need) /\ Fresh(need, draft) /\ D!OwnPosition
  BY <1>2 DEF Apart, Fresh, D!OwnPosition
<1>7. held \subseteq Businesses /\ lapped \in BOOLEAN
  BY <1>1
<1>8. runs \in 0..MaxRuns
  BY <1>1
<1>. QED BY <1>2, <1>4, <1>5, <1>6, <1>7, <1>8 DEF DraftInv

LEMMA ANeed ==
    ASSUME NEW cafes, NEW last_run, NEW needs \in Seq(Announced(cafes, last_run)), NEW i \in DOMAIN needs
    PROVE  /\ needs[i] \in Announced(cafes, last_run) /\ needs[i].business \in cafes
           /\ needs[i].position \in cafes /\ needs[i].run \in 1..last_run /\ needs[i].aimed \in BOOLEAN
<1>1. needs[i] \in Announced(cafes, last_run)
  OBVIOUS
<1>. QED BY <1>1 DEF Announced

\* Needs stay, with their cafés and the runs they came from.
Stay(needs, more, cafes, others, last_run, later) ==
    /\ cafes \subseteq others /\ last_run <= later /\ last_run \in Nat /\ later \in Nat
    /\ DOMAIN needs \subseteq DOMAIN more
    /\ \A i \in DOMAIN needs : more[i].business = needs[i].business /\ more[i].run = needs[i].run
LEMMA ReadStays ==
    ASSUME NEW needs, NEW more, NEW cafes, NEW others, NEW last_run, NEW later,
           Stay(needs, more, cafes, others, last_run, later)
    PROVE  /\ \A d : Given(d, needs, cafes, last_run) => Given(d, more, others, later)
           /\ \A o : Read(o, needs, cafes, last_run) => Read(o, more, others, later)
<1>1. \A d : Named(d, needs, cafes) => Named(d, more, others)
  BY DEF Named, Stay
<1>2. \A d : Given(d, needs, cafes, last_run) => Given(d, more, others, later)
  BY <1>1 DEF Given, Held, Stay
<1>3. \A o : Read(o, needs, cafes, last_run) => Read(o, more, others, later)
  BY <1>2 DEF Read, Stay
<1>. QED BY <1>2, <1>3

\* What the session keeps of answers d: the same ones, and those that begin get the next run.
LEMMA Keeps ==
    ASSUME DraftInv, NEW d \in D!Answers, d.run \in 0..runs, D!Keep(d)
    PROVE  /\ runs' \in 0..MaxRuns /\ runs <= runs' /\ draft' \in D!Answers
           /\ draft' = D!Nothing \/ draft'.run \in 1..runs'
           /\ draft'.business = d.business /\ draft'.position = d.position /\ draft'.edit = d.edit
           /\ draft'.aimed = d.aimed
           /\ draft'.run = d.run \/ (d.run = 0 /\ draft'.run = runs + 1 /\ runs' = runs + 1)
<1>. USE DraftAssumption
<1>0. runs \in 0..MaxRuns /\ runs' <= MaxRuns
  BY DEF DraftInv, D!Keep
<1>1. CASE d # D!Nothing /\ d.run = 0
  <2>1. runs' = runs + 1 /\ draft' = [d EXCEPT !.run = runs']
    BY <1>1 DEF D!Keep
  <2>2. runs' \in 1..MaxRuns
    BY <1>0, <2>1
  <2>. QED BY <1>0, <1>1, <2>1, <2>2 DEF D!Answers
<1>2. CASE ~(d # D!Nothing /\ d.run = 0)
  <2>1. runs' = runs /\ draft' = d
    BY <1>2 DEF D!Keep
  <2>2. d = D!Nothing \/ d.run \in 1..runs
    BY <1>0, <1>2
  <2>. QED BY <1>0, <2>1, <2>2
<1>. QED BY <1>1, <1>2

Closes == tab' = tab \/ \E t \in Tabs : tab' = [tab EXCEPT ![t] = None]
\* The end of a request or of a page, with answers d.
LEMMA DraftEnds ==
    ASSUME DraftInv, NEW d \in D!Answers, d.run \in 0..runs, D!Keep(d),
           Held(d, held'), Named(d, need', held'), held' \subseteq Businesses, lapped' \in BOOLEAN,
           need' \in Seq(Announced(held', runs)), Len(need') <= MaxNeeds,
           Stay(need, need', held, held', runs, runs),
           Closes,
           ~lapped' => Apart(need') /\ (d.run # 0 => Fresh(need', d)),
           D!OwnPosition'
    PROVE  DraftInv'
<1>. USE DraftAssumption
<1>1. /\ runs' \in 0..MaxRuns /\ runs <= runs' /\ draft' \in D!Answers /\ runs \in 0..MaxRuns
      /\ draft' = D!Nothing \/ draft'.run \in 1..runs'
      /\ draft'.business = d.business /\ draft'.position = d.position /\ draft'.edit = d.edit
      /\ draft'.aimed = d.aimed
      /\ draft'.run = d.run \/ (d.run = 0 /\ draft'.run = runs + 1 /\ runs' = runs + 1)
  BY Keeps DEF DraftInv
<1>2. Given(draft', need', held', runs')
  BY <1>1 DEF Given, Held, Named
<1>3. Stay(need, need', held, held', runs, runs')
  BY <1>1 DEF Stay
<1>4. tab' = [t \in Tabs |-> tab'[t]] /\ \A t \in Tabs : tab'[t] # None => tab'[t] = tab[t]
  BY DEF DraftInv, Closes
<1>5. \A t \in Tabs : tab'[t] # None => Read(tab'[t], need', held', runs')
  BY <1>3, <1>4, ReadStays DEF DraftInv
<1>6. need' \in Seq(Announced(held', runs'))
  <2>1. Announced(held', runs) \subseteq Announced(held', runs')
    BY <1>1 DEF Announced
  <2>. QED BY <2>1
<1>7. ~lapped' => Apart(need') /\ Fresh(need', draft')
  <2>1. \A i \in DOMAIN need' : need'[i].run \in 1..runs
    <3>1. PICK needs : needs = need'
      OBVIOUS
    <3>2. \A i \in DOMAIN needs : needs[i].run \in 1..runs
      BY <3>1, ANeed
    <3>. QED BY <3>1, <3>2
  <2>2. d.run = 0 => Fresh(need', draft')
    BY <1>1, <2>1 DEF Fresh
  <2>3. d.run # 0 /\ Fresh(need', d) => Fresh(need', draft')
    BY <1>1 DEF Fresh
  <2>. QED BY <2>2, <2>3
<1>. QED BY <1>1, <1>2, <1>4, <1>5, <1>6, <1>7 DEF DraftInv

LEMMA PagesAre == D!Given = {"type", "count", "when"} /\ D!Pages = {"who", "where", "type", "count", "when"}
<1>1. D!Later = <<"type", "count", "when">> /\ DOMAIN D!Later = 1..3
  BY DEF D!Later
<1>2. D!Given = {D!Later[i] : i \in 1..3}
  BY <1>1 DEF D!Given, D!ToSet
<1>3. D!Given = {"type", "count", "when"}
  BY <1>1, <1>2
<1>. QED BY <1>3 DEF D!Pages

LEMMA Unchanged == ASSUME DraftInv, UNCHANGED <<held, need>> PROVE
    /\ held' \subseteq Businesses /\ need' \in Seq(Announced(held', runs)) /\ Len(need') <= MaxNeeds
    /\ Stay(need, need', held, held', runs, runs) /\ D!OwnPosition' /\ (~lapped => Apart(need'))
  BY DraftAssumption DEF DraftInv, Stay, D!OwnPosition

LEMMA DraftSteps == ASSUME DraftInv, [D!Next]_answers PROVE DraftInv'
<1>. USE DraftAssumption
<1>0. SUFFICES ASSUME D!Next PROVE DraftInv'
  BY DEF answers, DraftInv, D!OwnPosition
<1>1. draft \in D!Answers /\ Held(draft, held) /\ Named(draft, need, held) /\ D!Nothing \in D!Answers
      /\ D!Nothing.edit = 0 /\ D!Nothing.run = 0 /\ D!Nothing.business = None /\ D!Nothing.position = None
      /\ D!Nothing.got = {}
  BY DEF DraftInv, Given, D!Nothing, D!Answers
<1>2. ASSUME NEW t \in Tabs, NEW page \in D!Pages \cup held, D!Opens(t, page) PROVE DraftInv'
  <2>1. D!Reads(page, draft) /\ UNCHANGED <<held, draft, need, runs, lapped>>
        /\ tab' = [tab EXCEPT ![t] = [page |-> page, draft |-> draft, business |-> D!Business(draft)]]
    BY <1>2 DEF D!Opens
  <2>2. PICK new : new = [page |-> page, draft |-> draft, business |-> D!Business(draft)]
    OBVIOUS
  <2>3. new.page = page /\ new.draft = draft /\ new.business = D!Business(draft)
    BY <2>2
  <2>4. D!Business(draft) # None => D!Business(draft) \in held
    <3>1. CASE draft.business # None
      BY <1>1, <3>1 DEF D!Business, Held
    <3>2. CASE draft.business = None /\ D!Cardinality(held) = 1
      <4>1. D!Cardinality(held) = Cardinality(held)
        BY DEF D!Cardinality, Cardinality
      <4>2. held # {}
        BY <3>2, <4>1, FS_EmptySet
      <4>. QED BY <3>2, <4>2 DEF D!Business
    <3>. QED BY <3>1, <3>2 DEF D!Business
  <2>. DEFINE who == D!Business(draft) # None
              says == draft.position # None /\ D!Before(page) \subseteq draft.got
              where == D!Business(draft) # None /\ D!Complete(draft) /\ draft.position = D!Business(draft)
  <2>7. page \notin held \/ page \notin D!Pages
    BY DEF DraftInv
  <2>8. D!Reads(page, draft) => (page = "who" => who) /\ (page = "where" => where)
    BY <2>7, PagesAre DEF D!Reads
  <2>5. page = "who" => new.business \in held
    BY <2>1, <2>3, <2>4, <2>8
  <2>6. page = "where" => D!Business(draft) # None /\ D!Complete(draft) /\ draft.position = D!Business(draft)
    BY <2>1, <2>8
  <2>9. draft.position # None /\ D!Complete(draft) => draft.run \in 1..runs
    BY <1>1 DEF DraftInv, Given
  <2>10. Read(new, need, held, runs)
    BY <1>1, <2>3, <2>4, <2>5, <2>6, <2>9 DEF Read, DraftInv, D!Business
  <2>. HIDE DEF who, says, where
  <2>11. tab' = [s \in Tabs |-> tab'[s]] /\ \A s \in Tabs : tab'[s] = IF s = t THEN new ELSE tab[s]
    BY <2>1, <2>2 DEF DraftInv
  <2>. QED BY <2>1, <2>10, <2>11 DEF DraftInv, D!OwnPosition
<1>3. ASSUME NEW t \in Tabs, tab[t] # None, NEW o, o = tab[t], NEW d, D!Ends(t, d), UNCHANGED <<held, need>>,
             d \in D!Answers, Held(d, held), Named(d, need, held), d.run = o.draft.run, d.edit = o.draft.edit
      PROVE  DraftInv'
  <2>1. Read(o, need, held, runs) /\ D!Keep(d) /\ tab' = [tab EXCEPT ![t] = None]
        /\ lapped' = (lapped \/ o.draft # draft) /\ lapped' \in BOOLEAN
    BY <1>3 DEF DraftInv, D!Ends
  <2>2. d.run \in 0..runs
    BY <1>1, <1>3, <2>1 DEF Read, Given, DraftInv
  <2>3. ~lapped' => Apart(need') /\ Fresh(need', d)
    BY <1>3, <2>1 DEF DraftInv, Fresh, Apart
  <2>4. Held(d, held') /\ Named(d, need', held')
    BY <1>3
  <2>5. Closes
    BY <2>1 DEF Closes
  <2>6. lapped' \in BOOLEAN /\ (~lapped' => Apart(need') /\ (d.run # 0 => Fresh(need', d)))
    BY <2>1, <2>3
  <2>7. /\ held' \subseteq Businesses /\ need' \in Seq(Announced(held', runs)) /\ Len(need') <= MaxNeeds
        /\ Stay(need, need', held, held', runs, runs) /\ D!OwnPosition'
    BY <1>3, Unchanged
  <2>. QED BY <1>3, <2>1, <2>2, <2>4, <2>5, <2>6, <2>7, DraftEnds
<1>4. ASSUME NEW t \in Tabs, tab[t] # None, D!Who(t) PROVE DraftInv'
  <2>1. PICK o : o = tab[t]
    OBVIOUS
  <2>2. PICK d : d = [o.draft EXCEPT !.position = o.business]
    OBVIOUS
  <2>3. o.page = "who" /\ D!Ends(t, d) /\ UNCHANGED <<held, need>> /\ Read(o, need, held, runs)
    BY <1>4, <2>1, <2>2 DEF D!Who, DraftInv
  <2>4. /\ d \in D!Answers /\ d.run = o.draft.run /\ d.edit = o.draft.edit /\ d.business = o.draft.business
        /\ d.position = o.business /\ d.aimed = o.draft.aimed
    BY <2>2, <2>3 DEF Read, Given, DraftInv, D!Answers
  <2>5. Held(d, held) /\ Named(d, need, held)
    BY <2>3, <2>4 DEF Held, Named, Read, Given
  <2>. QED BY <1>3, <1>4, <2>1, <2>3, <2>4, <2>5
<1>5. ASSUME NEW t \in Tabs, tab[t] # None, D!Says(t) PROVE DraftInv'
  <2>1. PICK o : o = tab[t]
    OBVIOUS
  <2>2. PICK d : d = [o.draft EXCEPT !.got = @ \cup {o.page}]
    OBVIOUS
  <2>3. o.page \in D!Given /\ D!Ends(t, d) /\ UNCHANGED <<held, need>> /\ Read(o, need, held, runs)
    BY <1>5, <2>1, <2>2 DEF D!Says, DraftInv
  <2>4. /\ d \in D!Answers /\ d.run = o.draft.run /\ d.edit = o.draft.edit /\ d.business = o.draft.business
        /\ d.position = o.draft.position /\ d.aimed = o.draft.aimed
    BY <2>2, <2>3 DEF Read, Given, D!Answers
  <2>5. Held(d, held) /\ Named(d, need, held)
    BY <2>3, <2>4 DEF Held, Named, Read, Given
  <2>. QED BY <1>3, <1>5, <2>1, <2>3, <2>4, <2>5
<1>6. ASSUME NEW t \in Tabs, tab[t] # None, D!For(t) PROVE DraftInv'
  <2>1. PICK o : o = tab[t]
    OBVIOUS
  <2>2. PICK d : d = [o.draft EXCEPT !.business = o.page, !.aimed = @ \/ o.draft.edit # 0]
    OBVIOUS
  <2>3. o.page \in held /\ D!Ends(t, d) /\ UNCHANGED <<held, need>> /\ Read(o, need, held, runs)
    BY <1>6, <2>1, <2>2 DEF D!For, DraftInv
  <2>4. /\ d \in D!Answers /\ d.run = o.draft.run /\ d.edit = o.draft.edit /\ d.business = o.page
        /\ d.position = o.draft.position /\ d.aimed = (o.draft.aimed \/ o.draft.edit # 0)
    BY <2>2, <2>3 DEF Read, Given, D!Answers, DraftInv
  <2>5. Held(d, held) /\ Named(d, need, held)
    BY <2>3, <2>4 DEF Held, Named, Read, Given
  <2>. QED BY <1>3, <1>6, <2>1, <2>3, <2>4, <2>5
<1>7. ASSUME NEW t \in Tabs, tab[t] # None, D!Where(t) PROVE DraftInv'
  <2>1. PICK o : o = tab[t]
    OBVIOUS
  <2>2. PICK d : d = o.draft
    OBVIOUS
  <2>3. /\ o.page = "where" /\ D!Keep(D!Nothing) /\ UNCHANGED held /\ Read(o, need, held, runs)
        /\ tab' = [tab EXCEPT ![t] = None] /\ lapped' = (lapped \/ d # draft) /\ lapped' \in BOOLEAN
    BY <1>7, <2>1, <2>2 DEF D!Where, D!Ends, D!Saved, DraftInv
  <2>4. /\ d \in D!Answers /\ Named(d, need, held) /\ d.run \in 1..runs /\ o.business \in held
        /\ d.position = o.business /\ (d.business # None => d.business = o.business)
    BY <2>2, <2>3 DEF Read, Given
  <2>5. Held(D!Nothing, held') /\ D!Nothing.run \in 0..runs /\ (\A needs, cafes : Named(D!Nothing, needs, cafes))
    BY <1>1 DEF Held, Named, DraftInv
  <2>6. held' \subseteq Businesses
    BY <2>3 DEF DraftInv
  <2>. DEFINE Wanted == need' \in Seq(Announced(held', runs)) /\ Len(need') <= MaxNeeds
                         /\ Stay(need, need', held, held', runs, runs) /\ (~lapped' => Apart(need')) /\ D!OwnPosition'
  <2>10. Closes
    BY <2>3 DEF Closes
  <2>7. Wanted => DraftInv'
    BY <1>1, <2>3, <2>5, <2>6, <2>10, DraftEnds
  <2>8. CASE d.edit # 0
    <3>. DEFINE n == d.edit
                new == [need[n] EXCEPT !.position = d.position, !.aimed = @ \/ d.aimed]
    <3>1. n \in DOMAIN need /\ (d.business = need[n].business \/ d.aimed) /\ d.business \in held
      BY <2>4, <2>8 DEF Named
    <3>2. need' = need => Wanted
      <4>1. UNCHANGED <<held, need>> => Wanted
        BY <2>3, Unchanged
      <4>. QED BY <2>3, <4>1
    <3>3. ASSUME need' # need PROVE Wanted
      <4>1. need' = [need EXCEPT ![n] = new]
        BY <1>7, <2>1, <2>2, <2>8, <3>3 DEF D!Where
      <4>2. need[n] \in Announced(held, runs)
        BY <3>1, ANeed DEF DraftInv
      <4>3. /\ new \in Announced(held, runs) /\ new.business = need[n].business /\ new.run = need[n].run
            /\ new.position = d.position /\ new.aimed = (need[n].aimed \/ d.aimed)
        BY <2>4, <4>2 DEF Announced, D!Answers
      <4>4. new.position = new.business \/ new.aimed
        BY <2>4, <3>1, <4>3, DraftAssumption DEF DraftInv
      <4>. HIDE DEF new, n
      <4>5. need' \in Seq(Announced(held, runs)) /\ Len(need') = Len(need) /\ DOMAIN need' = DOMAIN need
            /\ \A i \in DOMAIN need : need'[i] = IF i = n THEN new ELSE need[i]
        BY <3>1, <4>1, <4>3 DEF DraftInv
      <4>6. \A i \in DOMAIN need : need'[i].business = need[i].business /\ need'[i].run = need[i].run
        BY <4>3, <4>5
      <4>7. D!OwnPosition'
        BY <4>4, <4>5 DEF DraftInv, D!OwnPosition
      <4>8. ~lapped' => Apart(need')
        BY <2>3, <4>5, <4>6 DEF DraftInv, Apart
      <4>. QED BY <2>3, <4>5, <4>6, <4>7, <4>8 DEF Stay, DraftInv
    <3>. HIDE DEF Wanted
    <3>. QED BY <2>7, <3>2, <3>3
  <2>9. CASE d.edit = 0
    <3>. DEFINE new == [business |-> o.business, position |-> d.position, open |-> TRUE, run |-> d.run, aimed |-> FALSE]
                n == Len(need)
    <3>1. n < MaxNeeds /\ need' = Append(need, new)
      BY <1>7, <2>1, <2>2, <2>9 DEF D!Where
    <3>2. new \in Announced(held, runs) /\ new.position = new.business /\ new.run = d.run
      BY <2>4 DEF Announced
    <3>. HIDE DEF new
    <3>3. /\ need' \in Seq(Announced(held, runs)) /\ Len(need') = n + 1 /\ DOMAIN need' = 1..(n + 1)
          /\ n \in Nat /\ DOMAIN need = 1..n /\ need'[n + 1] = new /\ \A i \in 1..n : need'[i] = need[i]
      BY <3>1, <3>2 DEF DraftInv
    <3>4. D!OwnPosition'
      BY <3>2, <3>3 DEF DraftInv, D!OwnPosition
    <3>5. ~lapped' => Apart(need) /\ Fresh(need, d)
      BY <2>3 DEF DraftInv
    <3>6. ~lapped' => Apart(need')
      BY <2>9, <3>2, <3>3, <3>5 DEF Apart, Fresh
    <3>7. Stay(need, need', held, held', runs, runs)
      BY <2>3, <3>3 DEF Stay, DraftInv
    <3>8. Wanted
      BY <2>3, <3>1, <3>3, <3>4, <3>6, <3>7
    <3>. HIDE DEF Wanted
    <3>. QED BY <2>7, <3>8
  <2>. QED BY <2>4, <2>8, <2>9
<1>8. ASSUME NEW d \in D!Answers, d.run = 0, D!Keep(d), held \subseteq held', held' \subseteq Businesses,
             Held(d, held'), Named(d, need, held'), UNCHANGED <<need, tab, lapped>>
      PROVE  DraftInv'
  <2>1. need' \in Seq(Announced(held', runs)) /\ Stay(need, need', held, held', runs, runs) /\ Len(need') <= MaxNeeds
    <3>1. Announced(held, runs) \subseteq Announced(held', runs)
      BY <1>8 DEF Announced
    <3>. QED BY <1>8, <3>1 DEF DraftInv, Stay
  <2>2. D!OwnPosition' /\ (~lapped' => Apart(need')) /\ lapped' \in BOOLEAN
    BY <1>8 DEF DraftInv, D!OwnPosition
  <2>3. Named(d, need', held') /\ d.run \in 0..runs
    BY <1>8 DEF DraftInv
  <2>4. Closes
    BY <1>8 DEF Closes
  <2>. QED BY <1>8, <2>1, <2>2, <2>3, <2>4, DraftEnds
<1>9. ASSUME NEW b \in Businesses \cup {None}, D!New(b) PROVE DraftInv'
  <2>1. PICK d : d = [D!Nothing EXCEPT !.business = b]
    OBVIOUS
  <2>2. D!Keep(d) /\ UNCHANGED <<held, need, tab, lapped>> /\ b \in {None} \cup held
    BY <1>9, <2>1 DEF D!New
  <2>3. d \in D!Answers /\ d.run = 0 /\ d.edit = 0 /\ d.business = b /\ d.position = None
    BY <1>1, <2>1 DEF D!Answers, D!Nothing
  <2>4. Held(d, held') /\ Named(d, need, held') /\ held \subseteq held' /\ held' \subseteq Businesses
    BY <2>2, <2>3 DEF Held, Named, DraftInv
  <2>. QED BY <1>8, <2>2, <2>3, <2>4
<1>10. ASSUME NEW n \in DOMAIN need, D!Edit(n) PROVE DraftInv'
  <2>1. PICK d : d = [D!Nothing EXCEPT !.business = need[n].business, !.edit = n, !.position = need[n].position,
                                       !.got = D!Given]
    OBVIOUS
  <2>2. D!Keep(d) /\ UNCHANGED <<held, need, tab, lapped>>
    BY <1>10, <2>1 DEF D!Edit
  <2>3. need[n].business \in held /\ need[n].position \in held /\ n \in 0..MaxNeeds /\ held \subseteq Businesses
    BY ANeed DEF DraftInv
  <2>4. /\ d \in D!Answers /\ d.run = 0 /\ d.edit = n /\ d.business = need[n].business
        /\ d.position = need[n].position
    BY <1>1, <2>1, <2>3 DEF D!Answers, D!Nothing
  <2>5. Held(d, held') /\ Named(d, need, held') /\ held \subseteq held' /\ held' \subseteq Businesses
    BY <2>2, <2>3, <2>4 DEF Held, Named
  <2>. QED BY <1>8, <2>2, <2>4, <2>5
<1>11. ASSUME NEW b \in Businesses, D!Name(b) PROVE DraftInv'
  <2>1. PICK d : d = [D!Nothing EXCEPT !.business = b]
    OBVIOUS
  <2>2. D!Keep(d) /\ UNCHANGED <<need, tab, lapped>> /\ held' = held \cup {b}
    BY <1>11, <2>1 DEF D!Name
  <2>3. d \in D!Answers /\ d.run = 0 /\ d.edit = 0 /\ d.business = b /\ d.position = None
    BY <1>1, <2>1 DEF D!Answers, D!Nothing
  <2>4. Held(d, held') /\ Named(d, need, held') /\ held \subseteq held' /\ held' \subseteq Businesses
    BY <2>2, <2>3 DEF Held, Named, DraftInv
  <2>. QED BY <1>8, <2>2, <2>3, <2>4
<1>12. ASSUME NEW n \in DOMAIN need, D!Close(n) PROVE DraftInv'
  <2>. DEFINE new == [need[n] EXCEPT !.open = FALSE]
  <2>1. need' = [need EXCEPT ![n] = new] /\ UNCHANGED <<held, draft, tab, runs, lapped>>
    BY <1>12 DEF D!Close
  <2>2. need[n] \in Announced(held, runs)
    BY ANeed DEF DraftInv
  <2>3. /\ new \in Announced(held, runs) /\ new.business = need[n].business /\ new.run = need[n].run
        /\ new.position = need[n].position /\ new.aimed = need[n].aimed
    BY <2>2 DEF Announced
  <2>. HIDE DEF new
  <2>4. need' \in Seq(Announced(held, runs)) /\ Len(need') = Len(need) /\ DOMAIN need' = DOMAIN need
        /\ \A i \in DOMAIN need : need'[i] = IF i = n THEN new ELSE need[i]
    BY <2>1, <2>3 DEF DraftInv
  <2>5. \A i \in DOMAIN need : /\ need'[i].business = need[i].business /\ need'[i].run = need[i].run
                                /\ need'[i].position = need[i].position /\ need'[i].aimed = need[i].aimed
    BY <2>3, <2>4
  <2>6. Stay(need, need', held, held', runs, runs')
    BY <2>1, <2>4, <2>5 DEF Stay, DraftInv
  <2>7. D!OwnPosition' /\ (Apart(need) => Apart(need')) /\ (Fresh(need, draft) => Fresh(need', draft'))
    BY <2>1, <2>4, <2>5 DEF DraftInv, D!OwnPosition, Apart, Fresh
  <2>8. Given(draft', need', held', runs') /\ \A t \in Tabs : tab'[t] # None => Read(tab'[t], need', held', runs')
    BY <2>1, <2>6, ReadStays DEF DraftInv
  <2>. QED BY <2>1, <2>4, <2>7, <2>8 DEF DraftInv
<1>. QED BY <1>0, <1>2, <1>4, <1>5, <1>6, <1>7, <1>9, <1>10, <1>11, <1>12 DEF D!Next

LEMMA DraftHolds == DraftInv => D!TypeOK /\ D!OneNeedEach /\ D!OwnPosition
<1>. SUFFICES ASSUME DraftInv PROVE D!TypeOK /\ D!OneNeedEach /\ D!OwnPosition
  OBVIOUS
<1>1. \A i \in DOMAIN need : need[i].business \in held /\ need[i].position \in held /\ need[i].run \in 1..runs
  BY ANeed DEF DraftInv
<1>2. \A t \in Tabs : tab[t] = None \/ (tab[t].page \in D!Pages \cup held /\ tab[t].draft \in D!Answers)
  BY DEF DraftInv, Read, Given
<1>3. D!TypeOK
  BY <1>1, <1>2 DEF DraftInv, D!TypeOK, Given
<1>. QED BY <1>3 DEF DraftInv, D!OneNeedEach, Apart

-----------------------------------------------------------------------------
\* A worker's pages.  What an open request read is there, except for rows that came since; when nothing
\* was written while one was open, it is as it was read.
Profiles == [name : BOOLEAN, place : {None} \cup Areas, claims : BOOLEAN, state : J!States]
RankedOn == [row : Nat, terms : DaysSaid \X J!Places, crossed : BOOLEAN]
PageAsked(o, rows) ==
    /\ o.page \in {"name", "where", "skills", "when", "how", "rank"} /\ o.person \in Profiles
    /\ o.row \in Seq(J!Rows) /\ Len(o.row) <= Len(rows)
    /\ o.page = "where" => o.arg \in Areas
    /\ o.page = "when" => o.arg \in DaysSaid /\ o.person.place \in Areas
    /\ o.page = "how" => J!Current(o.row) # 0
    /\ o.page = "rank" => o.arg \in DOMAIN o.row
AsRead(o, who, rows, ranked) == o.person = who /\ o.row = rows /\ o.proposal = ranked
OpenNow(o, who, rows, ranked, late) ==
    /\ PageAsked(o, rows)
    /\ o.page = "rank" => who.state = "active"
    /\ ~late => AsRead(o, who, rows, ranked)
Distinct(rows) == \A i, j \in DOMAIN rows : rows[i].day = rows[j].day => i = j
JoinInv ==
    /\ person \in Profiles /\ row \in Seq(J!Rows) /\ Len(row) <= MaxRows /\ crossed \in BOOLEAN
    /\ proposal \subseteq RankedOn /\ \A p \in proposal : p.row \in DOMAIN row
    /\ proposal # {} => person.state = "active"
    /\ request = [q \in Requests |-> request[q]]
    /\ \A q \in Requests : request[q] # None => OpenNow(request[q], person, row, proposal, crossed)
    /\ J!RankedKeeps /\ J!PagesSubmit
    /\ ~crossed => Distinct(row)

LEMMA ADay ==
    ASSUME NEW rows \in Seq(J!Rows)
    PROVE  /\ DOMAIN rows = 1..Len(rows) /\ Len(rows) \in Nat /\ IsFiniteSet(DOMAIN rows)
           /\ \A i \in DOMAIN rows : /\ i \in Nat /\ i # 0 /\ rows[i] \in J!Rows /\ rows[i].day \in DaysSaid
                                     /\ rows[i].place \in J!Places /\ rows[i].state \in {"open", "booked"}
<1>1. DOMAIN rows = 1..Len(rows) /\ Len(rows) \in Nat
  OBVIOUS
<1>2. IsFiniteSet(1..Len(rows))
  BY <1>1, FS_Interval
<1>3. \A i \in DOMAIN rows : rows[i] \in J!Rows /\ i \in Nat /\ i # 0
  OBVIOUS
<1>4. \A r \in J!Rows : r.day \in DaysSaid /\ r.place \in J!Places /\ r.state \in {"open", "booked"}
  BY DEF J!Rows
<1>. QED BY <1>1, <1>2, <1>3, <1>4

\* The current availability is one that is open.
LEMMA CurrentIs ==
    ASSUME NEW rows \in Seq(J!Rows), J!Current(rows) # 0
    PROVE  J!Current(rows) \in DOMAIN rows
<1>. DEFINE open == {i \in DOMAIN rows : rows[i].state = "open"}
            day(i) == rows[i].day
            above == {p \in open \X open : day(p[1]) >= day(p[2])}
<1>1. /\ open \subseteq DOMAIN rows /\ IsFiniteSet(DOMAIN rows) /\ \A i \in open : day(i) \in Int
  BY ADay, JoiningAssumption
<1>2. IsFiniteSet(open)
  BY <1>1, FS_Subset
<1>3. \A i, j \in open : <<i, j>> \in above <=> day(i) >= day(j)
  OBVIOUS
<1>4. J!Current(rows) = IF open = {} THEN 0 ELSE CHOOSE i \in open : \A j \in open : day(i) >= day(j)
  BY DEF J!Current
<1>. HIDE DEF open, above, day
<1>5. ASSUME NEW i \in open, NEW j \in open PROVE <<i, j>> \in above \/ <<j, i>> \in above
  <2>1. day(i) \in Int /\ day(j) \in Int
    BY <1>1
  <2>. QED BY <1>3, <2>1
<1>6. ASSUME NEW i \in open, NEW j \in open, NEW k \in open, <<i, j>> \in above, <<j, k>> \in above
      PROVE  <<i, k>> \in above
  <2>1. day(i) \in Int /\ day(j) \in Int /\ day(k) \in Int
    BY <1>1
  <2>. QED BY <1>3, <1>6, <2>1
<1>7. open # {}
  BY <1>4
<1>8. PICK i \in open : \A j \in open : <<i, j>> \in above
  BY <1>2, <1>5, <1>6, <1>7, OneAbove
<1>9. \E k \in open : \A j \in open : day(k) >= day(j)
  BY <1>3, <1>8
<1>10. J!Current(rows) \in open
  BY <1>4, <1>7, <1>9
<1>. QED BY <1>1, <1>10

\* What is left to fill in, and what saving makes of the profile.
LEMMA SavedIs ==
    ASSUME NEW who \in Profiles, NEW rows, NEW saved, saved = J!Saved(who, rows)
    PROVE  /\ saved \in Profiles /\ saved.name = who.name /\ saved.place = who.place /\ saved.claims = who.claims
           /\ who.state = "active" => saved.state = "active"
           /\ J!WorkerNext(saved, rows) = "me" => saved.state \in {"submitted", "active"}
<1>1. PICK state : state = IF who.claims /\ J!Current(rows) # 0 THEN "submitted" ELSE "draft"
  OBVIOUS
<1>2. PICK other : other = [who EXCEPT !.state = state]
  OBVIOUS
<1>3. state \in {"submitted", "draft"} /\ other \in Profiles /\ other.name = who.name /\ other.place = who.place
      /\ other.claims = who.claims /\ other.state = state
  BY <1>1, <1>2 DEF Profiles, J!States
<1>4. saved = IF who.state \in {"none", "draft"} THEN other ELSE who
  BY <1>1, <1>2 DEF J!Saved
<1>5. J!WorkerNext(saved, rows) = "me" => saved.claims /\ J!Current(rows) # 0
  BY DEF J!WorkerNext
<1>6. who.state \in {"none", "draft", "submitted", "active"}
  BY DEF Profiles, J!States
<1>7. saved.claims /\ J!Current(rows) # 0 => saved.state \in {"submitted", "active"}
  <2>1. CASE saved = who /\ who.state \in {"submitted", "active"}
    BY <2>1
  <2>2. CASE saved = other
    BY Zenon, <1>1, <1>3, <2>2
  <2>. QED BY <1>4, <1>6, <2>1, <2>2
<1>. QED BY <1>3, <1>4, <1>5, <1>7

LEMMA JoinStarts == J!Init => JoinInv
<1>. SUFFICES ASSUME J!Init PROVE JoinInv
  OBVIOUS
<1>1. /\ person = [name |-> FALSE, place |-> None, claims |-> FALSE, state |-> "none"]
      /\ row = <<>> /\ proposal = {} /\ request = [q \in Requests |-> None] /\ crossed = FALSE
  BY DEF J!Init
<1>2. person \in Profiles
  BY <1>1 DEF Profiles, J!States
<1>3. row \in Seq(J!Rows) /\ Len(row) = 0 /\ DOMAIN row = {} /\ Len(row) <= MaxRows
  BY <1>1, JoiningAssumption
<1>4. J!RankedKeeps /\ Distinct(row)
  BY <1>1, <1>3 DEF J!RankedKeeps, Distinct
<1>5. J!PagesSubmit
  <2>1. J!WorkerNext(person, row) = "name"
    BY <1>1 DEF J!WorkerNext
  <2>. QED BY <2>1 DEF J!PagesSubmit
<1>. QED BY <1>1, <1>2, <1>3, <1>4, <1>5 DEF JoinInv

LEMMA BeginsKeep ==
    ASSUME JoinInv, NEW q \in Requests, NEW page \in {"name", "where", "skills", "when", "how", "rank"},
           NEW arg \in J!Asks(page), J!Begins(q, page, arg)
    PROVE  JoinInv'
<1>1. PICK o : o = [page |-> page, arg |-> arg, person |-> person, row |-> row, proposal |-> proposal]
  OBVIOUS
<1>2. /\ request' = [request EXCEPT ![q] = o] /\ person' = person /\ row' = row /\ proposal' = proposal
      /\ crossed' = crossed
  BY <1>1 DEF J!Begins
<1>3. /\ o.page = page /\ o.arg = arg /\ o.person = person /\ o.row = row /\ o.proposal = proposal
  BY <1>1
<1>4. person \in Profiles /\ row \in Seq(J!Rows) /\ Len(row) \in Nat
  BY DEF JoinInv
<1>5. PageAsked(o, row)
  <2>1. page = "where" => arg \in Areas
    BY DEF J!Asks
  <2>2. page = "when" => arg \in DaysSaid /\ person.place \in Areas
    BY <1>4 DEF J!Asks, J!Begins, Profiles
  <2>3. page = "how" => J!Current(row) # 0
    BY DEF J!Begins
  <2>4. page = "rank" => arg \in DOMAIN row
    BY DEF J!Begins
  <2>. QED BY <1>3, <1>4, <2>1, <2>2, <2>3, <2>4 DEF PageAsked
<1>6. page = "rank" => person.state = "active"
  BY DEF J!Begins
<1>7. request = [u \in Requests |-> request[u]]
  BY DEF JoinInv
<1>8. request' = [u \in Requests |-> request'[u]] /\ \A u \in Requests : request'[u] = IF u = q THEN o ELSE request[u]
  BY <1>2, <1>7
<1>9. ASSUME NEW u \in Requests, request'[u] # None
      PROVE  OpenNow(request'[u], person', row', proposal', crossed')
  <2>1. CASE u = q
    <3>1. OpenNow(o, person, row, proposal, crossed)
      BY <1>3, <1>5, <1>6 DEF OpenNow, AsRead
    <3>. QED BY <1>2, <1>8, <2>1, <3>1
  <2>2. CASE u # q
    <3>1. request'[u] = request[u]
      BY <1>8, <2>2
    <3>. QED BY <1>2, <1>9, <3>1 DEF JoinInv
  <2>. QED BY <2>1, <2>2
<1>10. J!RankedKeeps' /\ J!PagesSubmit'
  BY <1>2 DEF JoinInv, J!RankedKeeps, J!PagesSubmit
<1>11. \A u \in Requests : request'[u] # None => OpenNow(request'[u], person', row', proposal', crossed')
  BY <1>9
<1>12. request' = [u \in Requests |-> request'[u]]
  BY <1>8
<1>. QED BY <1>2, <1>10, <1>11, <1>12 DEF JoinInv

\* Requests that are left, once q has ended: with rows that are as many, and a profile that is as active.
LEMMA LeavesKeep ==
    ASSUME JoinInv, NEW q \in Requests, J!Leaves(q), row' \in Seq(J!Rows), Len(row) <= Len(row'),
           person.state = "active" => person'.state = "active"
    PROVE  /\ request' = [u \in Requests |-> request'[u]] /\ crossed' \in BOOLEAN /\ (~crossed' => ~crossed)
           /\ \A u \in Requests : request'[u] # None => OpenNow(request'[u], person', row', proposal', crossed')
           /\ ~crossed' /\ request[q] # None => AsRead(request[q], person, row, proposal)
<1>1. request = [u \in Requests |-> request[u]]
      /\ \A u \in Requests : request[u] # None => OpenNow(request[u], person, row, proposal, crossed)
  BY DEF JoinInv
<1>2. request' = [request EXCEPT ![q] = None] /\ crossed' = (crossed \/ J!Open # {q})
  BY DEF J!Leaves
<1>3. request' = [u \in Requests |-> request'[u]]
      /\ \A u \in Requests : request'[u] = IF u = q THEN None ELSE request[u]
  BY <1>1, <1>2
<1>4. crossed' \in BOOLEAN /\ (~crossed' => ~crossed /\ J!Open = {q})
  BY Zenon, <1>2 DEF JoinInv
<1>5. \A o : PageAsked(o, row) => PageAsked(o, row')
  <2>1. \A o : o.row \in Seq(J!Rows) => Len(o.row) \in Nat
    OBVIOUS
  <2>2. Len(row) \in Nat /\ Len(row') \in Nat
    BY DEF JoinInv
  <2>. QED BY <2>1, <2>2 DEF PageAsked
<1>6. ASSUME NEW u \in Requests, request'[u] # None
      PROVE  OpenNow(request'[u], person', row', proposal', crossed')
  <2>1. u # q /\ request'[u] = request[u]
    BY <1>3, <1>6
  <2>2. u \in J!Open
    BY <1>6, <2>1 DEF J!Open
  <2>3. crossed'
    BY <1>4, <2>1, <2>2
  <2>4. OpenNow(request[u], person, row, proposal, crossed)
    BY <1>1, <1>6, <2>1
  <2>. QED BY <1>5, <2>1, <2>3, <2>4 DEF OpenNow
<1>7. ~crossed' /\ request[q] # None => AsRead(request[q], person, row, proposal)
  BY <1>1, <1>4 DEF OpenNow
<1>8. request' = [u \in Requests |-> request'[u]]
  BY <1>3
<1>9. \A u \in Requests : request'[u] # None => OpenNow(request'[u], person', row', proposal', crossed')
  BY <1>6
<1>. QED BY <1>4, <1>7, <1>8, <1>9

\* What a page made of the account and the availabilities it read: no fewer rows and one more at most, a
\* profile with the staff when nothing is left to fill in, and a row that was ranked as it was ranked.
Better(seen, who, rows) ==
    /\ who \in Profiles /\ rows \in Seq(J!Rows)
    /\ Len(rows) = Len(seen.row) \/ Len(rows) = Len(seen.row) + 1
    /\ seen.person.claims => who.claims
    /\ seen.person.state = "active" => who.state = "active"
    /\ \A i \in DOMAIN seen.row : J!Referenced(i, seen.proposal) => J!Terms(rows[i]) = J!Terms(seen.row[i])
    /\ J!WorkerNext(who, rows) = "me" => who.state \in {"submitted", "active"}
    /\ Distinct(seen.row) => Distinct(rows)

\* The account and the rows that are written.
Wrote(seen, who, rows) == {i \in DOMAIN seen.row : seen.row[i] # rows[i]}
Turned(seen, who) == seen.person.state # who.state \/ seen.person.name # who.name \/ seen.person.place # who.place
LEMMA PersonIs ==
    ASSUME JoinInv, NEW q \in Requests, NEW seen, seen = request[q], PageAsked(seen, row), NEW who, NEW rows,
           Better(seen, who, rows), J!Ends(q, who, rows)
    PROVE  /\ person' \in Profiles /\ (person.state = "active" => person'.state = "active")
           /\ seen.person = person => person' = who
<1>1. PICK turned : turned = Turned(seen, who)
  OBVIOUS
<1>2. PICK base : base = IF turned THEN who ELSE person
  OBVIOUS
<1>3. PICK claims : claims = (base.claims \/ person.claims \/ who.claims)
  OBVIOUS
<1>4. person' = [base EXCEPT !.claims = claims]
  BY <1>1, <1>2, <1>3 DEF J!Ends, Turned
<1>5. turned => person.state = seen.person.state
  <2>1. turned => person = [seen.person EXCEPT !.claims = person.claims]
    BY <1>1 DEF J!Ends, Turned
  <2>2. PICK had : had = person.claims
    OBVIOUS
  <2>3. turned => person = [seen.person EXCEPT !.claims = had]
    BY <2>1, <2>2
  <2>. QED BY <2>3 DEF PageAsked, Profiles
<1>6. person \in Profiles /\ who \in Profiles /\ seen.person \in Profiles /\ base \in Profiles
  BY <1>2 DEF JoinInv, Better, PageAsked
<1>7. claims \in BOOLEAN /\ base.claims \in BOOLEAN /\ person.claims \in BOOLEAN /\ who.claims \in BOOLEAN
  <2>1. base.claims \in BOOLEAN /\ person.claims \in BOOLEAN /\ who.claims \in BOOLEAN
    BY <1>6 DEF Profiles
  <2>. QED BY Zenon, <1>3, <2>1
<1>8. person' \in Profiles /\ person'.state = base.state /\ person'.name = base.name /\ person'.place = base.place
      /\ person'.claims = claims
  BY <1>4, <1>6, <1>7 DEF Profiles
<1>9. person.state = "active" => base.state = "active"
  BY <1>2, <1>5 DEF Better
<1>10. ASSUME seen.person = person PROVE person' = who
  <2>1. person.claims => who.claims
    BY <1>10 DEF Better
  <2>2. claims <=> who.claims
    <3>1. base.claims => who.claims
      BY <1>2, <2>1
    <3>. QED BY Zenon, <1>3, <2>1, <3>1
  <2>3. base.state = who.state /\ base.name = who.name /\ base.place = who.place
    BY <1>1, <1>2, <1>10 DEF Turned
  <2>4. claims = who.claims
    BY <1>7, <2>2
  <2>. QED BY <1>6, <1>8, <2>3, <2>4 DEF Profiles
<1>. QED BY <1>8, <1>9, <1>10

\* Some of what there is written over, and more after it.
Over(have, give, some) == [i \in DOMAIN have |-> IF i \in some THEN give[i] ELSE have[i]]
IsWritten(got, have, give, some) ==
    Len(got) = Len(have) /\ \A i \in DOMAIN have : got[i] = IF i \in some THEN give[i] ELSE have[i]
IsLonger(all, have, one) ==
    /\ Len(all) = Len(have) + Len(one)
    /\ \A i \in DOMAIN have : i \in DOMAIN all /\ all[i] = have[i]
    /\ \A j \in DOMAIN one : j + Len(have) \in DOMAIN all /\ all[j + Len(have)] = one[j]
LEMMA Rewritten ==
    ASSUME NEW Elements, NEW have \in Seq(Elements), NEW give \in Seq(Elements),
           NEW some, some \subseteq DOMAIN have, some \subseteq DOMAIN give,
           NEW got, got = Over(have, give, some)
    PROVE  got \in Seq(Elements) /\ IsWritten(got, have, give, some)
<1>1. PICK n : n = Len(have)
  OBVIOUS
<1>2. n \in Nat /\ DOMAIN have = 1..n
  BY <1>1
<1>3. \A i \in 1..n : have[i] \in Elements
  BY <1>1, <1>2
<1>4. \A i \in some : i \in 1..n /\ give[i] \in Elements
  BY <1>2
<1>5. got = [i \in 1..n |-> IF i \in some THEN give[i] ELSE have[i]]
  BY <1>2 DEF Over
<1>6. \A i \in 1..n : got[i] = IF i \in some THEN give[i] ELSE have[i]
  BY <1>5
<1>7. \A i \in 1..n : got[i] \in Elements
  BY <1>3, <1>4, <1>6
<1>8. got \in [1..n -> Elements]
  BY <1>5, <1>7
<1>9. got \in Seq(Elements) /\ DOMAIN got = 1..n
  BY <1>2, <1>8
<1>10. Len(got) = n
  BY <1>2, <1>9
<1>. QED BY <1>1, <1>2, <1>6, <1>9, <1>10 DEF IsWritten

LEMMA Longer ==
    ASSUME NEW Elements, NEW have \in Seq(Elements), NEW one \in Seq(Elements), NEW all, all = have \o one
    PROVE  all \in Seq(Elements) /\ IsLonger(all, have, one)
<1>1. all \in Seq(Elements) /\ Len(all) = Len(have) + Len(one)
  OBVIOUS
<1>2. \A i \in DOMAIN have : i \in DOMAIN all /\ all[i] = have[i]
  OBVIOUS
<1>3. \A j \in DOMAIN one : j + Len(have) \in DOMAIN all /\ all[j + Len(have)] = one[j]
  OBVIOUS
<1>. QED BY <1>1, <1>2, <1>3 DEF IsLonger

\* Sequences that are as long and have the same members are the same.
LEMMA SameRows ==
    ASSUME NEW Elements, NEW have \in Seq(Elements), NEW other \in Seq(Elements), Len(have) = Len(other),
           \A i \in 1..Len(other) : have[i] = other[i]
    PROVE  have = other
  OBVIOUS

LEMMA RowsAre ==
    ASSUME JoinInv, NEW q \in Requests, NEW seen, seen = request[q], PageAsked(seen, row), NEW who, NEW rows,
           Better(seen, who, rows), J!Ends(q, who, rows)
    PROVE  /\ row' \in Seq(J!Rows) /\ Len(row) <= Len(row') /\ Len(row') <= MaxRows
           /\ \A i \in DOMAIN row : /\ i \in DOMAIN row'
                                   /\ row'[i] = IF i \in Wrote(seen, who, rows) THEN rows[i] ELSE row[i]
           /\ \A i \in Wrote(seen, who, rows) : i \in DOMAIN row /\ row[i] = seen.row[i]
           /\ seen.row = row => row' = rows
<1>1. PICK written : written = Wrote(seen, who, rows)
  OBVIOUS
<1>2. PICK one : one = IF Len(rows) > Len(seen.row) THEN <<rows[Len(rows)]>> ELSE <<>>
  OBVIOUS
<1>3. PICK kept : kept = [i \in DOMAIN row |-> IF i \in written THEN rows[i] ELSE row[i]]
  OBVIOUS
<1>4. row' = kept \o one /\ Len(row') <= MaxRows
  BY <1>1, <1>2, <1>3 DEF J!Ends, Wrote
<1>5. \A i \in written : row[i] = seen.row[i]
  BY <1>1 DEF J!Ends, Wrote
<1>6. row \in Seq(J!Rows) /\ seen.row \in Seq(J!Rows) /\ rows \in Seq(J!Rows)
  BY DEF JoinInv, PageAsked, Better
<1>7. PICK n, m, l : n = Len(row) /\ m = Len(seen.row) /\ l = Len(rows)
  OBVIOUS
<1>8. n \in Nat /\ m \in Nat /\ l \in Nat /\ m <= n /\ (l = m \/ l = m + 1)
  BY <1>6, <1>7 DEF PageAsked, Better
<1>9. DOMAIN row = 1..n /\ DOMAIN seen.row = 1..m /\ DOMAIN rows = 1..l
  BY <1>6, <1>7, ADay
<1>10. written \subseteq DOMAIN row /\ written \subseteq DOMAIN rows
  <2>1. written \subseteq 1..m
    BY <1>1, <1>9 DEF Wrote
  <2>. QED BY <1>8, <1>9, <2>1
<1>11. kept \in Seq(J!Rows) /\ Len(kept) = Len(row)
       /\ \A i \in DOMAIN row : kept[i] = IF i \in written THEN rows[i] ELSE row[i]
  <2>1. kept = Over(row, rows, written)
    BY <1>3 DEF Over
  <2>2. kept \in Seq(J!Rows) /\ IsWritten(kept, row, rows, written)
    BY <1>6, <1>10, <2>1, Rewritten
  <2>. QED BY <2>2 DEF IsWritten
<1>12. /\ one \in Seq(J!Rows) /\ Len(one) = l - m
       /\ l = m + 1 => 1 \in DOMAIN one /\ one[1] = rows[l]
  <2>1. CASE l = m
    BY <1>2, <1>7, <1>8, <2>1
  <2>2. CASE l = m + 1
    <3>1. l > m /\ l \in DOMAIN rows
      BY <1>8, <1>9, <2>2
    <3>2. one = <<rows[l]>> /\ rows[l] \in J!Rows
      BY <1>2, <1>6, <1>7, <3>1, ADay
    <3>3. one \in Seq(J!Rows) /\ Len(one) = 1 /\ 1 \in DOMAIN one /\ one[1] = rows[l]
      BY <3>2
    <3>. QED BY <1>8, <2>2, <3>3
  <2>. QED BY <1>8, <2>1, <2>2
<1>13. /\ row' \in Seq(J!Rows) /\ Len(row') = Len(kept) + Len(one)
       /\ \A i \in DOMAIN kept : i \in DOMAIN row' /\ row'[i] = kept[i]
       /\ \A j \in DOMAIN one : j + Len(kept) \in DOMAIN row' /\ row'[j + Len(kept)] = one[j]
  <2>1. PICK all : all = row'
    OBVIOUS
  <2>2. all = kept \o one
    BY <1>4, <2>1
  <2>3. all \in Seq(J!Rows) /\ IsLonger(all, kept, one)
    BY <1>11, <1>12, <2>2, Longer
  <2>. QED BY <2>1, <2>3 DEF IsLonger
<1>14. \A i \in DOMAIN row : i \in DOMAIN kept
  <2>1. DOMAIN kept = 1..Len(kept)
    BY <1>11
  <2>. QED BY <1>7, <1>9, <1>11, <2>1
<1>15. \A i \in DOMAIN row : i \in DOMAIN row' /\ row'[i] = IF i \in written THEN rows[i] ELSE row[i]
  BY <1>11, <1>13, <1>14
<1>16. Len(kept) = n /\ Len(one) \in Nat /\ Len(row') = n + Len(one)
  BY <1>7, <1>8, <1>11, <1>12, <1>13
<1>17. Len(row) <= Len(row')
  BY <1>7, <1>8, <1>16
<1>18. ASSUME seen.row = row PROVE row' = rows
  <2>1. m = n
    BY <1>7, <1>18
  <2>2. Len(row') = l
    BY <1>8, <1>12, <1>16, <2>1
  <2>3. ASSUME NEW i \in 1..l PROVE row'[i] = rows[i]
    <3>1. CASE i \in DOMAIN row
      <4>1. i \notin written => row[i] = rows[i]
        BY <1>1, <1>18, <3>1 DEF Wrote
      <4>. QED BY <1>15, <3>1, <4>1
    <3>2. CASE i \notin DOMAIN row
      <4>1. i = l /\ l = m + 1 /\ 1 + n = i
        BY <1>8, <1>9, <2>1, <2>3, <3>2
      <4>. QED BY <1>12, <1>13, <1>16, <4>1
    <3>. QED BY <3>1, <3>2
  <2>4. PICK all : all = row'
    OBVIOUS
  <2>5. all = rows
    BY <1>6, <1>7, <1>13, <2>2, <2>3, <2>4, SameRows
  <2>. QED BY <2>4, <2>5
<1>19. \A i \in Wrote(seen, who, rows) : i \in DOMAIN row /\ row[i] = seen.row[i]
  BY <1>1, <1>5, <1>10
<1>. QED BY <1>1, <1>4, <1>13, <1>15, <1>17, <1>18, <1>19

\* The end of a page.
LEMMA JoinEnds ==
    ASSUME JoinInv, NEW q \in Requests, NEW seen, seen = request[q], seen # None, NEW who, NEW rows,
           Better(seen, who, rows), J!Ends(q, who, rows)
    PROVE  JoinInv'
<1>1. PageAsked(seen, row)
  BY DEF JoinInv, OpenNow
<1>2. /\ person' \in Profiles /\ (person.state = "active" => person'.state = "active")
      /\ seen.person = person => person' = who
  BY <1>1, PersonIs
<1>3. /\ row' \in Seq(J!Rows) /\ Len(row) <= Len(row') /\ Len(row') <= MaxRows
      /\ \A i \in DOMAIN row : i \in DOMAIN row' /\ row'[i] = IF i \in Wrote(seen, who, rows) THEN rows[i] ELSE row[i]
      /\ \A i \in Wrote(seen, who, rows) : i \in DOMAIN row /\ row[i] = seen.row[i]
      /\ seen.row = row => row' = rows
  BY <1>1, RowsAre
<1>4. J!Leaves(q)
  BY DEF J!Ends
<1>5. /\ request' = [u \in Requests |-> request'[u]] /\ crossed' \in BOOLEAN /\ (~crossed' => ~crossed)
      /\ \A u \in Requests : request'[u] # None => OpenNow(request'[u], person', row', proposal', crossed')
      /\ ~crossed' => AsRead(seen, person, row, proposal)
  BY <1>2, <1>3, <1>4, LeavesKeep
\* What was ranked.
<1>6. PICK written : written = Wrote(seen, who, rows)
  OBVIOUS
<1>7. proposal' = {[p EXCEPT !.crossed = @ \/ (p.row \in written /\ p \notin seen.proposal)] : p \in proposal}
  BY <1>6 DEF J!Ends, Wrote
<1>8. ASSUME NEW now \in proposal'
      PROVE  \E p \in proposal : /\ now \in RankedOn /\ now.row = p.row /\ now.terms = p.terms
                                 /\ ~now.crossed => ~p.crossed /\ (p.row \in written => p \in seen.proposal)
  <2>1. PICK p \in proposal : now = [p EXCEPT !.crossed = @ \/ (p.row \in written /\ p \notin seen.proposal)]
    BY <1>7
  <2>2. PICK late : late = (p.crossed \/ (p.row \in written /\ p \notin seen.proposal))
    OBVIOUS
  <2>3. now = [p EXCEPT !.crossed = late]
    BY <2>1, <2>2
  <2>4. p \in RankedOn
    BY DEF JoinInv
  <2>5. p.crossed \in BOOLEAN
    BY <2>4 DEF RankedOn
  <2>6. late \in BOOLEAN
    BY Zenon, <2>2, <2>5
  <2>7. now \in RankedOn /\ now.row = p.row /\ now.terms = p.terms /\ now.crossed = late
    BY <2>3, <2>4, <2>6 DEF RankedOn
  <2>8. ~late => ~p.crossed /\ (p.row \in written => p \in seen.proposal)
    BY Zenon, <2>2
  <2>. QED BY <2>7, <2>8
<1>9. proposal' \subseteq RankedOn /\ \A p \in proposal' : p.row \in DOMAIN row'
  BY <1>3, <1>8 DEF JoinInv
<1>10. proposal' # {} => person'.state = "active"
  BY <1>2, <1>8 DEF JoinInv
<1>11. J!RankedKeeps'
  <2>1. ASSUME NEW now \in proposal', ~now.crossed PROVE J!Terms(row'[now.row]) = now.terms
    <3>1. PICK p \in proposal : /\ now.row = p.row /\ now.terms = p.terms
                               /\ ~p.crossed /\ (p.row \in written => p \in seen.proposal)
      BY <1>8, <2>1
    <3>2. p.row \in DOMAIN row /\ J!Terms(row[p.row]) = p.terms
      BY <3>1 DEF JoinInv, J!RankedKeeps
    <3>3. CASE p.row \in written
      <4>1. J!Referenced(p.row, seen.proposal) /\ p.row \in DOMAIN seen.row
        BY <1>6, <3>1, <3>3 DEF J!Referenced, Wrote
      <4>2. J!Terms(rows[p.row]) = J!Terms(seen.row[p.row])
        BY <4>1 DEF Better
      <4>3. row'[p.row] = rows[p.row] /\ row[p.row] = seen.row[p.row]
        BY <1>3, <1>6, <3>2, <3>3
      <4>. QED BY <3>1, <3>2, <4>2, <4>3
    <3>4. CASE p.row \notin written
      <4>1. row'[p.row] = row[p.row]
        BY <1>3, <1>6, <3>2, <3>4
      <4>. QED BY <3>1, <3>2, <4>1
    <3>. QED BY <3>3, <3>4
  <2>. QED BY <2>1 DEF J!RankedKeeps
\* Of a person whose requests came one at a time.
<1>12. ~crossed' => person' = who /\ row' = rows /\ Distinct(seen.row)
  BY <1>2, <1>3, <1>5 DEF AsRead, JoinInv
<1>13. J!PagesSubmit'
  BY <1>12 DEF J!PagesSubmit, Better
<1>14. ~crossed' => Distinct(row')
  BY <1>12 DEF Better
<1>. QED BY <1>2, <1>3, <1>5, <1>9, <1>10, <1>11, <1>13, <1>14 DEF JoinInv

LEMMA NameKeeps == ASSUME JoinInv, NEW q \in Requests, request[q] # None, J!Name(q) PROVE JoinInv'
<1>1. PICK seen : seen = request[q]
  OBVIOUS
<1>2. PICK who : who = [seen.person EXCEPT !.name = TRUE]
  OBVIOUS
<1>3. PICK saved : saved = J!Saved(who, seen.row)
  OBVIOUS
<1>4. J!Ends(q, saved, seen.row)
  BY <1>1, <1>2, <1>3 DEF J!Name
<1>5. seen.person \in Profiles /\ seen.row \in Seq(J!Rows)
  BY <1>1 DEF JoinInv, OpenNow, PageAsked
<1>6. who \in Profiles /\ who.claims = seen.person.claims /\ who.state = seen.person.state
  BY <1>2, <1>5 DEF Profiles
<1>7. Better(seen, saved, seen.row)
  BY <1>3, <1>5, <1>6, SavedIs DEF Better
<1>. QED BY <1>1, <1>4, <1>7, JoinEnds

LEMMA SkillsKeeps == ASSUME JoinInv, NEW q \in Requests, request[q] # None, J!Skills(q) PROVE JoinInv'
<1>1. PICK seen : seen = request[q]
  OBVIOUS
<1>2. PICK who : who = [seen.person EXCEPT !.claims = TRUE]
  OBVIOUS
<1>3. PICK saved : saved = J!Saved(who, seen.row)
  OBVIOUS
<1>4. J!Ends(q, saved, seen.row)
  BY <1>1, <1>2, <1>3 DEF J!Skills
<1>5. seen.person \in Profiles /\ seen.row \in Seq(J!Rows)
  BY <1>1 DEF JoinInv, OpenNow, PageAsked
<1>6. who \in Profiles /\ who.claims /\ who.state = seen.person.state
  BY <1>2, <1>5 DEF Profiles
<1>7. Better(seen, saved, seen.row)
  BY <1>3, <1>5, <1>6, SavedIs DEF Better
<1>. QED BY <1>1, <1>4, <1>7, JoinEnds

\* A row that is written over: the others stay, and they stay a sequence of rows.
LEMMA RowOver ==
    ASSUME NEW have \in Seq(J!Rows), NEW i \in DOMAIN have, NEW new \in J!Rows,
           NEW rows, rows = [have EXCEPT ![i] = new]
    PROVE  /\ rows \in Seq(J!Rows) /\ Len(rows) = Len(have) /\ DOMAIN rows = DOMAIN have
           /\ rows[i] = new /\ \A j \in DOMAIN have : j # i => rows[j] = have[j]
  OBVIOUS

\* With another place, or with how often they come, each day is still its own.
LEMMA SameDay ==
    ASSUME NEW have \in Seq(J!Rows), NEW i \in DOMAIN have, NEW new \in J!Rows, new.day = have[i].day,
           NEW rows, rows = [have EXCEPT ![i] = new], Distinct(have)
    PROVE  Distinct(rows)
<1>1. /\ DOMAIN rows = DOMAIN have /\ rows[i] = new /\ \A j \in DOMAIN have : j # i => rows[j] = have[j]
  BY RowOver
<1>2. \A j \in DOMAIN have : rows[j].day = have[j].day
  BY <1>1
<1>. QED BY <1>1, <1>2 DEF Distinct

LEMMA WhereKeeps == ASSUME JoinInv, NEW q \in Requests, request[q] # None, J!Where(q) PROVE JoinInv'
<1>1. PICK seen, have, i : seen = request[q] /\ have = seen.row /\ i = J!Current(have)
  OBVIOUS
<1>2. PICK who : who = [seen.person EXCEPT !.place = seen.arg]
  OBVIOUS
<1>3. PICK city : city = CityOf[seen.arg]
  OBVIOUS
<1>4. PICK rows : rows = IF i # 0 /\ ~J!Referenced(i, seen.proposal) THEN [have EXCEPT ![i].place = city] ELSE have
  OBVIOUS
<1>5. PICK saved : saved = J!Saved(who, rows)
  OBVIOUS
<1>6. J!Ends(q, saved, rows) /\ seen.page = "where"
  BY <1>1, <1>2, <1>3, <1>4, <1>5 DEF J!Where
<1>7. seen.person \in Profiles /\ have \in Seq(J!Rows) /\ seen.arg \in Areas
  BY <1>1, <1>6 DEF JoinInv, OpenNow, PageAsked
<1>8. who \in Profiles /\ who.claims = seen.person.claims /\ who.state = seen.person.state
  BY <1>2, <1>7 DEF Profiles
<1>9. /\ rows \in Seq(J!Rows) /\ Len(rows) = Len(have)
      /\ \A j \in DOMAIN have : J!Referenced(j, seen.proposal) => J!Terms(rows[j]) = J!Terms(have[j])
      /\ Distinct(have) => Distinct(rows)
  <2>1. CASE i # 0 /\ ~J!Referenced(i, seen.proposal)
    <3>1. i \in DOMAIN have
      BY <1>1, <1>7, <2>1, CurrentIs
    <3>2. PICK new : new = [have[i] EXCEPT !.place = city]
      OBVIOUS
    <3>3. have[i] \in J!Rows /\ city \in J!Places
      BY <1>3, <1>7, <3>1, ADay DEF J!Places
    <3>4. new \in J!Rows /\ new.day = have[i].day
      BY <3>2, <3>3 DEF J!Rows
    <3>5. rows = [have EXCEPT ![i] = new]
      BY <1>4, <2>1, <3>2
    <3>6. /\ rows \in Seq(J!Rows) /\ Len(rows) = Len(have)
          /\ \A j \in DOMAIN have : j # i => rows[j] = have[j]
      BY <1>7, <3>1, <3>4, <3>5, RowOver
    <3>7. Distinct(have) => Distinct(rows)
      BY <1>7, <3>1, <3>4, <3>5, SameDay
    <3>. QED BY <2>1, <3>6, <3>7
  <2>2. CASE rows = have
    BY <1>7, <2>2
  <2>. QED BY <1>4, <2>1, <2>2
<1>10. Better(seen, saved, rows)
  BY <1>1, <1>5, <1>8, <1>9, SavedIs DEF Better
<1>. QED BY <1>1, <1>6, <1>10, JoinEnds

LEMMA HowKeeps == ASSUME JoinInv, NEW q \in Requests, request[q] # None, J!How(q) PROVE JoinInv'
<1>1. PICK seen, have, i : seen = request[q] /\ have = seen.row /\ i = J!Current(have)
  OBVIOUS
<1>2. PICK who : who = seen.person
  OBVIOUS
<1>3. PICK rows : rows = [have EXCEPT ![i].how = TRUE]
  OBVIOUS
<1>4. PICK saved : saved = J!Saved(who, rows)
  OBVIOUS
<1>5. J!Ends(q, saved, rows) /\ seen.page = "how"
  BY <1>1, <1>2, <1>3, <1>4 DEF J!How
<1>6. who \in Profiles /\ have \in Seq(J!Rows) /\ J!Current(have) # 0
  BY <1>1, <1>2, <1>5 DEF JoinInv, OpenNow, PageAsked
<1>7. i \in DOMAIN have
  BY <1>1, <1>6, CurrentIs
<1>8. PICK new : new = [have[i] EXCEPT !.how = TRUE]
  OBVIOUS
<1>9. have[i] \in J!Rows
  BY <1>6, <1>7, ADay
<1>10. new \in J!Rows /\ new.day = have[i].day /\ new.place = have[i].place
  BY <1>8, <1>9 DEF J!Rows
<1>11. rows = [have EXCEPT ![i] = new]
  BY <1>3, <1>8
<1>12. /\ rows \in Seq(J!Rows) /\ Len(rows) = Len(have) /\ rows[i] = new
       /\ \A j \in DOMAIN have : j # i => rows[j] = have[j]
  BY <1>6, <1>7, <1>10, <1>11, RowOver
<1>13. Distinct(have) => Distinct(rows)
  BY <1>6, <1>7, <1>10, <1>11, SameDay
<1>14. \A j \in DOMAIN have : J!Terms(rows[j]) = J!Terms(have[j])
  BY <1>10, <1>12 DEF J!Terms
<1>15. Better(seen, saved, rows)
  BY <1>1, <1>2, <1>4, <1>6, <1>12, <1>13, <1>14, SavedIs DEF Better
<1>. QED BY <1>1, <1>5, <1>15, JoinEnds

LEMMA WhenKeeps == ASSUME JoinInv, NEW q \in Requests, request[q] # None, J!When(q) PROVE JoinInv'
<1>1. PICK seen, have, i : seen = request[q] /\ have = seen.row /\ i = J!Current(have)
  OBVIOUS
<1>2. PICK who, day, at_ : who = seen.person /\ day = seen.arg /\ at_ = who.place
  OBVIOUS
<1>3. PICK shifts : shifts = (i # 0 /\ ~J!Referenced(i, seen.proposal))
  OBVIOUS
<1>4. PICK made_ : made_ = [day |-> day, place |-> at_, state |-> "open", how |-> FALSE]
  OBVIOUS
<1>5. PICK rows : rows = IF shifts THEN [have EXCEPT ![i].day = day, ![i].place = at_] ELSE Append(have, made_)
  OBVIOUS
<1>6. PICK saved : saved = J!Saved(who, rows)
  OBVIOUS
<1>7. /\ J!Ends(q, saved, rows) /\ seen.page = "when"
      /\ \A j \in DOMAIN have : have[j].day = day => shifts /\ j = i
  BY <1>1, <1>2, <1>3, <1>4, <1>5, <1>6 DEF J!When
<1>8. who \in Profiles /\ have \in Seq(J!Rows) /\ day \in DaysSaid /\ at_ \in J!Places
  BY <1>1, <1>2, <1>7 DEF JoinInv, OpenNow, PageAsked, J!Places
<1>9. /\ rows \in Seq(J!Rows) /\ (Len(rows) = Len(have) \/ Len(rows) = Len(have) + 1)
      /\ \A j \in DOMAIN have : J!Referenced(j, seen.proposal) => J!Terms(rows[j]) = J!Terms(have[j])
      /\ Distinct(have) => Distinct(rows)
  <2>1. CASE shifts
    <3>1. i \in DOMAIN have /\ ~J!Referenced(i, seen.proposal)
      BY <1>1, <1>3, <1>8, <2>1, CurrentIs
    <3>2. PICK new : new = [have[i] EXCEPT !.day = day, !.place = at_]
      OBVIOUS
    <3>3. have[i] \in J!Rows
      BY <1>8, <3>1, ADay
    <3>4. new \in J!Rows /\ new.day = day
      BY <1>8, <3>2, <3>3 DEF J!Rows
    <3>5. rows = [have EXCEPT ![i] = new]
      BY <1>5, <2>1, <3>1, <3>2
    <3>6. /\ rows \in Seq(J!Rows) /\ Len(rows) = Len(have) /\ DOMAIN rows = DOMAIN have /\ rows[i] = new
          /\ \A j \in DOMAIN have : j # i => rows[j] = have[j]
      BY <1>8, <3>1, <3>4, <3>5, RowOver
    <3>7. \A j \in DOMAIN have : j # i => rows[j].day # day
      BY <1>7, <3>6
    <3>8. Distinct(have) => Distinct(rows)
      BY <3>4, <3>6, <3>7 DEF Distinct
    <3>. QED BY <3>1, <3>6, <3>8
  <2>2. CASE ~shifts
    <3>1. made_ \in J!Rows /\ made_.day = day
      BY <1>4, <1>8 DEF J!Rows
    <3>2. rows = Append(have, made_)
      BY <1>5, <2>2
    <3>3. /\ rows \in Seq(J!Rows) /\ Len(rows) = Len(have) + 1 /\ DOMAIN rows = DOMAIN have \cup {Len(have) + 1}
          /\ rows[Len(have) + 1] = made_ /\ \A j \in DOMAIN have : rows[j] = have[j]
      BY <1>8, <3>1, <3>2
    <3>4. \A j \in DOMAIN have : rows[j].day # day
      BY <1>7, <2>2, <3>3
    <3>5. Distinct(have) => Distinct(rows)
      BY <3>1, <3>3, <3>4 DEF Distinct
    <3>. QED BY <3>3, <3>5
  <2>. QED BY <2>1, <2>2
<1>10. Better(seen, saved, rows)
  BY <1>1, <1>2, <1>6, <1>8, <1>9, SavedIs DEF Better
<1>. QED BY <1>1, <1>7, <1>10, JoinEnds

\* An availability is ranked as it was when staff asked.
LEMMA RankKeeps == ASSUME JoinInv, NEW q \in Requests, request[q] # None, J!Rank(q) PROVE JoinInv'
<1>1. PICK seen : seen = request[q]
  OBVIOUS
<1>2. PICK late : late = (row[seen.arg] # seen.row[seen.arg])
  OBVIOUS
<1>3. PICK new : new = [row |-> seen.arg, terms |-> J!Terms(seen.row[seen.arg]), crossed |-> late]
  OBVIOUS
<1>4. /\ proposal' = proposal \cup {new} /\ person' = person /\ row' = row /\ J!Leaves(q) /\ seen.page = "rank"
  BY <1>1, <1>2, <1>3 DEF J!Rank
<1>5. OpenNow(seen, person, row, proposal, crossed) /\ row \in Seq(J!Rows)
  BY <1>1 DEF JoinInv
<1>6. /\ person.state = "active" /\ seen.arg \in DOMAIN seen.row /\ seen.row \in Seq(J!Rows) /\ Len(seen.row) <= Len(row)
  BY <1>4, <1>5 DEF OpenNow, PageAsked
<1>7. seen.arg \in DOMAIN row /\ seen.arg \in Nat
  <2>1. /\ DOMAIN row = 1..Len(row) /\ DOMAIN seen.row = 1..Len(seen.row) /\ Len(row) \in Nat /\ Len(seen.row) \in Nat
    BY <1>5, <1>6, ADay
  <2>. QED BY <1>6, <2>1
<1>8. J!Terms(seen.row[seen.arg]) \in DaysSaid \X J!Places
  BY <1>6, ADay DEF J!Terms
<1>9. late \in BOOLEAN /\ (~late => row[seen.arg] = seen.row[seen.arg])
  BY <1>2
<1>10. new \in RankedOn /\ new.row = seen.arg /\ new.terms = J!Terms(seen.row[seen.arg]) /\ new.crossed = late
  BY <1>3, <1>7, <1>8, <1>9 DEF RankedOn
<1>11. /\ request' = [u \in Requests |-> request'[u]] /\ crossed' \in BOOLEAN /\ (~crossed' => ~crossed)
       /\ \A u \in Requests : request'[u] # None => OpenNow(request'[u], person', row', proposal', crossed')
  <2>1. row' \in Seq(J!Rows) /\ Len(row) <= Len(row')
    BY <1>4, <1>5, ADay
  <2>. QED BY <1>4, <2>1, LeavesKeep
<1>12. J!RankedKeeps'
  <2>1. ASSUME NEW p \in proposal', ~p.crossed PROVE J!Terms(row'[p.row]) = p.terms
    <3>1. CASE p \in proposal
      BY <1>4, <2>1, <3>1 DEF JoinInv, J!RankedKeeps
    <3>2. CASE p = new
      BY <1>4, <1>9, <1>10, <2>1, <3>2
    <3>. QED BY <1>4, <3>1, <3>2
  <2>. QED BY <2>1 DEF J!RankedKeeps
<1>13. J!PagesSubmit'
  BY <1>4, <1>11 DEF JoinInv, J!PagesSubmit
<1>14. proposal' \subseteq RankedOn /\ \A p \in proposal' : p.row \in DOMAIN row'
  BY <1>4, <1>7, <1>10 DEF JoinInv
<1>. QED BY <1>4, <1>6, <1>11, <1>12, <1>13, <1>14 DEF JoinInv

\* Where nobody reads, whatever staff write is read by whoever comes next; else it crossed what they read.
LEMMA StaffWrite ==
    ASSUME JoinInv, crossed' = (crossed \/ J!Open # {}), request' = request, row' \in Seq(J!Rows),
           Len(row') = Len(row), person'.state = "active"
    PROVE  /\ crossed' \in BOOLEAN /\ (~crossed' => ~crossed) /\ request' = [u \in Requests |-> request'[u]]
           /\ \A u \in Requests : request'[u] # None => OpenNow(request'[u], person', row', proposal', crossed')
<1>1. crossed' \in BOOLEAN /\ (~crossed' => ~crossed /\ J!Open = {})
  BY Zenon DEF JoinInv
<1>2. \A u \in Requests : request[u] # None => PageAsked(request[u], row) /\ u \in J!Open
  BY DEF JoinInv, OpenNow, J!Open
<1>3. \A o : PageAsked(o, row) => PageAsked(o, row')
  BY DEF PageAsked
<1>4. ASSUME NEW u \in Requests, request'[u] # None
      PROVE  OpenNow(request'[u], person', row', proposal', crossed')
  <2>1. PageAsked(request'[u], row') /\ crossed'
    BY <1>1, <1>2, <1>3, <1>4
  <2>. QED BY <2>1 DEF OpenNow
<1>5. request' = [u \in Requests |-> request'[u]]
  BY DEF JoinInv
<1>6. \A u \in Requests : request'[u] # None => OpenNow(request'[u], person', row', proposal', crossed')
  BY <1>4
<1>. QED BY <1>1, <1>5, <1>6

LEMMA ActivateKeeps == ASSUME JoinInv, J!Activate PROVE JoinInv'
<1>1. /\ person' = [person EXCEPT !.state = "active"] /\ crossed' = (crossed \/ J!Open # {})
      /\ row' = row /\ proposal' = proposal /\ request' = request
  BY DEF J!Activate
<1>2. person' \in Profiles /\ person'.state = "active"
  BY <1>1 DEF JoinInv, Profiles, J!States
<1>3. row' \in Seq(J!Rows) /\ Len(row') = Len(row)
  BY <1>1 DEF JoinInv
<1>4. /\ crossed' \in BOOLEAN /\ (~crossed' => ~crossed) /\ request' = [u \in Requests |-> request'[u]]
      /\ \A u \in Requests : request'[u] # None => OpenNow(request'[u], person', row', proposal', crossed')
  BY <1>1, <1>2, <1>3, StaffWrite
<1>5. J!RankedKeeps' /\ J!PagesSubmit'
  BY <1>1, <1>2 DEF JoinInv, J!RankedKeeps, J!PagesSubmit
<1>. QED BY <1>1, <1>2, <1>4, <1>5 DEF JoinInv

LEMMA BookKeeps == ASSUME JoinInv, NEW i \in DOMAIN row, J!Book(i) PROVE JoinInv'
<1>1. PICK state : state = IF row[i].state = "open" THEN "booked" ELSE "open"
  OBVIOUS
<1>2. PICK new : new = [row[i] EXCEPT !.state = state]
  OBVIOUS
<1>3. /\ row' = [row EXCEPT ![i] = new] /\ crossed' = (crossed \/ J!Open # {})
      /\ person' = person /\ proposal' = proposal /\ request' = request
  BY <1>1, <1>2 DEF J!Book
<1>4. row \in Seq(J!Rows) /\ row[i] \in J!Rows
  BY ADay DEF JoinInv
<1>5. state \in {"open", "booked"}
  BY <1>1
<1>6. new \in J!Rows /\ new.day = row[i].day /\ new.place = row[i].place
  BY <1>2, <1>4, <1>5 DEF J!Rows
<1>7. PICK rows : rows = row'
  OBVIOUS
<1>8. /\ rows \in Seq(J!Rows) /\ Len(rows) = Len(row) /\ DOMAIN rows = DOMAIN row
      /\ rows[i] = new /\ \A j \in DOMAIN row : j # i => rows[j] = row[j]
  BY <1>3, <1>4, <1>6, <1>7, RowOver
<1>9. Distinct(row) => Distinct(rows)
  BY <1>3, <1>4, <1>6, <1>7, SameDay
<1>10. person.state = "active"
  BY DEF J!Book, J!Referenced, JoinInv
<1>11. /\ crossed' \in BOOLEAN /\ (~crossed' => ~crossed) /\ request' = [u \in Requests |-> request'[u]]
       /\ \A u \in Requests : request'[u] # None => OpenNow(request'[u], person', row', proposal', crossed')
  BY <1>3, <1>7, <1>8, <1>10, StaffWrite
<1>12. \A j \in DOMAIN row : J!Terms(rows[j]) = J!Terms(row[j])
  BY <1>6, <1>8 DEF J!Terms
<1>13. J!RankedKeeps'
  <2>1. ASSUME NEW p \in proposal, ~p.crossed PROVE J!Terms(rows[p.row]) = p.terms
    BY <1>12, <2>1 DEF JoinInv, J!RankedKeeps
  <2>. QED BY <1>3, <1>7, <2>1 DEF J!RankedKeeps
<1>14. J!PagesSubmit'
  BY <1>3, <1>10 DEF J!PagesSubmit
<1>15. Len(rows) <= MaxRows
  BY <1>8 DEF JoinInv
<1>. QED BY <1>3, <1>7, <1>8, <1>9, <1>11, <1>13, <1>14, <1>15 DEF JoinInv

LEMMA JoinSteps == ASSUME JoinInv, [J!Next]_pages PROVE JoinInv'
<1>1. CASE J!Next
  BY <1>1, BeginsKeep, NameKeeps, SkillsKeeps, WhereKeeps, WhenKeeps, HowKeeps, RankKeeps, ActivateKeeps, BookKeeps
  DEF J!Next
<1>2. CASE UNCHANGED pages
  <2>1. person' = person /\ row' = row /\ proposal' = proposal /\ request' = request /\ crossed' = crossed
    BY <1>2 DEF pages
  <2>2. J!RankedKeeps' /\ J!PagesSubmit'
    BY <2>1 DEF JoinInv, J!RankedKeeps, J!PagesSubmit
  <2>. QED BY <2>1, <2>2 DEF JoinInv
<1>. QED BY <1>1, <1>2

LEMMA JoinHolds == JoinInv => J!TypeOK /\ J!RankedKeeps /\ J!PagesSubmit /\ J!FreeOnce
<1>. SUFFICES ASSUME JoinInv PROVE J!TypeOK /\ J!RankedKeeps /\ J!PagesSubmit /\ J!FreeOnce
  OBVIOUS
<1>1. \A p \in proposal : p.row \in DOMAIN row /\ p.terms \in DaysSaid \X J!Places /\ p.crossed \in BOOLEAN
  BY DEF JoinInv, RankedOn
<1>2. \A q \in Requests : request[q] # None => request[q].page \in {"name", "where", "skills", "when", "how", "rank"}
  BY DEF JoinInv, OpenNow, PageAsked
<1>3. J!TypeOK
  BY <1>1, <1>2 DEF JoinInv, Profiles, J!TypeOK
<1>. QED BY <1>3 DEF JoinInv, J!FreeOnce, Distinct

-----------------------------------------------------------------------------
\* Where somebody lands.  Two redirects at most: after one, the page is shown unless it makes a side or asks
\* for a name; after those it is.  Nobody of the staff has a side, and who told everything is a worker.
Ours(a) == /\ a \in R!Accounts /\ (a.who = "staff" => a.sides = {} /\ a.mobile # "proven")
           /\ a.told => "ki" \in a.sides
Soon == R!Rests \/ at \in {"/join", "/business/name"}
LandingInv ==
    /\ Ours(account) /\ last \in {None} \cup R!ROLES /\ at \in R!Pages /\ start \in R!Pages \cup {"signed_in"}
    /\ opens \in 0..MaxOpens /\ hops \in 0..2
    /\ (hops = 1 => Soon) /\ (hops = 2 => R!Rests)
    /\ R!AskedFirst /\ R!BackOffice

LEMMA TwoSides ==
    /\ \A few \in SUBSET R!ROLES : few = {} \/ few = {"ki"} \/ few = {"ku"} \/ few = R!ROLES
    /\ R!Cardinality({}) = 0 /\ R!Cardinality({"ki"}) = 1 /\ R!Cardinality({"ku"}) = 1
    /\ R!Cardinality(R!ROLES) = 2 /\ R!ROLES = {"ki", "ku"}
<1>1. R!ROLES = {"ki", "ku"} /\ "ki" # "ku"
  BY DEF R!ROLES
<1>2. \A few : R!Cardinality(few) = Cardinality(few)
  BY DEF R!Cardinality, Cardinality
<1>3. Cardinality({}) = 0
  BY FS_EmptySet
<1>4. Cardinality({"ki"}) = 1 /\ Cardinality({"ku"}) = 1
  BY FS_Singleton
<1>5. Cardinality({"ki", "ku"}) = 2
  <2>1. IsFiniteSet({"ki"}) /\ "ku" \notin {"ki"} /\ {"ki", "ku"} = {"ki"} \cup {"ku"}
    BY FS_Singleton
  <2>. QED BY <1>4, <2>1, FS_AddElement
<1>6. \A few \in SUBSET R!ROLES : few = {} \/ few = {"ki"} \/ few = {"ku"} \/ few = R!ROLES
  BY <1>1
<1>. QED BY <1>1, <1>2, <1>3, <1>4, <1>5, <1>6

\* The page of who holds these sides.
LEMMA HomeIs ==
    ASSUME NEW a \in R!Accounts, last \in {None} \cup R!ROLES
    PROVE  /\ R!Sides(a) = {} => R!HomeFor(a) = None
           /\ R!Sides(a) # {} => R!HomeFor(a) # None
           /\ R!HomeFor(a) \in {None, "/me", "/business", "/my"}
           /\ R!HomeFor(a) = "/me" => "ki" \in R!Sides(a)
           /\ R!HomeFor(a) = "/business" => "ku" \in R!Sides(a)
           /\ R!HomeFor(a) = "/my" => R!Sides(a) = R!ROLES /\ last \notin R!ROLES
           /\ R!Sides(a) \subseteq a.sides /\ R!Sides(a) \in SUBSET R!ROLES
<1>. USE LandingAssumption
<1>1. R!Sides(a) \subseteq a.sides /\ R!Sides(a) \in SUBSET R!ROLES
  BY DEF R!Sides, R!Accounts
<1>2. R!SIDE_HOME["ki"] = "/me" /\ R!SIDE_HOME["ku"] = "/business" /\ R!CHOOSE_PAGE = "/my"
  BY DEF R!SIDE_HOME, R!CHOOSE_PAGE
<1>3. None \notin {"/me", "/business", "/my"}
  BY DEF R!Pages, R!Own
<1>4. CASE R!Sides(a) = {}
  BY <1>1, <1>3, <1>4 DEF R!HomeFor
<1>5. CASE R!Sides(a) = {"ki"}
  <2>1. R!HomeFor(a) = R!SIDE_HOME["ki"]
    BY <1>5, TwoSides DEF R!HomeFor
  <2>. QED BY <1>1, <1>2, <1>3, <1>5, <2>1
<1>6. CASE R!Sides(a) = {"ku"}
  <2>1. R!HomeFor(a) = R!SIDE_HOME["ku"]
    BY <1>6, TwoSides DEF R!HomeFor
  <2>. QED BY <1>1, <1>2, <1>3, <1>6, <2>1
<1>7. CASE R!Sides(a) = R!ROLES
  <2>1. R!HomeFor(a) = IF last \in R!ROLES THEN R!SIDE_HOME[last] ELSE "/my"
    BY <1>2, <1>7, TwoSides DEF R!HomeFor
  <2>2. last \in R!ROLES => last = "ki" \/ last = "ku"
    BY DEF R!ROLES
  <2>. QED BY <1>1, <1>2, <1>3, <1>7, <2>1, <2>2, TwoSides
<1>. QED BY <1>1, <1>4, <1>5, <1>6, <1>7, TwoSides

\* Pages that are shown to who comes.
LEMMA Shown ==
    /\ at' \in {"/odoo", "/#ikiku-doors", "/join/questions", "/"} => R!Rests'
    /\ at' = "/me" /\ "ki" \in account'.sides => R!Rests'
    /\ at' = "/business" /\ "ku" \in account'.sides => R!Rests'
    /\ at' = "/enter" /\ account'.mobile # "proven" => R!Rests'
    /\ at' = "/business/name" /\ account'.who # "staff" => R!Rests'
<1>1. at' \in {"/odoo", "/#ikiku-doors", "/join/questions", "/"} => R!Rests'
  BY DEF R!Rests, R!Answer
<1>2. at' = "/me" /\ "ki" \in account'.sides => R!Rests'
  BY DEF R!Rests, R!Answer
<1>3. at' = "/business" /\ "ku" \in account'.sides => R!Rests'
  BY DEF R!Rests, R!Answer
<1>4. at' = "/enter" /\ account'.mobile # "proven" => R!Rests'
  BY DEF R!Rests, R!Answer, R!Enter
<1>5. at' = "/business/name" /\ account'.who # "staff" => R!Rests'
  BY DEF R!Rests, R!Answer, R!OfTheirs
<1>. QED BY <1>1, <1>2, <1>3, <1>4, <1>5

LEMMA ShownAsked ==
    /\ at' = "/my" /\ R!Sides(account)' = R!ROLES /\ last' \notin R!ROLES => R!Rests'
    /\ at' = "/ki" /\ account'.who = "portal" /\ "ki" \notin R!Sides(account)' /\ R!Sides(account)' # {} => R!Rests'
    /\ at' = "/ku" /\ account'.who = "portal" /\ "ku" \notin R!Sides(account)' /\ R!Sides(account)' # {} => R!Rests'
<1>1. at' = "/my" /\ R!Sides(account)' = R!ROLES /\ last' \notin R!ROLES => R!Rests'
  BY DEF R!Rests, R!Answer, R!Home
<1>2. at' = "/ki" /\ account'.who = "portal" /\ "ki" \notin R!Sides(account)' /\ R!Sides(account)' # {} => R!Rests'
  BY DEF R!Rests, R!Answer, R!Door, R!DOOR
<1>3. at' = "/ku" /\ account'.who = "portal" /\ "ku" \notin R!Sides(account)' /\ R!Sides(account)' # {} => R!Rests'
  BY DEF R!Rests, R!Answer, R!Door, R!DOOR
<1>. QED BY <1>1, <1>2, <1>3

LEMMA LandingStarts == R!Init => LandingInv
<1>. SUFFICES ASSUME R!Init PROVE LandingInv
  OBVIOUS
<1>. USE LandingAssumption
<1>1. Ours(account)
  <2>1. account \in R!Accounts
    BY DEF R!Init
  <2>2. account.who = "staff" => account.sides = {} /\ account.mobile # "proven"
    BY Zenon DEF R!Init
  <2>3. account.told => "ki" \in account.sides
    BY Zenon DEF R!Init
  <2>. QED BY <2>1, <2>2, <2>3 DEF Ours
<1>2. last = None /\ start = "/" /\ at = "/" /\ hops = 0 /\ opens = 0
  BY DEF R!Init
<1>3. "/" \in R!Pages
  BY DEF R!Pages, R!Doors
<1>. QED BY <1>1, <1>2, <1>3 DEF LandingInv, R!AskedFirst, R!BackOffice

\* What asking for a page does: only who asks to join gets a side, and only a side's page is remembered.
LEMMA AsksIs ==
    ASSUME NEW page \in R!Pages, NEW a, Ours(a), last \in {None} \cup R!ROLES, R!Asks(page, a)
    PROVE  /\ at' = page /\ Ours(account') /\ last' \in {None} \cup R!ROLES
           /\ account'.who = a.who /\ account'.mobile = a.mobile /\ a.sides \subseteq account'.sides
           /\ page # "/join" => account' = a
           /\ page \notin {"/me", "/business"} => last' = last
           /\ page = "/join" /\ R!Sides(a) = {} => "ku" \notin R!Sides(account')
<1>1. at' = page /\ account' = IF page = "/join" /\ a.who = "portal" THEN [a EXCEPT !.sides = @ \cup {"ki"}] ELSE a
  BY DEF R!Asks
<1>2. PICK b : b = [a EXCEPT !.sides = @ \cup {"ki"}]
  OBVIOUS
<1>3. a \in R!Accounts
  BY DEF Ours
<1>4. b \in R!Accounts /\ b.who = a.who /\ b.mobile = a.mobile /\ b.sides = a.sides \cup {"ki"} /\ b.told = a.told
  BY <1>2, <1>3 DEF R!Accounts, R!ROLES
<1>5. account' = IF page = "/join" /\ a.who = "portal" THEN b ELSE a
  BY <1>1, <1>2
<1>6. Ours(account') /\ account'.who = a.who /\ account'.mobile = a.mobile /\ a.sides \subseteq account'.sides
  <2>1. CASE account' = a
    BY <2>1
  <2>2. CASE account' = b /\ a.who = "portal"
    BY <1>4, <2>2 DEF Ours
  <2>. QED BY <1>5, <2>1, <2>2
<1>7. last' \in {None} \cup R!ROLES /\ (page \notin {"/me", "/business"} => last' = last)
  BY DEF R!Asks, R!ROLES
<1>8. page = "/join" /\ R!Sides(a) = {} => "ku" \notin R!Sides(account')
  <2>1. CASE account' = a
    BY <2>1
  <2>2. CASE account' = b /\ a.who = "portal"
    BY <1>4, <2>2 DEF R!Sides
  <2>. QED BY <1>5, <2>1, <2>2
<1>. QED BY <1>1, <1>5, <1>6, <1>7, <1>8

\* What starts anew is where it starts.
LEMMA LandsAnew ==
    ASSUME LandingInv, NEW page \in R!Pages, NEW a, Ours(a), R!Asks(page, a), NEW from \in R!Pages \cup {"signed_in"},
           R!Anew(from), page = "/join" /\ "ku" \in R!Sides(account') => from = "/join",
           page = "/odoo" => a.who # "portal"
    PROVE  LandingInv'
<1>1. opens' \in 0..MaxOpens /\ hops' = 0 /\ start' = from
  BY LandingAssumption DEF R!Anew, LandingInv
<1>2. /\ at' = page /\ Ours(account') /\ last' \in {None} \cup R!ROLES /\ account'.who = a.who
  BY AsksIs DEF LandingInv
<1>3. R!AskedFirst' /\ R!BackOffice'
  BY <1>1, <1>2 DEF R!AskedFirst, R!BackOffice, R!Sides
<1>. QED BY <1>1, <1>2, <1>3 DEF LandingInv

\* Pages that are shown to who is sent there.
Leads(page) ==
    \/ page = "/odoo" /\ account.who = "staff"
    \/ page = "/me" /\ "ki" \in account.sides
    \/ page = "/business" /\ "ku" \in account.sides
    \/ page = "/my" /\ R!Sides(account) = R!ROLES /\ last \notin R!ROLES
    \/ page = "/ki" /\ account.who = "portal" /\ "ki" \notin R!Sides(account) /\ R!Sides(account) # {}
    \/ page = "/ku" /\ account.who = "portal" /\ "ku" \notin R!Sides(account) /\ R!Sides(account) # {}
    \/ page = "/enter" /\ account.mobile # "proven"
    \/ page \in {"/#ikiku-doors", "/join/questions"}
LEMMA PagesThere ==
    {"/", "/#ikiku-doors", "/ki", "/ku", "/enter", "/enter?as=ki", "/enter?as=ku", "/my", "/my/account", "/me", "/business",
     "/business/name", "/join", "/odoo", "/join/questions"} = R!Pages
  BY DEF R!Pages, R!Doors, R!Own

LEMMA LeadsThere ==
    ASSUME LandingInv, NEW page, Leads(page), R!Asks(page, account)
    PROVE  R!Rests' /\ page # "/join" /\ (page = "/odoo" => account.who # "portal") /\ page \in R!Pages
<1>1. page \in R!Pages /\ page # "/join"
  BY PagesThere DEF Leads
<1>2. at' = page /\ account' = account /\ (page \notin {"/me", "/business"} => last' = last)
  BY <1>1, AsksIs DEF LandingInv
<1>3. R!Sides(account)' = R!Sides(account)
  BY <1>2 DEF R!Sides
<1>4. R!Rests'
  BY <1>2, <1>3, Shown, ShownAsked DEF Leads
<1>. QED BY <1>1, <1>4 DEF Leads

\* A page that sends on to another.
LEMMA SendsOn ==
    ASSUME LandingInv, ~R!Rests, NEW page, page = R!Answer(at)
    PROVE  \/ Leads(page)
           \/ at \notin {"/join", "/business/name"} /\ page = "/join" /\ R!Sides(account) = {}
           \/ at \notin {"/join", "/business/name"} /\ page = "/business/name"
<1>. DEFINE home == R!HomeFor(account)
            holds == R!Sides(account)
<1>1. page # at /\ account \in R!Accounts /\ Ours(account) /\ last \in {None} \cup R!ROLES
  BY DEF R!Rests, LandingInv, Ours
<1>2. /\ holds = {} => home = None
      /\ holds # {} => home # None
      /\ home \in {None, "/me", "/business", "/my"}
      /\ home = "/me" => "ki" \in holds
      /\ home = "/business" => "ku" \in holds
      /\ home = "/my" => holds = R!ROLES /\ last \notin R!ROLES
      /\ holds \subseteq account.sides /\ holds \in SUBSET R!ROLES
  BY <1>1, HomeIs
<1>3. account.who \in {"public", "portal", "staff"} /\ account.sides \subseteq {"ki", "ku"}
      /\ (account.who = "portal" => holds = account.sides) /\ (account.who # "portal" => holds = {})
  BY <1>1 DEF R!Accounts, R!ROLES, R!Sides
<1>4. home # None => Leads(home)
  BY <1>2 DEF Leads
<1>. HIDE DEF home, holds
<1>5. CASE at \in {"/", "/#ikiku-doors", "/odoo", "/join/questions"}
  BY <1>1, <1>5 DEF R!Answer
<1>6. CASE at = "/ki"
  <2>1. page = R!Door("ki")
    BY <1>6 DEF R!Answer
  <2>. QED BY <1>1, <1>2, <1>3, <1>6, <2>1 DEF R!Door, R!DOOR, R!SIDE_HOME, R!SIDE_START, Leads, holds
<1>7. CASE at = "/ku"
  <2>1. page = R!Door("ku")
    BY <1>7 DEF R!Answer
  <2>. QED BY <1>1, <1>2, <1>3, <1>7, <2>1 DEF R!Door, R!DOOR, R!SIDE_HOME, R!SIDE_START, Leads, holds
<1>8. CASE at = "/enter"
  <2>1. page = R!Enter("/enter", None)
    BY <1>8 DEF R!Answer
  <2>2. page = R!Or(home, "/join")
    BY <1>1, <1>8, <2>1 DEF R!Enter, R!NextPage, home
  <2>. QED BY <1>2, <1>4, <1>8, <2>2 DEF R!Or, holds
<1>9. CASE at = "/my"
  <2>1. page = R!Home
    BY <1>9 DEF R!Answer
  <2>2. (page = home /\ home # None) \/ page = "/#ikiku-doors"
    BY <1>1, <1>9, <2>1 DEF R!Home, home
  <2>. QED BY <1>4, <2>2 DEF Leads
<1>10. CASE at = "/my/account"
  <2>1. page = R!Or(home, "/my/account")
    BY <1>10 DEF R!Answer, home
  <2>. QED BY <1>1, <1>4, <1>10, <2>1 DEF R!Or
<1>11. CASE at = "/me"
  <2>1. page = IF "ki" \in account.sides THEN "/me" ELSE IF "ku" \in account.sides THEN "/business" ELSE "/join"
    BY <1>11 DEF R!Answer
  <2>2. "ki" \notin account.sides /\ "ku" \notin account.sides => holds = {}
    BY <1>2, <1>3
  <2>. QED BY <1>1, <1>11, <2>1, <2>2 DEF Leads, holds
<1>12. CASE at = "/business"
  BY <1>1, <1>12 DEF R!Answer
<1>13. CASE at = "/business/name"
  BY <1>1, <1>13 DEF R!Answer, R!OfTheirs, Leads
<1>14. CASE at = "/join"
  <2>1. page = R!OfTheirs(IF account.mobile = "proven" THEN R!Worker ELSE "/enter")
    BY <1>14 DEF R!Answer
  <2>2. R!Worker = "/join/questions" \/ (R!Worker = "/me" /\ "ki" \in account.sides)
    <3>1. account.told => "ki" \in account.sides
      BY <1>1, Zenon DEF Ours
    <3>. QED BY <3>1 DEF R!Worker
  <2>. QED BY <2>1, <2>2 DEF R!OfTheirs, Leads
<1>15. CASE at = "/enter?as=ki"
  <2>1. page = R!Enter("/enter?as=ki", "ki")
    BY <1>15 DEF R!Answer
  <2>2. page = R!NextPage(account, "ki") /\ account.who = "portal"
    BY <1>1, <1>3, <1>15, <2>1 DEF R!Enter, Ours
  <2>3. "ki" # None
    BY LandingAssumption DEF R!ROLES
  <2>. QED BY <1>2, <1>3, <1>15, <2>2, <2>3 DEF R!NextPage, R!SIDE_HOME, R!SIDE_START, R!DOOR, Leads, holds
<1>16. CASE at = "/enter?as=ku"
  <2>1. page = R!Enter("/enter?as=ku", "ku")
    BY <1>16 DEF R!Answer
  <2>2. page = R!NextPage(account, "ku") /\ account.who = "portal"
    BY <1>1, <1>3, <1>16, <2>1 DEF R!Enter, Ours
  <2>3. "ku" # None
    BY LandingAssumption DEF R!ROLES
  <2>. QED BY <1>2, <1>3, <1>16, <2>2, <2>3 DEF R!NextPage, R!SIDE_HOME, R!SIDE_START, R!DOOR, Leads, holds
<1>17. at \in R!Pages
  BY DEF LandingInv
<1>. QED BY <1>5, <1>6, <1>7, <1>8, <1>9, <1>10, <1>11, <1>12, <1>13, <1>14, <1>15, <1>16, <1>17, PagesThere

LEMMA Followed == ASSUME LandingInv, R!Follow PROVE LandingInv'
<1>1. PICK page : page = R!Answer(at)
  OBVIOUS
<1>2. ~R!Rests /\ R!Asks(page, account) /\ hops' = hops + 1 /\ start' = start /\ opens' = opens
  BY <1>1 DEF R!Follow
<1>3. Ours(account) /\ hops \in 0..2 /\ hops # 2 /\ (hops = 1 => at \in {"/join", "/business/name"})
  BY <1>2 DEF LandingInv, Soon
<1>4. hops' \in 0..2 /\ (hops' = 2 => at \in {"/join", "/business/name"}) /\ hops' # 0
  BY <1>2, <1>3
<1>5. start' \in R!Pages \cup {"signed_in"} /\ opens' \in 0..MaxOpens
  BY <1>2 DEF LandingInv
<1>6. CASE Leads(page)
  <2>1. R!Rests' /\ page # "/join" /\ (page = "/odoo" => account.who # "portal") /\ page \in R!Pages
    BY <1>2, <1>6, LeadsThere
  <2>2. at' = page /\ Ours(account') /\ last' \in {None} \cup R!ROLES /\ account'.who = account.who
    BY <1>2, <1>3, <2>1, AsksIs DEF LandingInv
  <2>3. R!AskedFirst' /\ R!BackOffice'
    BY <2>1, <2>2 DEF R!AskedFirst, R!BackOffice
  <2>. QED BY <1>4, <1>5, <2>1, <2>2, <2>3 DEF LandingInv, Soon
<1>7. CASE /\ (page = "/join" /\ R!Sides(account) = {}) \/ page = "/business/name"
           /\ at \notin {"/join", "/business/name"}
  <2>1. page \in R!Pages /\ page # "/odoo"
    BY <1>7, PagesThere
  <2>2. at' = page /\ Ours(account') /\ last' \in {None} \cup R!ROLES
        /\ (page = "/join" => "ku" \notin R!Sides(account'))
    BY <1>2, <1>3, <1>7, <2>1, AsksIs DEF LandingInv
  <2>3. R!AskedFirst' /\ R!BackOffice' /\ Soon' /\ hops' # 2
    BY <1>4, <1>7, <2>1, <2>2 DEF R!AskedFirst, R!BackOffice, Soon, R!Sides
  <2>. QED BY <1>4, <1>5, <2>1, <2>2, <2>3 DEF LandingInv
<1>. QED BY <1>1, <1>2, <1>6, <1>7, SendsOn

LEMMA OpensKeep == ASSUME LandingInv, NEW page \in R!Doors \cup R!Own, R!Opens(page) PROVE LandingInv'
<1>1. page \in R!Pages /\ page # "/odoo" /\ Ours(account)
  BY DEF R!Pages, R!Doors, R!Own, LandingInv
<1>2. R!Anew(page) /\ R!Asks(page, account)
  BY DEF R!Opens
<1>. QED BY <1>1, <1>2, LandsAnew

LEMMA ProvesKeep == ASSUME LandingInv, R!Proves PROVE LandingInv'
<1>. USE LandingAssumption
<1>1. PICK a : a = [account EXCEPT !.mobile = "proven"]
  OBVIOUS
<1>2. PICK page : page = R!Or(R!HomeFor(account), "/join")
  OBVIOUS
<1>3. R!Anew("signed_in") /\ account.who = "portal" /\ R!Asks(page, a)
  BY <1>1, <1>2 DEF R!Proves
<1>4. account \in R!Accounts /\ (account.told => "ki" \in account.sides) /\ last \in {None} \cup R!ROLES
  BY Zenon DEF LandingInv, Ours
<1>5. a \in R!Accounts /\ a.who = "portal" /\ a.sides = account.sides /\ a.told = account.told
  BY <1>1, <1>3, <1>4 DEF R!Accounts
<1>6. Ours(a)
  BY <1>4, <1>5 DEF Ours
<1>7. page \in {"/join", "/me", "/business", "/my"} /\ (page = "/join" => R!Sides(account) = {})
  BY <1>2, <1>4, HomeIs DEF R!Or
<1>8. page \in R!Pages /\ page # "/odoo"
  BY <1>7, PagesThere
<1>9. R!Sides(account) = R!Sides(a)
  BY <1>3, <1>5 DEF R!Sides
<1>10. page = "/join" => "ku" \notin R!Sides(account')
  BY <1>3, <1>4, <1>6, <1>7, <1>8, <1>9, AsksIs
<1>. QED BY <1>3, <1>6, <1>8, <1>10, LandsAnew

LEMMA NamesKeep == ASSUME LandingInv, R!Names PROVE LandingInv'
<1>1. PICK a : a = [account EXCEPT !.sides = @ \cup {"ku"}]
  OBVIOUS
<1>2. R!Anew("/business/name") /\ account.who = "portal" /\ R!Asks("/business", a)
  BY <1>1 DEF R!Names
<1>3. account \in R!Accounts /\ (account.told => "ki" \in account.sides)
  BY Zenon DEF LandingInv, Ours
<1>4. a \in R!Accounts /\ a.who = "portal" /\ a.sides = account.sides \cup {"ku"} /\ a.told = account.told
  BY <1>1, <1>2, <1>3 DEF R!Accounts, R!ROLES
<1>5. Ours(a)
  BY <1>3, <1>4 DEF Ours
<1>6. "/business" \in R!Pages /\ "/business/name" \in R!Pages
  BY PagesThere
<1>. QED BY <1>2, <1>5, <1>6, LandsAnew

LEMMA TellsKeep == ASSUME LandingInv, R!Tells PROVE LandingInv'
<1>1. PICK a : a = [account EXCEPT !.told = TRUE]
  OBVIOUS
<1>2. R!Anew("/me") /\ "ki" \in account.sides /\ R!Asks("/me", a)
  BY <1>1 DEF R!Tells
<1>3. account \in R!Accounts /\ (account.who = "staff" => account.sides = {} /\ account.mobile # "proven")
  BY DEF LandingInv, Ours
<1>4. a \in R!Accounts /\ a.who = account.who /\ a.sides = account.sides /\ a.mobile = account.mobile
  BY <1>1, <1>2, <1>3 DEF R!Accounts
<1>5. Ours(a)
  BY <1>2, <1>3, <1>4 DEF Ours
<1>6. "/me" \in R!Pages
  BY PagesThere
<1>. QED BY <1>2, <1>5, <1>6, LandsAnew

\* Where somebody is sent after signing in: somewhere of theirs, or where they were going.
LEMMA SentAfter ==
    ASSUME NEW a \in R!Accounts, last \in {None} \cup R!ROLES, NEW role \in {None} \cup R!ROLES,
           NEW fromLogin \in BOOLEAN, NEW url \in {None, "/", "/my", "/me", "/odoo", "/join", R!Elsewhere},
           NEW page, page = R!AfterSignIn(a, role, fromLogin, url)
    PROVE  /\ page \in R!Pages
           /\ page = "/join" /\ "ku" \in R!Sides(a) => url = page
           /\ page = "/odoo" => a.who # "portal"
<1>. USE LandingAssumption
<1>1. PICK wanted : wanted = R!Safe(url)
  OBVIOUS
<1>2. PICK next : next = R!NextPage(a, role)
  OBVIOUS
<1>3. /\ next \in {"/join", "/me", "/business", "/my", "/ki", "/ku", "/business/name"}
      /\ next = "/join" => "ku" \notin R!Sides(a)
  <2>1. CASE role = None
    <3>1. next = R!Or(R!HomeFor(a), "/join")
      BY <1>2, <2>1 DEF R!NextPage
    <3>. QED BY <3>1, HomeIs DEF R!Or
  <2>2. CASE role = "ki"
    <3>1. role # None
      BY <2>2 DEF R!ROLES
    <3>. QED BY <1>2, <2>2, <3>1 DEF R!NextPage, R!SIDE_HOME, R!DOOR, R!SIDE_START
  <2>3. CASE role = "ku"
    <3>1. role # None
      BY <2>3 DEF R!ROLES
    <3>. QED BY <1>2, <2>3, <3>1 DEF R!NextPage, R!SIDE_HOME, R!DOOR, R!SIDE_START
  <2>. QED BY <2>1, <2>2, <2>3 DEF R!ROLES
<1>4. wanted \in {None, "/", "/my", "/me", "/odoo", "/join"} /\ (wanted # None => wanted = url)
  BY <1>1 DEF R!Safe, R!Elsewhere
<1>5. \/ page = wanted /\ wanted \notin {None, "/", "/my"} /\ ~(a.who = "portal" /\ wanted = "/odoo")
      \/ page = "/#ikiku-doors" \/ page = next
  BY <1>1, <1>2 DEF R!AfterSignIn, R!CHOOSE_PAGE
<1>. QED BY <1>3, <1>4, <1>5, PagesThere

LEMMA SignsInKeep ==
    ASSUME LandingInv, NEW role \in {None} \cup R!ROLES, NEW fromLogin \in BOOLEAN,
           NEW url \in {None, "/", "/my", "/me", "/odoo", "/join", R!Elsewhere}, R!SignsIn(role, fromLogin, url)
    PROVE  LandingInv'
<1>1. PICK a : a = [account EXCEPT !.who = "portal", !.mobile = "proven"]
  OBVIOUS
<1>2. PICK page : page = R!AfterSignIn(a, role, fromLogin, url)
  OBVIOUS
<1>3. PICK from : from = IF url = page THEN url ELSE "signed_in"
  OBVIOUS
<1>4. R!Anew(from) /\ R!Asks(page, a)
  BY <1>1, <1>2, <1>3 DEF R!SignsIn
<1>5. account \in R!Accounts /\ (account.told => "ki" \in account.sides) /\ last \in {None} \cup R!ROLES
  BY Zenon DEF LandingInv, Ours
<1>6. a \in R!Accounts /\ a.who = "portal" /\ a.sides = account.sides /\ a.told = account.told
  BY <1>1, <1>5 DEF R!Accounts
<1>7. Ours(a)
  BY <1>5, <1>6 DEF Ours
<1>8. /\ page \in R!Pages
      /\ page = "/join" /\ "ku" \in R!Sides(a) => url = page
      /\ page = "/odoo" => a.who # "portal"
  BY <1>2, <1>5, <1>6, SentAfter
<1>9. page = "/join" /\ "ku" \in R!Sides(account') => url = page
  <2>1. /\ account'.who = a.who
        /\ page = "/join" /\ R!Sides(a) = {} => "ku" \notin R!Sides(account')
    BY <1>4, <1>5, <1>7, <1>8, AsksIs
  <2>2. page = "/join" /\ "ku" \in R!Sides(account') => "ku" \in R!Sides(a)
    <3>1. account' = IF page = "/join" /\ a.who = "portal" THEN [a EXCEPT !.sides = @ \cup {"ki"}] ELSE a
      BY <1>4 DEF R!Asks
    <3>2. PICK b : b = [a EXCEPT !.sides = @ \cup {"ki"}]
      OBVIOUS
    <3>3. b.sides = a.sides \cup {"ki"} /\ b.who = a.who
      BY <1>6, <3>2 DEF R!Accounts
    <3>. QED BY <3>1, <3>2, <3>3, <1>6 DEF R!Sides
  <2>. QED BY <1>8, <2>2
<1>10. from \in R!Pages \cup {"signed_in"} /\ (url = page => from = page)
  BY <1>3, <1>8
<1>. QED BY <1>4, <1>7, <1>8, <1>9, <1>10, LandsAnew

LEMMA LosesKeep == ASSUME LandingInv, NEW side \in R!ROLES, R!Loses(side) PROVE LandingInv'
<1>1. account \in R!Accounts /\ (account.who = "staff" => account.sides = {} /\ account.mobile # "proven")
  BY DEF LandingInv, Ours
<1>2. account.told => "ki" \in account.sides
  BY Zenon DEF LandingInv, Ours
<1>3. account' = [account EXCEPT !.sides = @ \ {side}, !.told = @ /\ side # "ki"]
  BY DEF R!Loses
<1>4. PICK kept : kept = (account.told /\ side # "ki")
  OBVIOUS
<1>5. account.told \in BOOLEAN /\ kept \in BOOLEAN
  BY <1>1, <1>4 DEF R!Accounts
<1>6. account' \in R!Accounts /\ account'.who = account.who /\ account'.mobile = account.mobile
      /\ account'.sides = account.sides \ {side} /\ account'.told = kept
  BY <1>1, <1>3, <1>4, <1>5 DEF R!Accounts
<1>7. kept => account.told /\ side # "ki"
  BY <1>4
<1>8. Ours(account')
  BY <1>1, <1>2, <1>6, <1>7 DEF Ours
<1>9. at' = "/" /\ start' = "/" /\ hops' = 0 /\ last' = last /\ opens' = opens
  BY DEF R!Loses
<1>10. "/" \in R!Pages
  BY PagesThere
<1>. QED BY <1>8, <1>9, <1>10 DEF LandingInv, R!AskedFirst, R!BackOffice

LEMMA LandingSteps == ASSUME LandingInv, [R!Next]_landing PROVE LandingInv'
<1>1. CASE R!Next
  BY <1>1, Followed, OpensKeep, ProvesKeep, NamesKeep, TellsKeep, SignsInKeep, LosesKeep DEF R!Next
<1>2. CASE UNCHANGED landing
  <2>1. account' = account /\ last' = last /\ start' = start /\ at' = at /\ hops' = hops /\ opens' = opens
    BY <1>2 DEF landing
  <2>2. Soon' = Soon /\ R!Rests' = R!Rests /\ R!AskedFirst' = R!AskedFirst /\ R!BackOffice' = R!BackOffice
    BY <2>1 DEF Soon, R!Rests, R!Answer, R!Door, R!Enter, R!NextPage, R!HomeFor, R!Home, R!AskedFirst, R!BackOffice
  <2>. QED BY <2>1, <2>2 DEF LandingInv
<1>. QED BY <1>1, <1>2

LEMMA LandingHolds == LandingInv => R!TypeOK /\ R!Settles /\ R!AskedFirst /\ R!BackOffice
  BY LandingAssumption DEF LandingInv, Ours, R!TypeOK, R!Settles

-----------------------------------------------------------------------------
\* The sum of a count is the one of `Adds'.
Total(f) == N!SumFunction(f)
LEMMA TotalIs ==
    ASSUME NEW f, Summable(f, DOMAIN f)
    PROVE  \E sum : Adds(sum, f, DOMAIN f) /\ Total(f) = sum[DOMAIN f]
<1>. DEFINE sum == CHOOSE sum : Summed(sum, f, DOMAIN f)
<1>1. Adds(sum, f, DOMAIN f)
  BY SumsExist DEF Adds
<1>2. Total(f) = sum[DOMAIN f]
  BY DEF Total, N!SumFunction, N!SumFunctionOnSet, N!FoldFunctionOnSet, N!MapThenFoldSet, Summed, Taken
<1>. HIDE DEF sum
<1>. QED BY <1>1, <1>2

\* What people said.  What a request is to write is one row more, or the row it read and somebody said again
\* or staff set, which is still there as it was read unless the request is to be refused.
WordRows == [text : Phrases, occurrence : Nat \ {0}, state : N!States, node : BOOLEAN]
Heard(req, rows) ==
    /\ req \in [on : Nat, row : WordRows, staff : BOOLEAN, clean : BOOLEAN]
    /\ N!Creates(req) \/ req.on \in DOMAIN rows
    /\ req.clean /\ ~N!Creates(req) =>
          /\ req.row.text = rows[req.on].text
          /\ req.row.occurrence = rows[req.on].occurrence + (IF req.staff THEN 0 ELSE 1)
    /\ ~req.staff /\ req.row.state = "new" => req.row.occurrence < N!PROMOTION_THRESHOLD
Counts(rows, phrase) == [i \in DOMAIN rows |-> IF rows[i].text = phrase THEN rows[i].occurrence ELSE 0]
AllCount(rows, kept) == \A phrase \in Phrases : kept[phrase] = Total(Counts(rows, phrase))
Single(some) == \A i, j \in some : i = j
WordInv ==
    /\ candidate \in Seq(WordRows) /\ said \in [Phrases -> Nat] /\ handled \in Nat
    /\ reopened \subseteq DOMAIN candidate /\ apart \subseteq Phrases
    /\ hearing = [r \in Sayers |-> hearing[r]]
    /\ \A r \in Sayers : hearing[r] = None \/ Heard(hearing[r], candidate)
    /\ AllCount(candidate, said)
    /\ N!ThreeQueue
    /\ \A phrase \in Phrases \ apart : Single(N!Open(phrase))

LEMMA ARow ==
    ASSUME NEW rows \in Seq(WordRows)
    PROVE  /\ DOMAIN rows = 1..Len(rows) /\ Len(rows) \in Nat /\ IsFiniteSet(DOMAIN rows)
           /\ \A i \in DOMAIN rows : /\ rows[i] \in WordRows /\ rows[i].text \in Phrases /\ rows[i].occurrence \in Nat \ {0}
                                     /\ rows[i].state \in N!States /\ rows[i].node \in BOOLEAN
<1>1. DOMAIN rows = 1..Len(rows) /\ Len(rows) \in Nat
  OBVIOUS
<1>2. IsFiniteSet(1..Len(rows))
  BY <1>1, FS_Interval
<1>3. \A i \in DOMAIN rows : rows[i] \in WordRows
  OBVIOUS
<1>4. \A r \in WordRows : r.text \in Phrases /\ r.occurrence \in Nat \ {0} /\ r.state \in N!States /\ r.node \in BOOLEAN
  BY DEF WordRows
<1>. QED BY <1>1, <1>2, <1>3, <1>4

LEMMA CountsAdd ==
    ASSUME NEW rows \in Seq(WordRows), NEW phrase
    PROVE  /\ Summable(Counts(rows, phrase), DOMAIN rows) /\ DOMAIN Counts(rows, phrase) = DOMAIN rows
           /\ \A i \in DOMAIN rows : Counts(rows, phrase)[i] = IF rows[i].text = phrase THEN rows[i].occurrence ELSE 0
<1>1. \A i \in DOMAIN rows : Counts(rows, phrase)[i] = IF rows[i].text = phrase THEN rows[i].occurrence ELSE 0
  BY DEF Counts
<1>2. IsFiniteSet(DOMAIN rows) /\ \A i \in DOMAIN rows : rows[i].occurrence \in Nat \ {0}
  BY ARow
<1>3. \A i \in DOMAIN rows : Counts(rows, phrase)[i] \in Int
  BY <1>1, <1>2
<1>. QED BY <1>1, <1>2, <1>3 DEF Summable, Counts

\* One row, written or written over, is what the count of a text moves by.
LEMMA OneRow ==
    ASSUME NEW rows \in Seq(WordRows), NEW more \in Seq(WordRows), NEW phrase, NEW id \in DOMAIN more,
           DOMAIN more = DOMAIN rows \cup {id}, \A i \in DOMAIN rows \ {id} : more[i] = rows[i]
    PROVE  Total(Counts(more, phrase)) =
              Total(Counts(rows, phrase)) + Counts(more, phrase)[id]
                 - (IF id \in DOMAIN rows THEN Counts(rows, phrase)[id] ELSE 0)
<1>1. PICK f : f = Counts(rows, phrase)
  OBVIOUS
<1>2. PICK g : g = Counts(more, phrase)
  OBVIOUS
<1>3. /\ Summable(f, DOMAIN rows) /\ DOMAIN f = DOMAIN rows /\ Summable(g, DOMAIN more) /\ DOMAIN g = DOMAIN more
      /\ \A i \in DOMAIN rows \ {id} : f[i] = g[i]
  BY <1>1, <1>2, CountsAdd
<1>4. PICK sum : Adds(sum, f, DOMAIN rows) /\ Total(f) = sum[DOMAIN rows]
  BY <1>3, TotalIs
<1>5. PICK other : Adds(other, g, DOMAIN more) /\ Total(g) = other[DOMAIN more]
  BY <1>3, TotalIs
<1>6. PICK rest : rest = DOMAIN rows \ {id}
  OBVIOUS
<1>7. rest \subseteq DOMAIN rows /\ rest \subseteq DOMAIN more /\ rest = DOMAIN more \ {id}
  BY <1>6
<1>8. sum[rest] = other[rest]
  BY <1>3, <1>4, <1>5, <1>6, <1>7, SumsAgree
<1>9. Total(g) = g[id] + other[rest]
  <2>1. DOMAIN more \in SUBSET DOMAIN more /\ id \in DOMAIN more
    OBVIOUS
  <2>2. other[DOMAIN more] = g[id] + other[DOMAIN more \ {id}]
    BY <1>5, <2>1, SumsAre
  <2>. QED BY <1>5, <1>7, <2>2
<1>10. Total(f) = sum[rest] + (IF id \in DOMAIN rows THEN f[id] ELSE 0)
  <2>1. CASE id \in DOMAIN rows
    <3>1. Total(f) = f[id] + sum[rest]
      <4>1. PICK all : all = DOMAIN rows
        OBVIOUS
      <4>2. all \in SUBSET all /\ id \in all /\ Adds(sum, f, all)
        BY <1>4, <2>1, <4>1
      <4>3. sum[all] = f[id] + sum[all \ {id}]
        BY <4>2, SumsAre
      <4>. QED BY <1>4, <1>6, <4>1, <4>3
    <3>2. Steps(sum, f, DOMAIN rows) /\ f[id] \in Int
      BY <1>3, <1>4, <2>1, SumsStart DEF Summable
    <3>3. sum[rest] \in Int
      BY <1>7, <3>2 DEF Steps
    <3>. QED BY <2>1, <3>1, <3>2, <3>3
  <2>2. CASE id \notin DOMAIN rows
    <3>1. rest = DOMAIN rows
      BY <1>6, <2>2
    <3>2. Steps(sum, f, DOMAIN rows)
      BY <1>4, SumsStart
    <3>3. sum[rest] \in Int
      BY <1>7, <3>2 DEF Steps
    <3>. QED BY <1>4, <2>2, <3>1, <3>3
  <2>. QED BY <2>1, <2>2
<1>11. other[rest] \in Int /\ g[id] \in Int /\ (id \in DOMAIN rows => f[id] \in Int)
  <2>1. Steps(other, g, DOMAIN more)
    BY <1>5, SumsStart
  <2>. QED BY <1>3, <1>7, <2>1 DEF Steps, Summable
<1>. QED BY <1>1, <1>2, <1>8, <1>9, <1>10, <1>11

LEMMA WordsStart == N!Init => WordInv
<1>. SUFFICES ASSUME N!Init PROVE WordInv
  OBVIOUS
<1>1. candidate = <<>> /\ said = [phrase \in Phrases |-> 0] /\ handled = 0 /\ reopened = {} /\ apart = {}
      /\ hearing = [r \in Sayers |-> None]
  BY DEF N!Init
<1>2. candidate \in Seq(WordRows) /\ DOMAIN candidate = {}
  BY <1>1
<1>3. ASSUME NEW phrase \in Phrases PROVE said[phrase] = Total(Counts(candidate, phrase))
  <2>1. PICK f : f = Counts(candidate, phrase)
    OBVIOUS
  <2>2. Summable(f, DOMAIN f) /\ DOMAIN f = {}
    BY <1>2, <2>1, CountsAdd
  <2>3. PICK sum : Adds(sum, f, {}) /\ Total(f) = sum[{}]
    BY <2>2, TotalIs
  <2>4. Steps(sum, f, {})
    BY <2>3, SumsStart
  <2>. QED BY <1>1, <2>1, <2>3, <2>4 DEF Steps
<1>4. N!ThreeQueue
  BY <1>2 DEF N!ThreeQueue
<1>5. \A phrase \in Phrases : N!Open(phrase) = {}
  BY <1>2 DEF N!Open
<1>6. \A phrase \in Phrases \ apart : Single(N!Open(phrase))
  BY <1>5 DEF Single
<1>. HIDE DEF WordInv
<1>7. hearing = [r \in Sayers |-> hearing[r]] /\ \A r \in Sayers : hearing[r] = None
  BY <1>1
<1>. QED BY <1>1, <1>2, <1>3, <1>4, <1>6, <1>7 DEF WordInv, AllCount

\* The row that is said again is one that is open, with its text.
LEMMA ExistingIs ==
    ASSUME WordInv, NEW phrase \in Phrases, N!Open(phrase) # {}
    PROVE  N!Existing(phrase) \in N!Open(phrase)
<1>. DEFINE open == N!Open(phrase)
            occurs(i) == candidate[i].occurrence
            above == {p \in open \X open : occurs(p[2]) < occurs(p[1]) \/ (occurs(p[2]) = occurs(p[1]) /\ p[2] <= p[1])}
<1>1. /\ open \subseteq DOMAIN candidate /\ IsFiniteSet(DOMAIN candidate)
      /\ \A i \in DOMAIN candidate : i \in Nat /\ occurs(i) \in Nat
  BY ARow DEF WordInv, N!Open
<1>2. IsFiniteSet(open)
  BY <1>1, FS_Subset
<1>3. \A i, j \in open : <<i, j>> \in above <=> occurs(j) < occurs(i) \/ (occurs(j) = occurs(i) /\ j <= i)
  OBVIOUS
<1>4. \A i \in open : i \in Int /\ occurs(i) \in Int
  BY <1>1
<1>5. open # {}
  OBVIOUS
<1>. HIDE DEF open, above, occurs
<1>6. ASSUME NEW i \in open, NEW j \in open PROVE <<i, j>> \in above \/ <<j, i>> \in above
  <2>1. occurs(i) \in Int /\ occurs(j) \in Int /\ i \in Int /\ j \in Int
    BY <1>4
  <2>2. \A a, b, c, d \in Int : a < b \/ (a = b /\ c <= d) \/ b < a \/ (b = a /\ d <= c)
    OBVIOUS
  <2>3. \/ occurs(j) < occurs(i) \/ (occurs(j) = occurs(i) /\ j <= i)
        \/ occurs(i) < occurs(j) \/ (occurs(i) = occurs(j) /\ i <= j)
    BY <2>1, <2>2
  <2>. QED BY <1>3, <2>3
<1>7. \A i, j, k \in open : <<i, j>> \in above /\ <<j, k>> \in above => <<i, k>> \in above
  <2>. TAKE i, j, k \in open
  <2>1. /\ i \in Int /\ j \in Int /\ k \in Int /\ occurs(i) \in Int /\ occurs(j) \in Int /\ occurs(k) \in Int
    BY <1>4
  <2>. QED BY <1>3, <2>1
<1>8. PICK i \in open : \A j \in open : <<i, j>> \in above
  BY <1>2, <1>5, <1>6, <1>7, OneAbove
<1>9. \A j \in open \ {i} : occurs(j) < occurs(i) \/ (occurs(j) = occurs(i) /\ j < i)
  <2>. TAKE j \in open \ {i}
  <2>1. i \in Int /\ j \in Int /\ j # i
    BY <1>4
  <2>2. occurs(j) < occurs(i) \/ (occurs(j) = occurs(i) /\ j <= i)
    BY <1>3, <1>8
  <2>3. j <= i => j < i
    BY <2>1
  <2>. QED BY <2>2, <2>3
<1>10. \E k \in N!Open(phrase) : \A j \in N!Open(phrase) \ {k} :
         \/ candidate[j].occurrence < candidate[k].occurrence
         \/ candidate[j].occurrence = candidate[k].occurrence /\ j < k
  BY <1>8, <1>9 DEF open, occurs
<1>. QED BY <1>10 DEF N!Existing

\* The rows as they are, another request is heard.
LEMMA Begins ==
    ASSUME WordInv, NEW r \in Sayers, NEW on, NEW row_, NEW staff,
           Heard([on |-> on, row |-> row_, staff |-> staff, clean |-> TRUE], candidate), N!Begin(r, on, row_, staff)
    PROVE  WordInv'
<1>1. PICK req : req = [on |-> on, row |-> row_, staff |-> staff, clean |-> TRUE]
  OBVIOUS
<1>2. /\ hearing' = [hearing EXCEPT ![r] = req] /\ Heard(req, candidate)
      /\ candidate' = candidate /\ said' = said /\ handled' = handled /\ reopened' = reopened /\ apart' = apart
  BY <1>1 DEF N!Begin
<1>3. /\ hearing = [u \in Sayers |-> hearing[u]]
      /\ \A u \in Sayers : hearing[u] = None \/ Heard(hearing[u], candidate)
  BY DEF WordInv
<1>4. hearing' = [u \in Sayers |-> hearing'[u]]
      /\ \A u \in Sayers : hearing'[u] = IF u = r THEN req ELSE hearing[u]
  BY <1>2, <1>3
<1>5. \A u \in Sayers : hearing'[u] = None \/ Heard(hearing'[u], candidate')
  BY <1>2, <1>3, <1>4
<1>6. AllCount(candidate', said')
  BY <1>2 DEF WordInv
<1>7. N!ThreeQueue' /\ \A phrase \in Phrases : N!Open(phrase)' = N!Open(phrase)
  BY <1>2 DEF WordInv, N!ThreeQueue, N!Open
<1>8. \A phrase \in Phrases \ apart' : Single(N!Open(phrase)')
  BY <1>2, <1>7 DEF WordInv
<1>. HIDE DEF AllCount, Heard
<1>. QED BY <1>2, <1>4, <1>5, <1>6, <1>7, <1>8 DEF WordInv

LEMMA RecordKeeps == ASSUME WordInv, NEW r \in Sayers, NEW phrase \in Phrases, N!Record(r, phrase) PROVE WordInv'
<1>0. candidate \in Seq(WordRows) /\ Len(candidate) \in Nat
  BY ARow DEF WordInv
<1>1. CASE N!Open(phrase) = {}
  <2>1. PICK row_ : row_ = N!Candidate(phrase)
    OBVIOUS
  <2>2. N!Begin(r, Len(candidate) + 1, row_, FALSE)
    BY <1>1, <2>1 DEF N!Record
  <2>3. row_ \in WordRows /\ row_.occurrence = 1
    BY <2>1 DEF N!Candidate, WordRows, N!States
  <2>4. PICK on : on = Len(candidate) + 1
    OBVIOUS
  <2>5. PICK req : req = [on |-> on, row |-> row_, staff |-> FALSE, clean |-> TRUE]
    OBVIOUS
  <2>6. /\ req \in [on : Nat, row : WordRows, staff : BOOLEAN, clean : BOOLEAN]
        /\ req.row = row_ /\ req.staff = FALSE
    BY <1>0, <2>3, <2>4, <2>5
  <2>7. N!Creates(req) /\ 1 < N!PROMOTION_THRESHOLD
    BY <2>3, <2>6 DEF N!Creates, N!PROMOTION_THRESHOLD
  <2>8. Heard(req, candidate)
    BY <2>3, <2>6, <2>7 DEF Heard
  <2>. QED BY <2>2, <2>4, <2>5, <2>8, Begins
<1>2. CASE N!Open(phrase) # {}
  <2>1. PICK on : on = N!Existing(phrase)
    OBVIOUS
  <2>2. on \in DOMAIN candidate /\ on \in Nat
    <3>1. on \in N!Open(phrase)
      BY <1>2, <2>1, ExistingIs
    <3>2. on \in DOMAIN candidate
      BY <3>1 DEF N!Open
    <3>. QED BY <1>0, <3>2
  <2>3. PICK old : old = candidate[on]
    OBVIOUS
  <2>4. PICK row_ : row_ = N!SaidAgain(old)
    OBVIOUS
  <2>5. N!Begin(r, on, row_, FALSE)
    BY <1>2, <2>1, <2>3, <2>4 DEF N!Record
  <2>6. old \in WordRows /\ old.occurrence \in Nat \ {0}
    BY <1>0, <2>2, <2>3, ARow
  <2>7. /\ row_ \in WordRows /\ row_.text = old.text /\ row_.occurrence = old.occurrence + 1
        /\ row_.state = "new" => row_.occurrence < N!PROMOTION_THRESHOLD
    <3>1. PICK state : state = IF old.occurrence + 1 >= N!PROMOTION_THRESHOLD /\ old.state = "new"
                               THEN "queued" ELSE old.state
      OBVIOUS
    <3>2. PICK more : more = old.occurrence + 1
      OBVIOUS
    <3>3. old.state \in N!States /\ more \in Nat \ {0}
      BY <2>6, <3>2 DEF WordRows
    <3>4. state \in N!States /\ (state = "new" => more < N!PROMOTION_THRESHOLD)
      BY <3>1, <3>2, <3>3 DEF N!States, N!PROMOTION_THRESHOLD
    <3>5. row_ = [[old EXCEPT !.occurrence = more] EXCEPT !.state = state]
      BY <2>4, <3>1, <3>2 DEF N!SaidAgain
    <3>6. /\ row_ \in WordRows /\ row_.text = old.text /\ row_.occurrence = more /\ row_.state = state
      BY <2>6, <3>3, <3>4, <3>5 DEF WordRows
    <3>. QED BY <3>2, <3>4, <3>6
  <2>8. PICK req : req = [on |-> on, row |-> row_, staff |-> FALSE, clean |-> TRUE]
    OBVIOUS
  <2>9. /\ req \in [on : Nat, row : WordRows, staff : BOOLEAN, clean : BOOLEAN]
        /\ req.row = row_ /\ req.staff = FALSE /\ req.on = on
    BY <2>2, <2>7, <2>8
  <2>10. ~N!Creates(req)
    BY <2>6, <2>7, <2>9 DEF N!Creates
  <2>11. Heard(req, candidate)
    BY <2>2, <2>3, <2>7, <2>9, <2>10 DEF Heard
  <2>. QED BY <2>5, <2>8, <2>11, Begins
<1>. QED BY <1>1, <1>2

\* Staff write over a row with another state.
LEMMA StaffKeep ==
    ASSUME WordInv, NEW r \in Sayers, NEW i \in DOMAIN candidate, NEW row_ \in WordRows,
           row_.text = candidate[i].text, row_.occurrence = candidate[i].occurrence, N!Begin(r, i, row_, TRUE)
    PROVE  WordInv'
<1>1. i \in Nat
  BY ARow DEF WordInv
<1>2. PICK req : req = [on |-> i, row |-> row_, staff |-> TRUE, clean |-> TRUE]
  OBVIOUS
<1>3. /\ req \in [on : Nat, row : WordRows, staff : BOOLEAN, clean : BOOLEAN]
      /\ req.row = row_ /\ req.staff = TRUE /\ req.on = i
  BY <1>1, <1>2
<1>4. candidate[i].occurrence \in Nat
  BY ARow DEF WordInv
<1>5. Heard(req, candidate)
  BY <1>3, <1>4 DEF Heard, N!Creates
<1>. QED BY <1>2, <1>5, Begins

LEMMA PromoteKeeps == ASSUME WordInv, NEW r \in Sayers, NEW i \in DOMAIN candidate, N!Promote(r, i) PROVE WordInv'
<1>1. PICK old : old = candidate[i]
  OBVIOUS
<1>2. PICK row_ : row_ = [old EXCEPT !.state = "promoted", !.node = TRUE]
  OBVIOUS
<1>3. old \in WordRows
  BY <1>1, ARow DEF WordInv
<1>4. row_ \in WordRows /\ row_.text = old.text /\ row_.occurrence = old.occurrence
  BY <1>2, <1>3 DEF WordRows, N!States
<1>5. N!Begin(r, i, row_, TRUE)
  BY <1>1, <1>2 DEF N!Promote
<1>. QED BY <1>1, <1>4, <1>5, StaffKeep

LEMMA SetsKeeps ==
    ASSUME WordInv, NEW r \in Sayers, NEW i \in DOMAIN candidate, NEW state \in N!States, N!Sets(r, i, state)
    PROVE  WordInv'
<1>1. PICK old : old = candidate[i]
  OBVIOUS
<1>2. PICK row_ : row_ = [old EXCEPT !.state = state]
  OBVIOUS
<1>3. old \in WordRows
  BY <1>1, ARow DEF WordInv
<1>4. row_ \in WordRows /\ row_.text = old.text /\ row_.occurrence = old.occurrence
  BY <1>2, <1>3 DEF WordRows
<1>5. N!Begin(r, i, row_, TRUE)
  BY <1>1, <1>2 DEF N!Sets
<1>. QED BY <1>1, <1>4, <1>5, StaffKeep

LEMMA EndsKeeps == ASSUME WordInv, NEW r \in Sayers, N!Ends(r) PROVE WordInv'
<1>2. /\ hearing' = [hearing EXCEPT ![r] = None]
      /\ candidate' = candidate /\ said' = said /\ handled' = handled /\ reopened' = reopened /\ apart' = apart
  BY DEF N!Ends
<1>3. /\ hearing = [u \in Sayers |-> hearing[u]]
      /\ \A u \in Sayers : hearing[u] = None \/ Heard(hearing[u], candidate)
  BY DEF WordInv
<1>4. hearing' = [u \in Sayers |-> hearing'[u]]
      /\ \A u \in Sayers : hearing'[u] = IF u = r THEN None ELSE hearing[u]
  BY <1>2, <1>3
<1>5. \A u \in Sayers : hearing'[u] = None \/ Heard(hearing'[u], candidate')
  BY <1>2, <1>3, <1>4
<1>6. AllCount(candidate', said')
  BY <1>2 DEF WordInv
<1>7. N!ThreeQueue' /\ \A phrase \in Phrases : N!Open(phrase)' = N!Open(phrase)
  BY <1>2 DEF WordInv, N!ThreeQueue, N!Open
<1>8. \A phrase \in Phrases \ apart' : Single(N!Open(phrase)')
  BY <1>2, <1>7 DEF WordInv
<1>. HIDE DEF AllCount, Heard
<1>. QED BY <1>2, <1>4, <1>5, <1>6, <1>7, <1>8 DEF WordInv

\* The row of somebody who was not refused is written, and the requests that read it will be.
LEMMA Commits == ASSUME WordInv, NEW r \in Sayers, N!Commit(r) PROVE WordInv'
<1>1. PICK req : req = hearing[r]
  OBVIOUS
<1>2. PICK id : id = IF N!Creates(req) THEN Len(candidate) + 1 ELSE req.on
  OBVIOUS
<1>3. PICK row_ : row_ = req.row
  OBVIOUS
<1>4. Heard(req, candidate) /\ req.clean
  BY <1>1 DEF N!Commit, N!Idle, WordInv
<1>5. /\ row_ \in WordRows /\ row_.text \in Phrases /\ row_.occurrence \in Nat \ {0} /\ req.staff \in BOOLEAN
  BY <1>3, <1>4 DEF Heard, WordRows
<1>6. candidate \in Seq(WordRows) /\ DOMAIN candidate = 1..Len(candidate) /\ Len(candidate) \in Nat
  BY ARow DEF WordInv
\* The rows.
<1>7. /\ candidate' \in Seq(WordRows) /\ DOMAIN candidate' = DOMAIN candidate \cup {id} /\ candidate'[id] = row_
      /\ \A i \in DOMAIN candidate \ {id} : candidate'[i] = candidate[i]
      /\ N!Creates(req) => id \notin DOMAIN candidate
      /\ ~N!Creates(req) => /\ id = req.on /\ id \in DOMAIN candidate /\ row_.text = candidate[id].text
                            /\ row_.occurrence = candidate[id].occurrence + (IF req.staff THEN 0 ELSE 1)
  <2>1. CASE N!Creates(req)
    <3>1. candidate' = Append(candidate, row_) /\ id = Len(candidate) + 1
      BY <1>1, <1>2, <1>3, <2>1 DEF N!Commit, N!Written
    <3>. QED BY <1>5, <1>6, <2>1, <3>1
  <2>2. CASE ~N!Creates(req)
    <3>1. candidate' = [candidate EXCEPT ![id] = row_] /\ id = req.on
      BY <1>1, <1>2, <1>3, <2>2 DEF N!Commit, N!Written
    <3>2. /\ id \in DOMAIN candidate /\ row_.text = candidate[id].text
          /\ row_.occurrence = candidate[id].occurrence + (IF req.staff THEN 0 ELSE 1)
      BY <1>3, <1>4, <2>2, <3>1 DEF Heard
    <3>. QED BY <1>5, <1>6, <2>2, <3>1, <3>2
  <2>. QED BY <2>1, <2>2
<1>8. /\ handled' \in Nat /\ said' = IF req.staff THEN said ELSE [said EXCEPT ![row_.text] = @ + 1]
      /\ reopened' = IF req.staff /\ row_.state = "new" THEN reopened \cup {id} ELSE reopened \ {id}
      /\ apart' = IF row_.state \in {"new", "queued"} /\ N!Open(row_.text) \ {id} # {} THEN apart \cup {row_.text}
                  ELSE apart
  BY <1>1, <1>2, <1>3 DEF N!Commit, WordInv
<1>9. /\ said' \in [Phrases -> Nat] /\ reopened' \subseteq DOMAIN candidate' /\ apart' \subseteq Phrases
  BY <1>5, <1>7, <1>8 DEF WordInv
\* Those who are heard.
<1>10. /\ hearing' = [u \in Sayers |-> hearing'[u]]
       /\ \A u \in Sayers : hearing'[u] = None \/ Heard(hearing'[u], candidate')
  <2>1. ASSUME NEW u \in Sayers, hearing'[u] # None PROVE Heard(hearing'[u], candidate')
    <3>1. PICK other : other = hearing[u]
      OBVIOUS
    <3>2. Heard(other, candidate)
      BY <2>1, <3>1 DEF N!Commit, N!Idle, WordInv
    <3>3. PICK now : now = [other EXCEPT !.clean = FALSE]
      OBVIOUS
    <3>4. IF ~N!Creates(req) /\ ~N!Creates(other) /\ other.on = req.on THEN hearing'[u] = now ELSE hearing'[u] = other
      BY <1>1, <2>1, <3>1, <3>3 DEF N!Commit, N!Idle
    <3>5. CASE hearing'[u] = now
      <4>1. /\ now \in [on : Nat, row : WordRows, staff : BOOLEAN, clean : BOOLEAN]
            /\ now.on = other.on /\ now.row = other.row /\ now.staff = other.staff /\ now.clean = FALSE
        BY <3>2, <3>3 DEF Heard
      <4>2. N!Creates(now) <=> N!Creates(other)
        BY <4>1 DEF N!Creates
      <4>3. Heard(now, candidate')
        BY <1>7, <3>2, <4>1, <4>2 DEF Heard
      <4>. QED BY <3>5, <4>3
    <3>6. CASE hearing'[u] = other /\ ~(~N!Creates(req) /\ ~N!Creates(other) /\ other.on = req.on)
      <4>1. ~N!Creates(other) => other.on \in DOMAIN candidate /\ other.on # id
        BY <1>7, <3>2, <3>6 DEF Heard
      <4>2. ~N!Creates(other) => candidate'[other.on] = candidate[other.on] /\ other.on \in DOMAIN candidate'
        BY <1>7, <4>1
      <4>3. Heard(other, candidate')
        BY <3>2, <4>1, <4>2 DEF Heard
      <4>. QED BY <3>6, <4>3
    <3>. QED BY <3>4, <3>5, <3>6
  <2>2. hearing' = [u \in Sayers |-> hearing'[u]]
    BY DEF N!Commit
  <2>. QED BY <2>1, <2>2
\* The count of each text.
<1>11. ASSUME NEW phrase \in Phrases PROVE said'[phrase] = Total(Counts(candidate', phrase))
  <2>1. PICK old, new, was, is : old = Total(Counts(candidate, phrase)) /\ new = Total(Counts(candidate', phrase))
                                 /\ was = (IF id \in DOMAIN candidate THEN Counts(candidate, phrase)[id] ELSE 0)
                                 /\ is = Counts(candidate', phrase)[id]
    OBVIOUS
  <2>2. new = old + is - was
    BY <1>6, <1>7, <2>1, OneRow
  <2>3. old = said[phrase] /\ old \in Nat /\ said \in [Phrases -> Nat]
    BY <2>1 DEF WordInv, AllCount
  <2>4. is = IF row_.text = phrase THEN row_.occurrence ELSE 0
    BY <1>7, <2>1, CountsAdd
  <2>5. was = IF N!Creates(req) THEN 0 ELSE IF row_.text = phrase THEN candidate[id].occurrence ELSE 0
    BY <1>6, <1>7, <2>1, CountsAdd
  <2>6. N!Creates(req) => ~req.staff /\ row_.occurrence = 1
    BY <1>3 DEF N!Creates
  <2>7. ~N!Creates(req) => candidate[id].occurrence \in Nat
    BY <1>6, <1>7, ARow
  <2>8. is - was = IF row_.text = phrase /\ ~req.staff THEN 1 ELSE 0
    BY <1>5, <1>7, <2>4, <2>5, <2>6, <2>7
  <2>9. said'[phrase] = IF row_.text = phrase /\ ~req.staff THEN said[phrase] + 1 ELSE said[phrase]
    BY <1>5, <1>8, <2>3
  <2>10. is \in Int /\ was \in Int
    BY <1>5, <2>4, <2>5, <2>7
  <2>. QED BY <2>1, <2>2, <2>3, <2>8, <2>9, <2>10
\* The third one queues it.
<1>12. N!ThreeQueue'
  <2>1. ASSUME NEW i \in DOMAIN candidate', i \notin reopened', candidate'[i].state = "new"
        PROVE  candidate'[i].occurrence < N!PROMOTION_THRESHOLD
    <3>1. CASE i = id
      <4>1. row_.state = "new" /\ ~req.staff
        BY <1>5, <1>7, <1>8, <2>1, <3>1
      <4>. QED BY <1>3, <1>4, <1>7, <3>1, <4>1 DEF Heard
    <3>2. CASE i # id
      <4>1. i \in DOMAIN candidate /\ candidate'[i] = candidate[i] /\ i \notin reopened
        BY <1>7, <1>8, <2>1, <3>2
      <4>. QED BY <2>1, <4>1 DEF WordInv, N!ThreeQueue
    <3>. QED BY <3>1, <3>2
  <2>. QED BY <2>1 DEF N!ThreeQueue
\* One text is one open row.
<1>13. ASSUME NEW phrase \in Phrases, phrase \notin apart' PROVE Single(N!Open(phrase)')
  <2>1. N!Open(phrase)' = {i \in DOMAIN candidate' : candidate'[i].text = phrase /\ candidate'[i].state \in {"new", "queued"}}
    BY DEF N!Open
  <2>2. N!Open(phrase) = {i \in DOMAIN candidate : candidate[i].text = phrase /\ candidate[i].state \in {"new", "queued"}}
    BY DEF N!Open
  <2>3. \A i \in N!Open(phrase)' : i # id => i \in N!Open(phrase)
    BY <1>7, <2>1, <2>2
  <2>4. Single(N!Open(phrase))
    BY <1>8, <1>13 DEF WordInv
  <2>5. id \in N!Open(phrase)' => N!Open(phrase) \ {id} = {}
    <3>1. id \in N!Open(phrase)' => row_.text = phrase /\ row_.state \in {"new", "queued"}
      BY <1>7, <2>1
    <3>. QED BY <1>8, <1>13, <3>1
  <2>. QED BY <2>3, <2>4, <2>5 DEF Single
<1>. HIDE DEF Heard, AllCount
<1>14. AllCount(candidate', said')
  BY <1>11 DEF AllCount
<1>15. \A phrase \in Phrases \ apart' : Single(N!Open(phrase)')
  BY <1>13
<1>. QED BY <1>7, <1>8, <1>9, <1>10, <1>12, <1>14, <1>15 DEF WordInv

LEMMA WordSteps == ASSUME WordInv, [N!Next]_words PROVE WordInv'
<1>1. CASE N!Next
  BY <1>1, RecordKeeps, PromoteKeeps, SetsKeeps, Commits, EndsKeeps DEF N!Next
<1>2. CASE UNCHANGED words
  <2>1. candidate' = candidate /\ hearing' = hearing /\ said' = said /\ handled' = handled /\ reopened' = reopened
        /\ apart' = apart
    BY <1>2 DEF words
  <2>2. N!ThreeQueue' = N!ThreeQueue /\ \A phrase \in Phrases : N!Open(phrase)' = N!Open(phrase)
    BY <2>1 DEF N!ThreeQueue, N!Open
  <2>3. \A phrase \in Phrases \ apart' : Single(N!Open(phrase)')
    BY <2>1, <2>2 DEF WordInv
  <2>. QED BY <2>1, <2>2, <2>3 DEF WordInv
<1>. QED BY <1>1, <1>2

LEMMA WordsHold == WordInv => N!TypeOK /\ N!EveryWordCounts /\ N!ThreeQueue /\ N!OneRowEach
<1>. SUFFICES ASSUME WordInv PROVE N!TypeOK /\ N!EveryWordCounts /\ N!ThreeQueue /\ N!OneRowEach
  OBVIOUS
<1>1. N!TypeOK
  BY DEF WordInv, N!TypeOK, WordRows
<1>3. N!EveryWordCounts
  BY DEF WordInv, AllCount, Counts, Total, N!EveryWordCounts
<1>4. ASSUME NEW phrase \in Phrases, phrase \notin apart PROVE N!Cardinality(N!Open(phrase)) <= 1
  <2>1. Single(N!Open(phrase))
    BY <1>4 DEF WordInv
  <2>2. N!Open(phrase) = {} \/ \E i : N!Open(phrase) = {i}
    BY <2>1 DEF Single
  <2>3. Cardinality(N!Open(phrase)) = 0 \/ Cardinality(N!Open(phrase)) = 1
    BY <2>2, FS_EmptySet, FS_Singleton
  <2>4. N!Cardinality(N!Open(phrase)) = Cardinality(N!Open(phrase))
    BY DEF N!Cardinality, Cardinality
  <2>. QED BY <2>3, <2>4
<1>5. N!OneRowEach
  BY <1>4 DEF N!OneRowEach
<1>. QED BY <1>1, <1>3, <1>5 DEF WordInv

-----------------------------------------------------------------------------
\* The pages (portal.py, auth.py, spec.py): once through the questions is one need, of the café it says; what
\* a worker wrote reaches the staff and stays as it was ranked; nobody is sent in circles or into a side they
\* did not ask for; and everything people said that the standard does not know counts.  Of however many cafés,
\* requests at once, days, addresses and texts.
THEOREM AnswersAreKept == Spec => []AnswersKept
<1>. DEFINE PagesInv == DraftInv /\ JoinInv /\ LandingInv /\ WordInv
<1>1. Init => PagesInv
  BY DraftStarts, JoinStarts, LandingStarts, WordsStart DEF Init
<1>2. PagesInv /\ [Next]_everything => PagesInv'
  <2>1. [Next]_everything => [D!Next]_answers
    BY DEF Next, everything, answers
  <2>2. [Next]_everything => [J!Next]_pages
    BY DEF Next, everything, pages
  <2>3. [Next]_everything => [R!Next]_landing
    BY DEF Next, everything, landing
  <2>4. [Next]_everything => [N!Next]_words
    BY DEF Next, everything, words
  <2>. QED BY <2>1, <2>2, <2>3, <2>4, DraftSteps, JoinSteps, LandingSteps, WordSteps
<1>3. PagesInv => AnswersKept
  BY DraftHolds, JoinHolds, LandingHolds, WordsHold DEF AnswersKept
<1>. QED BY <1>1, <1>2, <1>3, PTL DEF Spec
===============================================================================
