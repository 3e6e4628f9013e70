--------------------------- MODULE Numbers_proofs ---------------------------
(***************************************************************************)
(* Proofs about Numbers, for any number of accounts, numbers and threads:  *)
(* its invariants, and that it implements Ownership.                       *)
(*                                                                         *)
(* The argument: whatever a transaction found when it began still holds of *)
(* the records it will write as long as it may commit, and UNIQUE covers   *)
(* the records it will not write.  So a commit that proves a number for an *)
(* account takes it from nobody who has proven it.                         *)
(***************************************************************************)
EXTENDS Numbers, TLAPS

Tables(S) == UNION {[D -> S] : D \in SUBSET Accounts}

\* A transaction gives a number to one account at most, and clears those of the others it writes.
OneSubject(f) ==
    \E a \in Accounts : \A p \in DOMAIN f \ {a} : f[p].mobile = None

\* What every transaction under way satisfies.
TxOK(t) ==
    /\ DOMAIN t.users \subseteq DOMAIN partner
    /\ t.new \cup t.in \subseteq DOMAIN partner \cup DOMAIN t.fields
    /\ DOMAIN t.fields \subseteq DOMAIN partner \cup t.new
    /\ \A p \in DOMAIN t.fields : t.fields[p].mobile = None => t.fields[p] = NoNumber
    /\ \A p \in t.in \cap DOMAIN partner : user[p] # "staff"
    /\ OneSubject(t.fields)

\* And one that may still commit.
TxFresh(t) ==
    \A p \in DOMAIN t.fields \cap DOMAIN partner :
        t.fields[p].mobile = None => ~partner[p].proven

Inv ==
    /\ TypeOK
    /\ StaffNeverOpened
    /\ OnlyUnprovenGiveWay
    /\ OneHolder
    /\ \A w \in Workers : ~Idle(w) => TxOK(work[w])

-----------------------------------------------------------------------------
(* Tables *)

\* A table of accounts is a function on some of them.
LEMMA TablesDef ==
    ASSUME NEW S, NEW f
    PROVE  f \in Tables(S) <=> DOMAIN f \subseteq Accounts /\ f \in [DOMAIN f -> S]
BY DEF Tables

\* Tables joined are a table.
LEMMA JoinTables ==
    ASSUME NEW S, NEW f \in Tables(S), NEW g \in Tables(S)
    PROVE  /\ Join(f, g) \in Tables(S)
           /\ DOMAIN Join(f, g) = DOMAIN f \cup DOMAIN g
<1>1. /\ DOMAIN f \subseteq Accounts /\ f \in [DOMAIN f -> S]
      /\ DOMAIN g \subseteq Accounts /\ g \in [DOMAIN g -> S]
  BY TablesDef
<1>2. DOMAIN Join(f, g) = DOMAIN f \cup DOMAIN g
  BY DEF Join
<1>3. Join(f, g) \in [DOMAIN f \cup DOMAIN g -> S]
  <2>1. \A p \in DOMAIN f \cup DOMAIN g : (IF p \in DOMAIN g THEN g[p] ELSE f[p]) \in S
    BY <1>1
  <2> QED BY <2>1 DEF Join
<1> QED BY <1>1, <1>2, <1>3, TablesDef

\* One row, and no row at all, are tables.
LEMMA SmallTables ==
    ASSUME NEW S, NEW p \in Accounts, NEW x \in S
    PROVE  /\ Only(p, x) \in Tables(S) /\ DOMAIN Only(p, x) = {p} /\ Only(p, x)[p] = x
           /\ Nothing \in Tables(S) /\ DOMAIN Nothing = {}
<1>1. DOMAIN Only(p, x) = {p} /\ Only(p, x)[p] = x /\ Only(p, x) \in [{p} -> S]
  BY DEF Only
<1>2. DOMAIN Nothing = {} /\ Nothing \in [{} -> S]
  BY DEF Nothing
<1> QED BY <1>1, <1>2, TablesDef

\* The type of a transaction, by its parts.
LEMMA TxDef ==
    ASSUME NEW fields \in Tables(Fields), NEW users \in Tables({"portal", "archived"}),
           NEW new \in SUBSET Accounts, NEW in \in SUBSET Accounts, NEW out \in SUBSET Accounts,
           NEW clean \in BOOLEAN
    PROVE  [fields |-> fields, users |-> users, new |-> new, in |-> in, out |-> out,
            clean |-> clean] \in Tx
BY DEF Tx, Tables

-----------------------------------------------------------------------------
(* Requests: what each has found when it begins *)

\* A request has read the tables and will write `t'.
Starts(w, t) ==
    /\ t \in Tx
    /\ t.clean
    /\ TxOK(t)
    /\ TxFresh(t)
    /\ Idle(w)
    /\ work' = [work EXCEPT ![w] = t]
    /\ UNCHANGED <<partner, user, open>>

\* A number is not None, and the rows of the tables have their types.
LEMMA Rows ==
    ASSUME TypeOK
    PROVE  /\ DOMAIN partner \subseteq Accounts /\ DOMAIN user = DOMAIN partner
           /\ \A p \in DOMAIN partner : /\ partner[p] \in Fields
                                        /\ partner[p].mobile = None => partner[p] = NoNumber
                                        /\ user[p] \in Kinds
           /\ \A m \in Mobiles : m # None
BY NoneAssumption DEF TypeOK

\* A number is taken off `others': what is left of them has none.
LEMMA Releasing ==
    ASSUME TypeOK, NEW others \in SUBSET DOMAIN partner,
           \A q \in others : partner[q].mobile # None
    PROVE  /\ Released(others) \in Tables(Fields)
           /\ DOMAIN Released(others) = others
           /\ \A q \in others : Released(others)[q] = NoNumber
<1>1. \A q \in others : Rewrite(partner[q], None) = NoNumber
  BY DEF Rewrite, NoNumber
<1>2. DOMAIN Released(others) = others /\ \A q \in others : Released(others)[q] = NoNumber
  BY <1>1 DEF Released
<1>3. NoNumber \in Fields
  BY DEF NoNumber, Fields
<1>4. Released(others) \in [others -> Fields]
  BY <1>1, <1>3 DEF Released
<1>5. others \subseteq Accounts
  BY Rows
<1> QED BY <1>2, <1>4, <1>5, TablesDef

\* The fields a request writes when it gives a number to `p' and takes it off the rows of `r'.
LEMMA Handover ==
    ASSUME NEW p \in Accounts, NEW x \in Fields, NEW r \in Tables(Fields),
           p \notin DOMAIN r, \A q \in DOMAIN r : r[q] = NoNumber
    PROVE  /\ Join(r, Only(p, x)) \in Tables(Fields)
           /\ DOMAIN Join(r, Only(p, x)) = DOMAIN r \cup {p}
           /\ Join(r, Only(p, x))[p] = x
           /\ \A q \in DOMAIN r : Join(r, Only(p, x))[q] = NoNumber
           /\ OneSubject(Join(r, Only(p, x)))
<1>1. Only(p, x) \in Tables(Fields) /\ DOMAIN Only(p, x) = {p} /\ Only(p, x)[p] = x
  BY SmallTables
<1>2. /\ Join(r, Only(p, x)) \in Tables(Fields)
      /\ DOMAIN Join(r, Only(p, x)) = DOMAIN r \cup {p}
      /\ Join(r, Only(p, x))[p] = x
      /\ \A q \in DOMAIN r : Join(r, Only(p, x))[q] = NoNumber
  <2>1. Join(r, Only(p, x)) \in Tables(Fields)
    BY <1>1, JoinTables
  <2>2. DOMAIN Join(r, Only(p, x)) = DOMAIN r \cup DOMAIN Only(p, x)
    BY DEF Join
  <2>3. \A q \in DOMAIN Only(p, x) : Join(r, Only(p, x))[q] = Only(p, x)[q]
    BY DEF Join
  <2>4. \A q \in DOMAIN r \ DOMAIN Only(p, x) : Join(r, Only(p, x))[q] = r[q]
    BY DEF Join
  <2> QED BY <1>1, <2>1, <2>2, <2>3, <2>4
<1>3. OneSubject(Join(r, Only(p, x)))
  BY <1>2 DEF OneSubject, NoNumber
<1> QED BY <1>2, <1>3

\* The users and sign-ins of a request that opens `p' or gives it a portal user.
LEMMA Users ==
    ASSUME TypeOK, NEW p \in Accounts
    PROVE  /\ Activated(p) \in Tables({"portal", "archived"})
           /\ DOMAIN Activated(p) \subseteq DOMAIN partner
           /\ Made(p) \in SUBSET {p}
           /\ ~Exists(p) => p \in Made(p)
<1>1. /\ Only(p, "portal") \in Tables({"portal", "archived"}) /\ DOMAIN Only(p, "portal") = {p}
      /\ Nothing \in Tables({"portal", "archived"}) /\ DOMAIN Nothing = {}
  BY SmallTables
<1>2. CASE Exists(p) /\ user[p] = "archived"
  BY <1>1, <1>2 DEF Activated, Made, Exists
<1>3. CASE ~(Exists(p) /\ user[p] = "archived")
  BY <1>1, <1>3 DEF Activated, Made, Exists
<1> QED BY <1>2, <1>3

\* What Begin is told to write is what the transaction holds.
LEMMA Begins ==
    ASSUME TypeOK, NEW w \in Workers,
           NEW fields \in Tables(Fields), NEW users \in Tables({"portal", "archived"}),
           NEW new \in SUBSET Accounts, NEW in \in SUBSET Accounts, NEW out \in SUBSET Accounts,
           Begin(w, fields, users, new, in, out),
           DOMAIN users \subseteq DOMAIN partner,
           new \cup in \subseteq DOMAIN partner \cup DOMAIN fields,
           DOMAIN fields \subseteq DOMAIN partner \cup new,
           \A p \in DOMAIN fields : fields[p].mobile = None => fields[p] = NoNumber,
           \A p \in in \cap DOMAIN partner : user[p] # "staff",
           OneSubject(fields),
           \A p \in DOMAIN fields \cap DOMAIN partner :
               fields[p].mobile = None => ~partner[p].proven
    PROVE  \E t : Starts(w, t)
<1> DEFINE t == [fields |-> fields, users |-> users, new |-> new, in |-> in, out |-> out,
                 clean |-> TRUE]
<1>1. t \in Tx
  BY TxDef
<1>2. TxOK(t) /\ TxFresh(t)
  BY DEF TxOK, TxFresh
<1>3. Starts(w, t)
  BY <1>1, <1>2 DEF Starts, Begin
<1> QED BY <1>3
\* A request that gives `m' to `p', and takes it off holders who have not proven it.
LEMMA Gives ==
    ASSUME TypeOK, NEW w \in Workers, NEW p \in Accounts, NEW m \in Mobiles,
           NEW x \in Fields, x.mobile = m,
           NEW users \in Tables({"portal", "archived"}), DOMAIN users \subseteq DOMAIN partner,
           NEW new \in SUBSET {p}, ~Exists(p) => p \in new,
           NEW in \in SUBSET {p}, p \in in /\ Exists(p) => user[p] # "staff",
           NEW out \in SUBSET {p},
           ProvenHolders(m) \subseteq {p},
           Begin(w, Join(Released(Holders(m) \ {p}), Only(p, x)), users, new, in, out)
    PROVE  \E t : Starts(w, t)
<1> DEFINE others == Holders(m) \ {p}
<1>1. /\ others \in SUBSET DOMAIN partner
      /\ \A q \in others : partner[q].mobile # None /\ ~partner[q].proven
  BY Rows DEF Holders, ProvenHolders
<1>2. /\ Released(others) \in Tables(Fields)
      /\ DOMAIN Released(others) = others
      /\ \A q \in others : Released(others)[q] = NoNumber
  BY <1>1, Releasing
<1>3. /\ Join(Released(others), Only(p, x)) \in Tables(Fields)
      /\ DOMAIN Join(Released(others), Only(p, x)) = others \cup {p}
      /\ Join(Released(others), Only(p, x))[p] = x
      /\ \A q \in others : Join(Released(others), Only(p, x))[q] = NoNumber
      /\ OneSubject(Join(Released(others), Only(p, x)))
  <2>1. p \notin others
    OBVIOUS
  <2> HIDE DEF others
  <2> QED BY <1>2, <2>1, Handover
<1>4. m # None
  BY Rows
<1> DEFINE f == Join(Released(others), Only(p, x))
<1>5. \A q \in DOMAIN f : f[q].mobile = None => f[q] = NoNumber
  BY <1>3, <1>4
<1>6. \A q \in DOMAIN f \cap DOMAIN partner : f[q].mobile = None => ~partner[q].proven
  BY <1>1, <1>3, <1>4
<1>7. DOMAIN f \subseteq DOMAIN partner \cup new /\ new \cup in \subseteq DOMAIN partner \cup DOMAIN f
  BY <1>1, <1>3 DEF Exists
<1>8. \A q \in in \cap DOMAIN partner : user[q] # "staff"
  BY DEF Exists
<1>9. new \in SUBSET Accounts /\ in \in SUBSET Accounts /\ out \in SUBSET Accounts
  OBVIOUS
<1>10. f \in Tables(Fields) /\ OneSubject(f) /\ Begin(w, f, users, new, in, out)
  BY <1>3
<1> HIDE DEF f
<1> QED BY <1>5, <1>6, <1>7, <1>8, <1>9, <1>10, Begins

\* A request that writes no number.
LEMMA GivesNone ==
    ASSUME TypeOK, NEW w \in Workers, NEW p \in Accounts, Exists(p),
           NEW users \in Tables({"portal", "archived"}), DOMAIN users \subseteq DOMAIN partner,
           NEW new \in SUBSET {p},
           NEW in \in SUBSET {p}, p \in in => user[p] # "staff",
           Begin(w, Nothing, users, new, in, {})
    PROVE  \E t : Starts(w, t)
<1>1. Nothing \in Tables(Fields) /\ DOMAIN Nothing = {}
  <2>1. NoNumber \in Fields
    BY DEF NoNumber, Fields
  <2> QED BY <2>1, SmallTables
<1>2. OneSubject(Nothing)
  BY <1>1 DEF OneSubject
<1>3. /\ new \in SUBSET Accounts /\ in \in SUBSET Accounts
      /\ new \cup in \subseteq DOMAIN partner \cup DOMAIN Nothing
      /\ \A q \in in \cap DOMAIN partner : user[q] # "staff"
  BY DEF Exists
<1> QED BY <1>1, <1>2, <1>3, Begins

LEMMA EmptyTable == Nothing \in Tables({"portal", "archived"}) /\ DOMAIN Nothing = {}
BY TablesDef DEF Nothing

\* What a request writes on the account it gives a number to.
LEMMA Values ==
    ASSUME NEW m \in Mobiles
    PROVE  /\ Written(m) \in Fields /\ Written(m).mobile = m
           /\ \A f \in Fields : Proved(f, m) \in Fields /\ Proved(f, m).mobile = m
           /\ [mobile |-> m, proven |-> TRUE, byStaff |-> FALSE] \in Fields
<1>1. Written(m) \in Fields /\ Written(m).mobile = m
  BY DEF Written, Fields
<1>2. ASSUME NEW f \in Fields PROVE Proved(f, m) \in Fields /\ Proved(f, m).mobile = m
  <2>1. Rewrite(f, m) \in Fields /\ Rewrite(f, m).mobile = m
    BY DEF Rewrite, Fields
  <2> QED BY <2>1 DEF Proved, Fields
<1>3. [mobile |-> m, proven |-> TRUE, byStaff |-> FALSE] \in Fields
  BY DEF Fields
<1> QED BY <1>1, <1>2, <1>3

LEMMA ClaimStarts ==
    ASSUME TypeOK, NEW w \in Workers, NEW p \in Accounts, NEW m \in Mobiles, Claim(w, p, m)
    PROVE  \E t : Starts(w, t)
<1>1. Proved(partner[p], m) \in Fields /\ Proved(partner[p], m).mobile = m
  <2>1. p \in DOMAIN partner
    BY DEF Claim, Exists
  <2>2. partner[p] \in Fields
    BY <2>1 DEF TypeOK
  <2> QED BY <2>2, Values
<1> QED BY <1>1, EmptyTable, Gives DEF Claim

LEMMA EnterProvenStarts ==
    ASSUME TypeOK, NEW w \in Workers, NEW m \in Mobiles, EnterProven(w, m)
    PROVE  \E t : Starts(w, t)
<1>1. PICK p \in ProvenHolders(m) : user[p] # "staff" /\ SignIn(w, p, Nothing)
  BY DEF EnterProven
<1>2. p \in Accounts /\ Exists(p)
  BY Rows DEF ProvenHolders, Holders, Exists
<1> QED BY <1>1, <1>2, Users, GivesNone DEF SignIn

LEMMA EnterWrittenStarts ==
    ASSUME TypeOK, NEW w \in Workers, NEW m \in Mobiles, EnterWritten(w, m)
    PROVE  \E t : Starts(w, t)
<1>1. PICK p \in Holders(m) :
        /\ user[p] # "staff"
        /\ SignIn(w, p, Join(Released(Holders(m) \ {p}), Only(p, Proved(partner[p], m))))
  BY DEF EnterWritten
<1>2. p \in Accounts /\ Exists(p) /\ partner[p] \in Fields
  <2>1. p \in DOMAIN partner
    BY DEF Holders
  <2> QED BY <2>1 DEF Exists, TypeOK
<1>3. Proved(partner[p], m) \in Fields /\ Proved(partner[p], m).mobile = m
  BY <1>2, Values
<1>4. ProvenHolders(m) \subseteq {p}
  BY DEF EnterWritten
<1> QED BY <1>1, <1>2, <1>3, <1>4, Users, Gives DEF SignIn

LEMMA EnterNewStarts ==
    ASSUME TypeOK, NEW w \in Workers, NEW m \in Mobiles, EnterNew(w, m)
    PROVE  \E t : Starts(w, t)
<1> DEFINE x == [mobile |-> m, proven |-> TRUE, byStaff |-> FALSE]
<1>1. PICK p \in Accounts : Fresh(p) /\ SignIn(w, p, Join(Released(Holders(m)), Only(p, x)))
  BY DEF EnterNew
<1>2. ~Exists(p) /\ Holders(m) \ {p} = Holders(m)
  BY <1>1 DEF Fresh, Exists, Holders
<1>3. x \in Fields /\ x.mobile = m
  BY Values
<1>4. ProvenHolders(m) \subseteq {p}
  BY DEF EnterNew
<1> HIDE DEF x
<1> QED BY <1>1, <1>2, <1>3, <1>4, Users, Gives DEF SignIn

LEMMA StaffCreateStarts ==
    ASSUME TypeOK, NEW w \in Workers, NEW p \in Accounts, NEW m \in Mobiles, StaffCreate(w, p, m)
    PROVE  \E t : Starts(w, t)
<1>1. Holders(m) = {} /\ Holders(m) \ {p} = {} /\ ProvenHolders(m) \subseteq {p}
  BY DEF StaffCreate, ProvenHolders
<1>2. Join(Released({}), Only(p, Written(m))) = Only(p, Written(m))
  BY DEF Join, Released, Only
<1>3. Begin(w, Join(Released(Holders(m) \ {p}), Only(p, Written(m))), Activated(p), Made(p), {}, {})
  BY <1>1, <1>2 DEF StaffCreate
<1> QED BY <1>1, <1>3, Values, Users, Gives

LEMMA StaffRoleStarts ==
    ASSUME TypeOK, NEW w \in Workers, NEW p \in Accounts, StaffRole(w, p)
    PROVE  \E t : Starts(w, t)
BY Users, GivesNone DEF StaffRole

LEMMA StaffChangeStarts ==
    ASSUME TypeOK, NEW w \in Workers, NEW p \in Accounts, NEW m \in Mobiles, StaffChange(w, p, m)
    PROVE  \E t : Starts(w, t)
<1>1. Written(m) \in Fields /\ Written(m).mobile = m
  BY Values
<1>2. (IF user[p] = "portal" THEN {p} ELSE {}) \in SUBSET {p}
  OBVIOUS
<1> QED BY <1>1, <1>2, EmptyTable, Gives DEF StaffChange

LEMMA ArchiveStarts ==
    ASSUME TypeOK, NEW w \in Workers, NEW p \in Accounts, Archive(w, p)
    PROVE  \E t : Starts(w, t)
<1>1. Only(p, "archived") \in Tables({"portal", "archived"}) /\ DOMAIN Only(p, "archived") = {p}
  BY SmallTables
<1> QED BY <1>1, GivesNone DEF Archive, Exists
-----------------------------------------------------------------------------
(* The invariant *)

\* The parts of a transaction.
LEMMA TxParts ==
    ASSUME NEW t \in Tx
    PROVE  /\ t.fields \in Tables(Fields) /\ DOMAIN t.fields \subseteq Accounts
           /\ t.users \in Tables({"portal", "archived"})
           /\ t.new \in SUBSET Accounts /\ t.in \in SUBSET Accounts /\ t.out \in SUBSET Accounts
           /\ t.clean \in BOOLEAN
           /\ [t EXCEPT !.clean = FALSE] \in Tx
<1>1. /\ t.fields \in Tables(Fields) /\ t.users \in Tables({"portal", "archived"})
      /\ t.new \in SUBSET Accounts /\ t.in \in SUBSET Accounts /\ t.out \in SUBSET Accounts
      /\ t.clean \in BOOLEAN
  BY DEF Tx, Tables
<1>2. [t EXCEPT !.clean = FALSE] \in Tx
  BY DEF Tx
<1>3. DOMAIN t.fields \subseteq Accounts
  BY <1>1, TablesDef
<1> QED BY <1>1, <1>2, <1>3

LEMMA InitInv ==
    ASSUME Init
    PROVE  Inv
<1>1. PICK D \in SUBSET Accounts :
        partner = [p \in D |-> NoNumber] /\ user \in [D -> {"none", "portal", "staff"}]
  BY DEF Init
<1>2. NoNumber \in Fields
  BY DEF NoNumber, Fields
<1>3. TypeOK
  BY <1>1, <1>2 DEF Init, TypeOK, Kinds
<1>4. StaffNeverOpened /\ OnlyUnprovenGiveWay /\ \A w \in Workers : ~Idle(w) => TxOK(work[w])
  BY DEF Init, StaffNeverOpened, OnlyUnprovenGiveWay, Idle
<1>5. OneHolder
  BY <1>1 DEF OneHolder, UniqueIn, NoNumber
<1> QED BY <1>3, <1>4, <1>5 DEF Inv

\* A request that begins.
LEMMA StartKeeps ==
    ASSUME Inv, NEW w \in Workers, NEW t, Starts(w, t)
    PROVE  Inv'
<1>1. /\ partner' = partner /\ user' = user /\ open' = open
      /\ work' = [work EXCEPT ![w] = t] /\ t \in Tx
      /\ work \in [Workers -> Tx \cup {None}]
  BY DEF Starts, Inv, TypeOK
<1>2. work' \in [Workers -> Tx \cup {None}]
  BY <1>1
<1>3. /\ work'[w] = t
      /\ \A v \in Workers \ {w} : work'[v] = work[v]
  BY <1>1
<1>4. TypeOK'
  BY <1>1, <1>2 DEF Inv, TypeOK
<1>5. StaffNeverOpened' /\ OneHolder'
  BY <1>1 DEF Inv, StaffNeverOpened, OneHolder, UniqueIn
<1>6. OnlyUnprovenGiveWay'
  <2> SUFFICES ASSUME NEW v \in Workers, ~Idle(v)', work'[v].clean,
                      NEW p \in DOMAIN work'[v].fields \cap DOMAIN partner,
                      work'[v].fields[p].mobile = None
               PROVE  ~partner[p].proven
    BY <1>1 DEF OnlyUnprovenGiveWay
  <2>1. CASE v = w
    BY <2>1, <1>3 DEF Starts, TxFresh
  <2>2. CASE v # w
    BY <2>2, <1>3 DEF Inv, OnlyUnprovenGiveWay, Idle
  <2> QED BY <2>1, <2>2
<1>7. \A v \in Workers : ~Idle(v)' => TxOK(work[v])'
  <2> SUFFICES ASSUME NEW v \in Workers, ~Idle(v)'
               PROVE  TxOK(work[v])'
    OBVIOUS
  <2>1. CASE v = w
    BY <2>1, <1>1, <1>3 DEF Starts, TxOK
  <2>2. CASE v # w
    <3>1. TxOK(work[v])
      BY <2>2, <1>3 DEF Inv, Idle
    <3> QED BY <3>1, <2>2, <1>1, <1>3 DEF TxOK
  <2> QED BY <2>1, <2>2
<1> QED BY <1>4, <1>5, <1>6, <1>7 DEF Inv

\* What a commit does to the tables.
LEMMA CommitTables ==
    ASSUME Inv, NEW w \in Workers, Commit(w)
    PROVE  LET t == work[w]
           IN  /\ t \in Tx /\ TxOK(t) /\ t.clean
               /\ partner' \in Tables(Fields)
               /\ DOMAIN partner' = DOMAIN partner \cup DOMAIN t.fields
               /\ \A p \in DOMAIN t.fields : partner'[p] = t.fields[p]
               /\ \A p \in DOMAIN partner \ DOMAIN t.fields : partner'[p] = partner[p]
               /\ user' \in [DOMAIN partner' -> Kinds]
               /\ \A p \in DOMAIN partner' :
                     user'[p] = "staff" => p \in DOMAIN partner /\ user[p] = "staff"
<1> DEFINE t == work[w]
<1>1. t \in Tx /\ TxOK(t) /\ t.clean
  BY DEF Commit, Inv, TypeOK, Idle
<1>2. partner' = Join(partner, t.fields) /\ user' = Join(user, Join(t.users, [p \in t.new |-> "portal"]))
  BY DEF Commit
<1>3. partner \in Tables(Fields) /\ user \in [DOMAIN partner -> Kinds]
  BY TablesDef DEF Inv, TypeOK
<1>4. t.fields \in Tables(Fields)
  BY <1>1, TxParts
<1>5. partner' \in Tables(Fields) /\ DOMAIN partner' = DOMAIN partner \cup DOMAIN t.fields
  <2>1. \A f \in Tables(Fields) : /\ Join(partner, f) \in Tables(Fields)
                                  /\ DOMAIN Join(partner, f) = DOMAIN partner \cup DOMAIN f
    BY <1>3, JoinTables
  <2> HIDE DEF t
  <2> QED BY <1>2, <1>4, <2>1
<1> HIDE DEF t
<1>6. /\ \A p \in DOMAIN t.fields : partner'[p] = t.fields[p]
      /\ \A p \in DOMAIN partner \ DOMAIN t.fields : partner'[p] = partner[p]
  BY <1>2 DEF Join
<1>7. t.users \in [DOMAIN t.users -> {"portal", "archived"}] /\ DOMAIN t.users \subseteq Accounts
  BY <1>1, TxParts, TablesDef
<1>8. /\ DOMAIN user' = DOMAIN user \cup DOMAIN t.users \cup t.new
      /\ \A p \in t.new : user'[p] = "portal"
      /\ \A p \in DOMAIN t.users \ t.new : user'[p] = t.users[p]
      /\ \A p \in DOMAIN user \ (DOMAIN t.users \cup t.new) : user'[p] = user[p]
      /\ user' = [p \in DOMAIN user' |-> user'[p]]
  BY <1>2 DEF Join
<1>9. DOMAIN user' = DOMAIN partner'
  BY <1>1, <1>3, <1>5, <1>8 DEF TxOK
<1>10. \A p \in DOMAIN partner' :
          /\ user'[p] \in Kinds
          /\ user'[p] = "staff" => p \in DOMAIN partner /\ user[p] = "staff"
  BY <1>3, <1>7, <1>8, <1>9 DEF Kinds
<1>11. user' \in [DOMAIN partner' -> Kinds]
  BY <1>8, <1>9, <1>10
<1> QED BY <1>1, <1>5, <1>6, <1>10, <1>11 DEF t
\* A transaction's commit.
LEMMA CommitKeeps ==
    ASSUME Inv, NEW w \in Workers, Commit(w)
    PROVE  Inv'
<1> DEFINE t == work[w]
<1>1. /\ t \in Tx /\ TxOK(t) /\ t.clean
      /\ partner' \in Tables(Fields)
      /\ DOMAIN partner' = DOMAIN partner \cup DOMAIN t.fields
      /\ \A p \in DOMAIN t.fields : partner'[p] = t.fields[p]
      /\ \A p \in DOMAIN partner \ DOMAIN t.fields : partner'[p] = partner[p]
      /\ user' \in [DOMAIN partner' -> Kinds]
      /\ \A p \in DOMAIN partner' : user'[p] = "staff" => p \in DOMAIN partner /\ user[p] = "staff"
  BY CommitTables
<1>2. /\ open' = (open \ t.out) \cup t.in
      /\ work' = [v \in Workers |->
                     IF v = w THEN None
                     ELSE IF work[v] # None /\ Overlap(work[v], t.fields, t.users)
                     THEN [work[v] EXCEPT !.clean = FALSE] ELSE work[v]]
      /\ UniqueIn(Join(partner, t.fields)) /\ partner' = Join(partner, t.fields)
  BY DEF Commit
<1> HIDE DEF t
<1>3. /\ work'[w] = None
      /\ \A v \in Workers : ~Idle(v)' =>
            /\ v # w /\ ~Idle(v) /\ work[v] \in Tx /\ work'[v] \in Tx
            /\ work'[v] \in {work[v], [work[v] EXCEPT !.clean = FALSE]}
            /\ work'[v].clean =>
                  work'[v] = work[v] /\ DOMAIN work[v].fields \cap DOMAIN t.fields = {}
  <2> SUFFICES ASSUME NEW v \in Workers, ~Idle(v)', v # w
               PROVE  /\ ~Idle(v) /\ work[v] \in Tx /\ work'[v] \in Tx
                      /\ work'[v] \in {work[v], [work[v] EXCEPT !.clean = FALSE]}
                      /\ work'[v].clean =>
                            work'[v] = work[v] /\ DOMAIN work[v].fields \cap DOMAIN t.fields = {}
    BY <1>2 DEF Idle
  <2>1. work'[v] = IF work[v] # None /\ Overlap(work[v], t.fields, t.users)
                   THEN [work[v] EXCEPT !.clean = FALSE] ELSE work[v]
    BY <1>2
  <2>2. ~Idle(v)
    BY <2>1 DEF Idle
  <2>3. work[v] \in Tx
    BY <2>2 DEF Inv, TypeOK, Idle
  <2>4. [work[v] EXCEPT !.clean = FALSE] \in Tx
    BY <2>3, TxParts
  <2>5. [work[v] EXCEPT !.clean = FALSE].clean = FALSE
    BY <2>3 DEF Tx
  <2> QED BY <2>1, <2>2, <2>3, <2>4, <2>5 DEF Overlap, Idle
<1>4. TypeOK'
  <2>1. DOMAIN partner' \subseteq Accounts /\ partner' \in [DOMAIN partner' -> Fields]
    BY <1>1, TablesDef
  <2>2. \A p \in DOMAIN partner' : partner'[p].mobile = None => partner'[p] = NoNumber
    BY <1>1 DEF TxOK, Inv, TypeOK
  <2>3. open' \subseteq DOMAIN partner'
    BY <1>1, <1>2 DEF TxOK, Inv, TypeOK
  <2>4. work' \in [Workers -> Tx \cup {None}]
    <3>1. \A v \in Workers : work'[v] \in Tx \cup {None}
      BY <1>3 DEF Idle
    <3>2. work' = [v \in Workers |-> work'[v]]
      BY <1>2
    <3> QED BY <3>1, <3>2
  <2> QED BY <1>1, <2>1, <2>2, <2>3, <2>4 DEF TypeOK
<1>5. StaffNeverOpened'
  <2> SUFFICES ASSUME NEW p \in open', user'[p] = "staff"
               PROVE  FALSE
    BY DEF StaffNeverOpened
  <2>1. p \in DOMAIN partner /\ user[p] = "staff"
    BY <1>1, <1>4 DEF TypeOK
  <2>2. CASE p \in t.in
    BY <1>1, <2>1, <2>2 DEF TxOK
  <2>3. CASE p \in open
    BY <2>1, <2>3 DEF Inv, StaffNeverOpened
  <2> QED BY <1>2, <2>2, <2>3
<1>6. OnlyUnprovenGiveWay'
  <2> SUFFICES ASSUME NEW v \in Workers, ~Idle(v)', work'[v].clean,
                      NEW p \in DOMAIN work'[v].fields \cap DOMAIN partner',
                      work'[v].fields[p].mobile = None
               PROVE  ~partner'[p].proven
    BY DEF OnlyUnprovenGiveWay
  <2>1. work'[v] = work[v] /\ p \notin DOMAIN t.fields /\ ~Idle(v)
    BY <1>3
  <2>2. p \in DOMAIN partner /\ partner'[p] = partner[p]
    BY <1>1, <2>1
  <2> QED BY <2>1, <2>2 DEF Inv, OnlyUnprovenGiveWay
<1>7. OneHolder'
  BY <1>2 DEF OneHolder
<1>8. \A v \in Workers : ~Idle(v)' => TxOK(work[v])'
  <2> SUFFICES ASSUME NEW v \in Workers, ~Idle(v)'
               PROVE  TxOK(work[v])'
    OBVIOUS
  <2>1. TxOK(work[v]) /\ work[v] \in Tx
    BY <1>3 DEF Inv
  <2>2. /\ work'[v].fields = work[v].fields /\ work'[v].users = work[v].users
        /\ work'[v].new = work[v].new /\ work'[v].in = work[v].in
    BY <1>3, <2>1 DEF Tx
  <2>3. \A p \in work[v].in \cap DOMAIN partner' : user'[p] # "staff"
    BY <1>1, <2>1 DEF TxOK
  <2> QED BY <1>1, <2>1, <2>2, <2>3 DEF TxOK
<1> QED BY <1>4, <1>5, <1>6, <1>7, <1>8 DEF Inv

\* A transaction's end without a commit.
LEMMA AbortKeeps ==
    ASSUME Inv, NEW w \in Workers, Abort(w)
    PROVE  Inv'
<1>1. /\ partner' = partner /\ user' = user /\ open' = open
      /\ work' = [work EXCEPT ![w] = None] /\ work \in [Workers -> Tx \cup {None}]
  BY DEF Abort, Inv, TypeOK
<1>2. /\ work' \in [Workers -> Tx \cup {None}]
      /\ \A v \in Workers : ~Idle(v)' => ~Idle(v) /\ work'[v] = work[v]
  BY <1>1 DEF Idle
<1>3. TypeOK'
  BY <1>1, <1>2 DEF Inv, TypeOK
<1>4. StaffNeverOpened' /\ OneHolder'
  BY <1>1 DEF Inv, StaffNeverOpened, OneHolder, UniqueIn
<1>5. OnlyUnprovenGiveWay'
  BY <1>1, <1>2 DEF Inv, OnlyUnprovenGiveWay
<1>6. \A v \in Workers : ~Idle(v)' => TxOK(work[v])'
  BY <1>1, <1>2 DEF Inv, TxOK
<1> QED BY <1>3, <1>4, <1>5, <1>6 DEF Inv

\* Every step is the beginning of a request, a commit or an abort.
LEMMA Steps ==
    ASSUME TypeOK, Next
    PROVE  \E w \in Workers : (\E t : Starts(w, t)) \/ Commit(w) \/ Abort(w)
<1>1. PICK w \in Workers :
        \/ \E p \in Accounts, m \in Mobiles : Claim(w, p, m)
        \/ \E m \in Mobiles : EnterProven(w, m)
        \/ \E m \in Mobiles : EnterWritten(w, m)
        \/ \E m \in Mobiles : EnterNew(w, m)
        \/ \E p \in Accounts, m \in Mobiles : StaffCreate(w, p, m)
        \/ \E p \in Accounts : StaffRole(w, p)
        \/ \E p \in Accounts, m \in Mobiles : StaffChange(w, p, m)
        \/ \E p \in Accounts : Archive(w, p)
        \/ Commit(w)
        \/ Abort(w)
  BY DEF Next
<1>2. CASE \E p \in Accounts, m \in Mobiles : Claim(w, p, m)
  BY <1>2, ClaimStarts
<1>3. CASE \E m \in Mobiles : EnterProven(w, m)
  BY <1>3, EnterProvenStarts
<1>4. CASE \E m \in Mobiles : EnterWritten(w, m)
  BY <1>4, EnterWrittenStarts
<1>5. CASE \E m \in Mobiles : EnterNew(w, m)
  BY <1>5, EnterNewStarts
<1>6. CASE \E p \in Accounts, m \in Mobiles : StaffCreate(w, p, m)
  BY <1>6, StaffCreateStarts
<1>7. CASE \E p \in Accounts : StaffRole(w, p)
  BY <1>7, StaffRoleStarts
<1>8. CASE \E p \in Accounts, m \in Mobiles : StaffChange(w, p, m)
  BY <1>8, StaffChangeStarts
<1>9. CASE \E p \in Accounts : Archive(w, p)
  BY <1>9, ArchiveStarts
<1> QED BY <1>1, <1>2, <1>3, <1>4, <1>5, <1>6, <1>7, <1>8, <1>9

LEMMA NextKeeps ==
    ASSUME Inv, [Next]_vars
    PROVE  Inv'
<1>1. CASE Next
  BY <1>1, Steps, StartKeeps, CommitKeeps, AbortKeeps DEF Inv
<1>2. CASE UNCHANGED vars
  BY <1>2 DEF vars, Inv, TypeOK, StaffNeverOpened, OnlyUnprovenGiveWay, OneHolder, UniqueIn, TxOK, Idle
<1> QED BY <1>1, <1>2

LEMMA Invariance == Spec => []Inv
<1>1. Init => Inv
  BY InitInv
<1>2. Inv /\ [Next]_vars => Inv'
  BY NextKeeps
<1> QED BY <1>1, <1>2, PTL DEF Spec

\* The records, the users and the transactions under way always have their types, and a record
\* without a number carries neither a proof nor staff's mark.
THEOREM TypeCorrect == Spec => []TypeOK
<1>1. Inv => TypeOK
  BY DEF Inv
<1> QED BY <1>1, Invariance, PTL

\* No SMS ever signs a browser in to a staff account.
THEOREM StaffSafe == Spec => []StaffNeverOpened
<1>1. Inv => StaffNeverOpened
  BY DEF Inv
<1> QED BY <1>1, Invariance, PTL

\* Whatever commits while a request is under way, it takes a number only from accounts that have
\* not proven it by then.
THEOREM ProvenSafe == Spec => []OnlyUnprovenGiveWay
<1>1. Inv => OnlyUnprovenGiveWay
  BY DEF Inv
<1> QED BY <1>1, Invariance, PTL
-----------------------------------------------------------------------------
(* Numbers implements Ownership *)

\* The owner of a number is the account that has proven it.
LEMMA OwnerIs ==
    ASSUME TypeOK, OneHolder, NEW m \in Mobiles
    PROVE  /\ Owner[m] \in Accounts \cup {None}
           /\ \A p \in Accounts : Owner[m] = p <=> p \in ProvenHolders(m)
<1>1. ProvenHolders(m) \subseteq Accounts
  BY DEF TypeOK, ProvenHolders, Holders
<1>2. ASSUME NEW p \in ProvenHolders(m), NEW q \in ProvenHolders(m) PROVE p = q
  <2>1. m # None
    BY NoneAssumption
  <2> QED BY <2>1 DEF OneHolder, UniqueIn, ProvenHolders, Holders
<1>3. Owner[m] = IF ProvenHolders(m) = {} THEN None ELSE CHOOSE p \in ProvenHolders(m) : TRUE
  BY DEF Owner
<1>4. CASE ProvenHolders(m) = {}
  BY <1>3, <1>4, NoneAssumption
<1>5. CASE ProvenHolders(m) # {}
  <2>1. Owner[m] \in ProvenHolders(m)
    BY <1>3, <1>5
  <2> QED BY <1>1, <1>2, <2>1
<1> QED BY <1>4, <1>5

LEMMA OwnerPrimed ==
    ASSUME TypeOK', OneHolder', NEW m \in Mobiles
    PROVE  /\ Owner'[m] \in Accounts \cup {None}
           /\ \A p \in Accounts : Owner'[m] = p <=> p \in ProvenHolders(m)'
<1>1. ProvenHolders(m)' \subseteq Accounts
  BY DEF TypeOK, ProvenHolders, Holders
<1>2. ASSUME NEW p \in ProvenHolders(m)', NEW q \in ProvenHolders(m)' PROVE p = q
  <2>1. m # None
    BY NoneAssumption
  <2> QED BY <2>1 DEF OneHolder, UniqueIn, ProvenHolders, Holders
<1>3. Owner'[m] = IF ProvenHolders(m)' = {} THEN None ELSE CHOOSE p \in ProvenHolders(m)' : TRUE
  BY DEF Owner
<1>4. CASE ProvenHolders(m)' = {}
  BY <1>3, <1>4, NoneAssumption
<1>5. CASE ProvenHolders(m)' # {}
  <2>1. Owner'[m] \in ProvenHolders(m)'
    BY <1>3, <1>5
  <2> QED BY <1>1, <1>2, <2>1
<1> QED BY <1>4, <1>5

\* After a commit an account has proven a number if the commit says so, or if it had and is not
\* the one the commit gives a number to.
LEMMA CommitOwners ==
    ASSUME Inv, NEW w \in Workers, Commit(w)
    PROVE  \E a \in Accounts :
             \A m \in Mobiles, p \in Accounts :
               p \in ProvenHolders(m)' <=>
                 \/ /\ p = a /\ a \in DOMAIN work[w].fields
                    /\ work[w].fields[a].mobile = m /\ work[w].fields[a].proven
                 \/ /\ ~(p = a /\ a \in DOMAIN work[w].fields)
                    /\ p \in ProvenHolders(m)
<1> DEFINE f == work[w].fields
<1>1. /\ TxOK(work[w])
      /\ partner' \in Tables(Fields)
      /\ DOMAIN partner' = DOMAIN partner \cup DOMAIN f
      /\ \A p \in DOMAIN f : partner'[p] = f[p]
      /\ \A p \in DOMAIN partner \ DOMAIN f : partner'[p] = partner[p]
  BY CommitTables
<1>2. PICK a \in Accounts : \A p \in DOMAIN f \ {a} : f[p].mobile = None
  BY <1>1 DEF TxOK, OneSubject
<1>3. \A p \in DOMAIN f \cap DOMAIN partner : f[p].mobile = None => ~partner[p].proven
  BY DEF Inv, OnlyUnprovenGiveWay, Commit
<1> HIDE DEF f
<1>4. ASSUME NEW m \in Mobiles, NEW p \in Accounts
      PROVE  p \in ProvenHolders(m)' <=>
                 \/ p = a /\ a \in DOMAIN f /\ f[a].mobile = m /\ f[a].proven
                 \/ ~(p = a /\ a \in DOMAIN f) /\ p \in ProvenHolders(m)
  <2>1. p \in ProvenHolders(m) <=> p \in DOMAIN partner /\ partner[p].mobile = m /\ partner[p].proven
    BY DEF ProvenHolders, Holders
  <2>2. p \in ProvenHolders(m)' <=>
            p \in DOMAIN partner' /\ partner'[p].mobile = m /\ partner'[p].proven
    BY DEF ProvenHolders, Holders
  <2>3. m # None
    BY NoneAssumption
  <2>4. CASE p = a /\ a \in DOMAIN f
    BY <1>1, <2>2, <2>4
  <2>5. CASE p # a /\ p \in DOMAIN f
    BY <1>1, <1>2, <1>3, <2>1, <2>2, <2>3, <2>5
  <2>6. CASE p \notin DOMAIN f
    BY <1>1, <2>1, <2>2, <2>6
  <2> QED BY <2>4, <2>5, <2>6
<1> QED BY <1>4 DEF f

\* A commit proves a number nobody else has proven, makes an account let go of its number, or
\* leaves the owners as they are.
LEMMA CommitRefines ==
    ASSUME Inv, Inv', NEW w \in Workers, Commit(w)
    PROVE  O!Next \/ Owner' = Owner
<1> DEFINE f == work[w].fields
<1>1. PICK a \in Accounts :
         \A m \in Mobiles, p \in Accounts :
           p \in ProvenHolders(m)' <=>
             \/ p = a /\ a \in DOMAIN f /\ f[a].mobile = m /\ f[a].proven
             \/ ~(p = a /\ a \in DOMAIN f) /\ p \in ProvenHolders(m)
  BY CommitOwners
<1>2. /\ Owner = [m \in Mobiles |-> Owner[m]] /\ Owner' = [m \in Mobiles |-> Owner'[m]]
      /\ \A m \in Mobiles : /\ Owner[m] \in Accounts \cup {None}
                            /\ Owner'[m] \in Accounts \cup {None}
      /\ \A m \in Mobiles, p \in Accounts : /\ Owner[m] = p <=> p \in ProvenHolders(m)
                                            /\ Owner'[m] = p <=> p \in ProvenHolders(m)'
  <2>1. Owner = [m \in Mobiles |-> Owner[m]] /\ Owner' = [m \in Mobiles |-> Owner'[m]]
    BY DEF Owner
  <2>2. \A m \in Mobiles : /\ Owner[m] \in Accounts \cup {None}
                           /\ \A p \in Accounts : Owner[m] = p <=> p \in ProvenHolders(m)
    BY OwnerIs DEF Inv
  <2>3. \A m \in Mobiles : /\ Owner'[m] \in Accounts \cup {None}
                           /\ \A p \in Accounts : Owner'[m] = p <=> p \in ProvenHolders(m)'
    BY OwnerPrimed DEF Inv
  <2> QED BY <2>1, <2>2, <2>3
<1>3. None \notin Accounts
  BY NoneAssumption
<1> HIDE DEF f
<1>4. CASE a \notin DOMAIN f
  <2>1. \A m \in Mobiles : Owner'[m] = Owner[m]
    BY <1>1, <1>2, <1>3, <1>4
  <2> QED BY <1>2, <2>1
<1>5. CASE a \in DOMAIN f /\ \A m \in Mobiles : ~(f[a].mobile = m /\ f[a].proven)
  <2>1. \A m \in Mobiles : Owner'[m] = IF Owner[m] = a THEN None ELSE Owner[m]
    BY <1>1, <1>2, <1>3, <1>5
  <2>2. Owner' = [m \in Mobiles |-> IF Owner[m] = a THEN None ELSE Owner[m]]
    BY <1>2, <2>1
  <2> QED BY <2>2 DEF O!Next, O!LetGo
<1>6. CASE a \in DOMAIN f /\ \E m \in Mobiles : f[a].mobile = m /\ f[a].proven
  <2>1. PICK m \in Mobiles : f[a].mobile = m /\ f[a].proven
    BY <1>6
  <2>2. a \in ProvenHolders(m)' /\ Owner'[m] = a
    BY <1>1, <1>2, <1>6, <2>1
  <2>3. Owner[m] \in {None, a}
    <3> SUFFICES ASSUME NEW h \in Accounts, Owner[m] = h, h # a
                 PROVE  FALSE
      BY <1>2
    <3>1. h \in ProvenHolders(m)'
      BY <1>1, <1>2
    <3> QED BY <1>2, <2>2, <3>1
  <2>4. \A x \in Mobiles \ {m} : Owner'[x] = IF Owner[x] = a THEN None ELSE Owner[x]
    BY <1>1, <1>2, <1>3, <1>6, <2>1
  <2>5. Owner' = [x \in Mobiles |-> IF x = m THEN a ELSE IF Owner[x] = a THEN None ELSE Owner[x]]
    BY <1>2, <2>2, <2>4
  <2> QED BY <2>3, <2>5 DEF O!Next, O!Prove
<1> QED BY <1>4, <1>5, <1>6

LEMMA NextRefines ==
    ASSUME Inv, Inv', [Next]_vars
    PROVE  [O!Next]_Owner
<1>1. CASE Next
  <2>1. PICK w \in Workers : (\E t : Starts(w, t)) \/ Commit(w) \/ Abort(w)
    BY <1>1, Steps DEF Inv
  <2>2. CASE (\E t : Starts(w, t)) \/ Abort(w)
    <3>1. partner' = partner
      BY <2>2 DEF Starts, Abort
    <3> QED BY <3>1 DEF Owner, ProvenHolders, Holders
  <2>3. CASE Commit(w)
    BY <2>3, CommitRefines
  <2> QED BY <2>1, <2>2, <2>3
<1>2. CASE UNCHANGED vars
  BY <1>2 DEF vars, Owner, ProvenHolders, Holders
<1> QED BY <1>1, <1>2

LEMMA InitRefines ==
    ASSUME Init
    PROVE  O!Init
<1>1. \A m \in Mobiles : ProvenHolders(m) = {}
  <2>1. \A p \in DOMAIN partner : partner[p].proven = FALSE
    BY DEF Init, NoNumber
  <2> QED BY <2>1 DEF ProvenHolders, Holders
<1> QED BY <1>1 DEF O!Init, Owner

\* Whatever requests run side by side, a number an account has proven passes to nobody else
\* before the account proves another one or staff take it off it.
THEOREM Implements == Spec => Owned
<1>1. Init => O!Init
  BY InitRefines
<1>2. Inv /\ Inv' /\ [Next]_vars => [O!Next]_Owner
  BY NextRefines
<1> QED BY <1>1, <1>2, Invariance, PTL DEF Spec, Owned, O!Spec
=============================================================================
