------------------------------- MODULE Numbers -------------------------------
(***************************************************************************)
(* Which account a mobile number belongs to: the partner records of        *)
(* ikiku_base and ikiku_portal.  A number is written on an account by the  *)
(* account's holder with an SMS code (_claim), by whoever signs in with it *)
(* (_enter_account), or by staff who create an account or change its       *)
(* number (staff_tools.py).                                                *)
(*                                                                         *)
(* Each is a request to the server and a transaction of its own, run from  *)
(* the snapshot of its first query (REPEATABLE READ): one step reads and   *)
(* decides, another commits.  A commit that would overwrite a record       *)
(* somebody else has written since is refused, and so is one that puts a   *)
(* number on two records (UNIQUE(ikiku_mobile)).                           *)
(*                                                                         *)
(* Names, phones, chatter, roles and groups are left out, and so are       *)
(* national ids: the one on the card is the one on the record.  Requests   *)
(* that are turned down before they write anything are no actions.         *)
(***************************************************************************)
EXTENDS Naturals, FiniteSets

CONSTANTS
    Accounts,           \* partner records that exist or may be created
    Mobiles,            \* numbers, already normalised
    Workers,            \* threads that serve requests
    None                \* an empty field, an idle worker

ASSUME NoneAssumption == None \notin Accounts \cup Mobiles

VARIABLES
    partner,            \* the records: account -> its number fields
    user,               \* the user of each account
    open,               \* accounts a browser is signed in to after an SMS code
    work                \* each worker's transaction between its snapshot and its commit

vars == <<partner, user, open, work>>

\* ikiku_mobile, ikiku_mobile_verified_on and ikiku_mobile_set_by_id
Fields == [mobile : Mobiles \cup {None}, proven : BOOLEAN, byStaff : BOOLEAN]
\* A share user, active or archived; `staff' is an internal one, archived or not.
Kinds == {"none", "portal", "archived", "staff"}

NoNumber == [mobile |-> None, proven |-> FALSE, byStaff |-> FALSE]
Exists(p) == p \in DOMAIN partner
Holders(m) == {p \in DOMAIN partner : partner[p].mobile = m}
ProvenHolders(m) == {p \in Holders(m) : partner[p].proven}

\* What a transaction will write: number fields, users it changes (`users') and creates (`new'),
\* accounts it signs in and out.
Nothing == [p \in {} |-> None]
Only(p, x) == [q \in {p} |-> x]
Idle(w) == work[w] = None
Tx == [fields : UNION {[D -> Fields] : D \in SUBSET Accounts},
       users : UNION {[D -> {"portal", "archived"}] : D \in SUBSET Accounts},
       new : SUBSET Accounts, in : SUBSET Accounts, out : SUBSET Accounts, clean : BOOLEAN]

Begin(w, fields, users, new, in, out) ==
    /\ Idle(w)
    /\ work' = [work EXCEPT ![w] = [fields |-> fields, users |-> users, new |-> new,
                                    in |-> in, out |-> out, clean |-> TRUE]]
    /\ UNCHANGED <<partner, user, open>>

-----------------------------------------------------------------------------
(* Writing the fields *)

\* mutant: a number somebody else writes still passes for the one staff wrote
RewriteKeepsStaff(f, m) ==
    IF f.mobile = m THEN f ELSE [f EXCEPT !.mobile = m, !.proven = FALSE]

\* res.partner write of a number alone: "A number changed without its proof is no longer the
\* number that was proven", and no longer the one staff wrote.
Rewrite(f, m) ==
    IF f.mobile = m THEN f ELSE [mobile |-> m, proven |-> FALSE, byStaff |-> FALSE]

\* res.partner write of a number with its proof
Proved(f, m) == [Rewrite(f, m) EXCEPT !.proven = TRUE]

\* _release_unproven: the number is taken off `others'.
Released(others) == [p \in others |-> Rewrite(partner[p], None)]

\* _portal_user_for: the account's portal user is activated, or made if it has none.  Two made at
\* the same moment are two users of one account; here they are its one `portal'.
Activated(p) == IF Exists(p) /\ user[p] = "archived" THEN Only(p, "portal") ELSE Nothing
Made(p) == IF ~Exists(p) \/ user[p] = "none" THEN {p} ELSE {}

\* An id no transaction has used: the sequence gives each its own.
Fresh(p) == p \notin DOMAIN partner /\ \A w \in Workers : ~Idle(w) => p \notin DOMAIN work[w].fields

Join(f, g) == [p \in DOMAIN f \cup DOMAIN g |-> IF p \in DOMAIN g THEN g[p] ELSE f[p]]

-----------------------------------------------------------------------------
(* Requests *)

\* mutant: a number proven for another account can be claimed
ClaimTaken(w, p, m) ==
    /\ Exists(p)
    /\ user[p] \in {"portal", "staff"}
    /\ Begin(w, Join(Released(Holders(m) \ {p}), Only(p, Proved(partner[p], m))),
             Nothing, {}, {}, {})

\* check of a `verify' challenge, _claim: a signed-in account types the code sent to `m'.
Claim(w, p, m) ==
    /\ Exists(p)
    /\ user[p] \in {"portal", "staff"}
    /\ ProvenHolders(m) \subseteq {p}
    /\ Begin(w, Join(Released(Holders(m) \ {p}), Only(p, Proved(partner[p], m))),
             Nothing, {}, {}, {})

\* _issue_login: the account is opened in the browser the code was typed in.
SignIn(w, p, fields) == Begin(w, fields, Activated(p), Made(p), {p}, {})

\* mutant: the account that proved the number is opened whoever it belongs to
EnterAnyProven(w, m) == \E p \in ProvenHolders(m) : SignIn(w, p, Nothing)

\* _enter_account, first case: the account that already proved the number, unless it is staff's.
EnterProven(w, m) ==
    \E p \in ProvenHolders(m) : user[p] # "staff" /\ SignIn(w, p, Nothing)

\* second case: the account staff wrote the number on.
EnterWritten(w, m) ==
    /\ ProvenHolders(m) = {}
    /\ \E p \in Holders(m) :
          /\ partner[p].byStaff
          /\ user[p] # "staff"
          /\ SignIn(w, p, Join(Released(Holders(m) \ {p}), Only(p, Proved(partner[p], m))))

\* otherwise: a new account.
EnterNew(w, m) ==
    /\ ProvenHolders(m) = {}
    /\ \A p \in Holders(m) : ~partner[p].byStaff
    /\ \E p \in Accounts :
          /\ Fresh(p)
          /\ SignIn(w, p, Join(Released(Holders(m)),
                               Only(p, [mobile |-> m, proven |-> TRUE, byStaff |-> FALSE])))

Written(m) == [mobile |-> m, proven |-> FALSE, byStaff |-> TRUE]

\* ikiku.staff.create action_create: an account for a number nobody has, on a contact staff
\* already have (`adopt') or on a new one; _ikiku_grant_role gives it a portal user.
StaffCreate(w, p, m) ==
    /\ Holders(m) = {}
    /\ \/ Fresh(p)
       \/ Exists(p) /\ partner[p].mobile = None /\ user[p] # "staff"
    /\ Begin(w, Only(p, Written(m)), Activated(p), Made(p), {}, {})

\* ikiku.staff.role action_apply: a second side for an account with a number.
StaffRole(w, p) ==
    /\ Exists(p)
    /\ partner[p].mobile # None
    /\ user[p] \in {"none", "archived"}
    /\ Begin(w, Nothing, Activated(p), Made(p), {}, {})

\* mutant: staff may move a number another account has proven
ChangeTaken(w, p, m) ==
    /\ Exists(p)
    /\ Begin(w, Join(Released(Holders(m) \ {p}), Only(p, Written(m))),
             Nothing, {}, {}, IF user[p] = "portal" THEN {p} ELSE {})

\* ikiku.mobile.change action_apply: staff give an account another number; its next sign-in
\* proves it.  The devices of its active portal user are signed out.
StaffChange(w, p, m) ==
    /\ Exists(p)
    /\ ProvenHolders(m) \subseteq {p}
    /\ Begin(w, Join(Released(Holders(m) \ {p}), Only(p, Written(m))),
             Nothing, {}, {}, IF user[p] = "portal" THEN {p} ELSE {})

\* The backend archives a portal user.
Archive(w, p) ==
    /\ Exists(p)
    /\ user[p] = "portal"
    /\ Begin(w, Nothing, Only(p, "archived"), {}, {}, {})

-----------------------------------------------------------------------------
(* The end of a transaction *)

\* UNIQUE(ikiku_mobile), of the table as it would be
UniqueIn(table) ==
    \A p, q \in DOMAIN table : table[p].mobile = table[q].mobile /\ table[p].mobile # None => p = q

Overlap(t, fields, users) ==
    DOMAIN t.fields \cap DOMAIN fields # {} \/ DOMAIN t.users \cap DOMAIN users # {}

Commit(w) ==
    LET t == work[w]
    IN  /\ ~Idle(w)
        /\ t.clean
        /\ UniqueIn(Join(partner, t.fields))
        /\ partner' = Join(partner, t.fields)
        /\ user' = Join(user, Join(t.users, [p \in t.new |-> "portal"]))
        /\ open' = (open \ t.out) \cup t.in
        /\ work' = [v \in Workers |->
                      IF v = w THEN None
                      ELSE IF work[v] # None /\ Overlap(work[v], t.fields, t.users)
                      THEN [work[v] EXCEPT !.clean = FALSE] ELSE work[v]]

\* The database refuses the commit, or the request dies: nothing is written.
Abort(w) ==
    /\ ~Idle(w)
    /\ work' = [work EXCEPT ![w] = None]
    /\ UNCHANGED <<partner, user, open>>

Init ==
    /\ \E D \in SUBSET Accounts :
          /\ partner = [p \in D |-> NoNumber]
          /\ user \in [D -> {"none", "portal", "staff"}]
    /\ open = {}
    /\ work = [w \in Workers |-> None]

Next ==
    \E w \in Workers :
        \/ \E p \in Accounts, m \in Mobiles : Claim(w, p, m)
        \/ \E m \in Mobiles : EnterProven(w, m)
        \/ \E m \in Mobiles : EnterWritten(w, m)
        \/ \E m \in Mobiles : EnterNew(w, m)
        \/ \E p \in Accounts, m \in Mobiles : StaffCreate(w, p, m)
        \/ \E p \in Accounts : StaffRole(w, p)
        \/ \E p \in Accounts, m \in Mobiles : StaffChange(w, p, m)
        \/ \E p \in Accounts : Archive(w, p)
        \/ Commit(w)
        \/ Abort(w)

Spec == Init /\ [][Next]_vars

-----------------------------------------------------------------------------
(* Properties *)

\* Every variable has its type, every account has its user, and the proof and staff's mark are
\* those of a number the record still has.
TypeOK ==
    /\ DOMAIN partner \subseteq Accounts
    /\ partner \in [DOMAIN partner -> Fields]
    /\ \A p \in DOMAIN partner : partner[p].mobile = None => partner[p] = NoNumber
    /\ user \in [DOMAIN partner -> Kinds]
    /\ open \subseteq DOMAIN partner
    /\ work \in [Workers -> Tx \cup {None}]

\* "A number proven for a staff (internal) account never opens anything here", and neither does
\* one staff wrote on it: no browser is signed in to a staff account by an SMS.
StaffNeverOpened == \A p \in open : user[p] # "staff"

\* "An unproven claim on the number gives way": as long as a transaction may commit, the accounts
\* it takes a number from have not proven it, although they could since it looked.
OnlyUnprovenGiveWay ==
    \A w \in Workers :
        ~Idle(w) /\ work[w].clean =>
            \A p \in DOMAIN work[w].fields \cap DOMAIN partner :
                work[w].fields[p].mobile = None => ~partner[p].proven

\* A number is on one record at most, and has one owner at most: whoever has proven it.
OneHolder == UniqueIn(partner)
Owner == [m \in Mobiles |->
            IF ProvenHolders(m) = {} THEN None ELSE CHOOSE p \in ProvenHolders(m) : TRUE]

\* Whatever requests run side by side, a proven number is nobody else's until the account that
\* proved it has let go of it.
O == INSTANCE Ownership WITH owner <- Owner
Owned == O!Spec

\* res_partner.py, of a number staff wrote: whoever has the SIM and types the code signs in to
\* this very account.  The number must then not be proven for another account.
WrittenIsTheirs ==
    [][\A m \in Mobiles, p \in DOMAIN partner :
          partner[p].byStaff /\ partner[p].mobile = m /\ ~partner[p].proven
          => Owner'[m] \in {None, p}]_vars
=============================================================================
