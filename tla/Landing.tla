-------------------------------- MODULE Landing --------------------------------
(***************************************************************************)
(* Where somebody lands: the doors, the sign-in and the pages that send a      *)
(* person on to another (ikiku_portal/controllers/auth.py, site.py, portal.py). *)
(*                                                                         *)
(* An account holds up to two sides, a worker's page (ki) and a business (ku);    *)
(* the browser's session remembers the one opened last, which may have been lost  *)
(* since.  A page answers with itself or with the address of another, and some    *)
(* make a side by being opened.  The questions of a side are one page, and a       *)
(* business one address; sign-in by SMS is enabled.                            *)
(***************************************************************************)
EXTENDS Naturals, FiniteSets

CONSTANTS
    None,
    MaxHops,            \* redirects a browser is sent through at most
    MaxOpens            \* bound: addresses opened

VARIABLES
    account,            \* [who, mobile, sides, told]: who is signed in here, and what the account holds
    last,               \* the session's ikiku_side
    start,              \* the address the person opened, or how they signed in
    at,                 \* the address the browser is at
    hops,               \* redirects since `start'
    opens

vars == <<account, last, start, at, hops, opens>>

ROLES == {"ki", "ku"}
SIDE_HOME == [ki |-> "/me", ku |-> "/business"]
SIDE_START == [ki |-> "/join", ku |-> "/business/name"]
DOOR == [ki |-> "/ki", ku |-> "/ku"]
CHOOSE_PAGE == "/my"
Doors == {"/", "/#ikiku-doors", "/ki", "/ku", "/enter", "/enter?as=ki", "/enter?as=ku"}
Own == {"/my", "/my/account", "/me", "/business", "/business/name", "/join"}     \* of who is signed in
Pages == Doors \cup Own \cup {"/odoo", "/join/questions"}
Elsewhere == "//elsewhere"                                  \* an address that is not of this site
Accounts == [who : {"public", "portal", "staff"}, mobile : {"none", "written", "proven"}, sides : SUBSET ROLES,
             told : BOOLEAN]                                \* whether a worker answered every question
TypeOK ==
    /\ account \in Accounts
    /\ last \in {None} \cup ROLES /\ at \in Pages /\ start \in Pages \cup {"signed_in"}
    /\ hops \in Nat /\ opens \in 0..MaxOpens

\* ikiku_sides: of a portal account only.
Sides(a) == IF a.who = "portal" THEN a.sides ELSE {}
\* ikiku_home_for: its only side, the one opened last, or the page that asks.
HomeFor(a) ==
    LET sides == Sides(a)
    IN IF sides = {} THEN None
       ELSE IF Cardinality(sides) = 1 THEN SIDE_HOME[CHOOSE s \in sides : TRUE]
       ELSE IF last \in sides THEN SIDE_HOME[last] ELSE CHOOSE_PAGE

Or(page, other) == IF page = None THEN other ELSE page
NextStarts(a, role) ==                 \* mutant: whoever lacks the side begins it
    IF role = None THEN Or(HomeFor(a), "/join")
    ELSE IF role \in Sides(a) THEN SIDE_HOME[role] ELSE SIDE_START[role]
\* _next, after signing in: a named door wins, and asks before a second side is made.
NextPage(a, role) ==
    IF role = None THEN Or(HomeFor(a), "/join")
    ELSE IF role \in Sides(a) THEN SIDE_HOME[role]
    ELSE IF Sides(a) # {} THEN DOOR[role] ELSE SIDE_START[role]

\* safe_redirect
Safe(url) == IF url = Elsewhere THEN None ELSE url
\* _after_sign_in, by SMS: where they were going, unless that is no place for them.
AfterSignIn(a, role, fromLogin, url) ==
    LET wanted == Safe(url)
        none == wanted \in {None, "/", CHOOSE_PAGE} \/ (a.who = "portal" /\ wanted = "/odoo")
    IN IF ~none THEN wanted
       ELSE IF fromLogin /\ role = None /\ Sides(a) = {} THEN "/#ikiku-doors"
       ELSE NextPage(a, role)

\* _door: the way in for who is not signed in, and a question for who holds the other side.
Door(role) ==
    LET sides == Sides(account)
    IN CASE account.who = "staff" -> "/odoo"
         [] role \in sides -> SIDE_HOME[role]
         [] account.who = "portal" /\ sides = {} -> SIDE_START[role]
         [] OTHER -> DOOR[role]
\* enter: the number screen, for who has not proven a number.
Enter(page, role) == IF account.who # "public" /\ account.mobile = "proven" THEN NextPage(account, role) ELSE page
\* home: the choice between two sides, a side, the doors, or Odoo's own page.
Home ==
    IF Sides(account) = ROLES /\ last \notin ROLES THEN "/my"
    ELSE IF HomeFor(account) # None THEN HomeFor(account)
    ELSE IF account.who = "portal" /\ account.mobile # "none" THEN "/#ikiku-doors" ELSE "/my"
\* _staff_elsewhere
OfTheirs(page) == IF account.who = "staff" THEN "/odoo" ELSE page

\* _worker_next, with a number that is proven: the first question that has no answer.
Worker == IF account.told THEN "/me" ELSE "/join/questions"
\* The address a page answers with; its own when it is shown.
Answer(page) ==
    CASE page = "/ki" -> Door("ki")
      [] page = "/ku" -> Door("ku")
      [] page = "/enter" -> Enter(page, None)
      [] page = "/enter?as=ki" -> Enter(page, "ki")
      [] page = "/enter?as=ku" -> Enter(page, "ku")
      [] page = "/my" -> Home
      [] page = "/my/account" -> Or(HomeFor(account), page)
      [] page = "/me" -> IF "ki" \in account.sides THEN page
                         ELSE IF "ku" \in account.sides THEN "/business" ELSE "/join"
      [] page = "/business" -> IF "ku" \in account.sides THEN page ELSE "/business/name"
      [] page = "/business/name" -> OfTheirs(page)
      [] page = "/join" -> OfTheirs(IF account.mobile = "proven" THEN Worker ELSE "/enter")
      [] OTHER -> page

-----------------------------------------------------------------------------
Init ==
    /\ account \in {a \in Accounts : /\ a.who = "staff" => a.sides = {} /\ a.mobile # "proven"
                                     /\ a.told => "ki" \in a.sides}
    /\ last = None /\ start = "/" /\ at = "/" /\ hops = 0 /\ opens = 0

Rests == Answer(at) = at
\* The browser asks for a page: me and business_home remember the side they show, and join makes a
\* worker of whoever asks for it.
Asks(page, a) ==
    /\ at' = page
    /\ account' = IF page = "/join" /\ a.who = "portal" THEN [a EXCEPT !.sides = @ \cup {"ki"}] ELSE a
    /\ last' = CASE page = "/me" /\ "ki" \in a.sides -> "ki"
                 [] page = "/business" /\ "ku" \in a.sides -> "ku"
                 [] OTHER -> last
Anew(from) == Rests /\ opens < MaxOpens /\ opens' = opens + 1 /\ start' = from /\ hops' = 0

\* The browser follows a redirect.
Follow == ~Rests /\ Asks(Answer(at), account) /\ hops' = hops + 1 /\ UNCHANGED <<start, opens>>
\* Somebody opens an address; one of their own pages only when signed in.
Opens(page) ==
    /\ Anew(page) /\ Asks(page, account)
    /\ account.who = "public" => page \in Doors
\* enter_code_submit: a number proved, by who is signed in.
Proves ==
    /\ Anew("signed_in") /\ at = "/enter" /\ account.who = "portal" /\ account.mobile # "proven"
    /\ Asks(Or(HomeFor(account), "/join"), [account EXCEPT !.mobile = "proven"])
\* enter_code_submit: a sign-in, from a door or from Odoo's login page with where they were going.
SignsIn(role, fromLogin, url) ==
    LET a == [account EXCEPT !.who = "portal", !.mobile = "proven"]
        page == AfterSignIn(a, role, fromLogin, url)
    IN /\ account.who = "public" /\ (fromLogin \/ url = None)
       /\ Anew(IF url = page THEN url ELSE "signed_in") /\ Asks(page, a)
\* business_name: one more side, by answering its question.
Names ==
    /\ Anew("/business/name") /\ at = "/business/name" /\ account.who = "portal"
    /\ Asks("/business", [account EXCEPT !.sides = @ \cup {"ku"}])
\* join_how: the last question of a worker.
Tells ==
    /\ Anew("/me") /\ at = "/join/questions" /\ "ki" \in account.sides
    /\ Asks("/me", [account EXCEPT !.told = TRUE])
\* Staff take a side away while the browser remembers it.
Loses(side) ==
    /\ Rests /\ side \in account.sides
    /\ account' = [account EXCEPT !.sides = @ \ {side}, !.told = @ /\ side # "ki"]
    /\ at' = "/" /\ start' = "/" /\ hops' = 0 /\ UNCHANGED <<last, opens>>

Next ==
    \/ Follow \/ Proves \/ Names \/ Tells
    \/ \E page \in Doors \cup Own : Opens(page)
    \/ \E role \in {None} \cup ROLES, fromLogin \in BOOLEAN,
          url \in {None, "/", "/my", "/me", "/odoo", "/join", Elsewhere} : SignsIn(role, fromLogin, url)
    \/ \E side \in ROLES : Loses(side)

-----------------------------------------------------------------------------
\* Redirects end, whatever the session remembers of a side that is gone.
Settles == hops <= MaxHops
\* Who holds a business is not made a worker on the way to somewhere else: only the address that
\* makes one does, opened as such.
AskedFirst == at = "/join" /\ "ku" \in Sides(account) => start = "/join"
\* A portal account is not sent into the back office.
BackOffice == at = "/odoo" => account.who # "portal"
===============================================================================
