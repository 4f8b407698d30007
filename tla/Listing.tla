-------------------------------- MODULE Listing --------------------------------
(***************************************************************************)
(* Lists read page by page: GET /balances (and /holdings, which is the same *)
(* code) over the projection's table, GET /accounts (and /assets) over the  *)
(* server's array, and their readers: autoPagingIter of the Node SDK, or a  *)
(* client that asks again with the last id it was given until a page is     *)
(* empty.  Rows may be added while a list is being read.                    *)
(*                                                                         *)
(* Ids are compared as the code compares them; the order of the table's     *)
(* query, by asset, account and id, is another one.                         *)
(***************************************************************************)
EXTENDS Naturals, Sequences, SequencesExt, Filters

CONSTANTS
  SqlOrder,      \* the ids of balances in the query's order
  MaxAccounts,   \* bound: accounts created; an account's id is its number
  PageLimit      \* limit of every request

ASSUME ListingAssumption ==
  /\ SqlOrder \in Seq(Nat \ {0}) /\ IsInjective(SqlOrder)
  /\ MaxAccounts \in Nat /\ PageLimit \in Nat \ {0}

BalanceIds == ToSet(SqlOrder)

AccountIds == 1..MaxAccounts

VARIABLES
  balances,      \* ids of the rows of the tenant's balances
  accounts,      \* number of accounts
  walk           \* the list being read, its reader, and how far it is

listingVars == <<balances, accounts, walk>>

NoWalk == [of |-> "balances", by |-> "sdk", cursor |-> 0, state |-> "none"]

ListingTypeOK ==
  /\ balances \subseteq BalanceIds
  /\ accounts \in 0..MaxAccounts
  /\ walk \in [of : {"balances", "accounts"}, by : {"sdk", "hand"},
               cursor : BalanceIds \cup AccountIds \cup {0},
               state : {"none", "walking", "ended", "refused"}]

FirstOf(s, n) == IF Len(s) > n THEN SubSeq(s, 1, n) ELSE s

\* What is taken of a list of rows is written by the rows' places in SqlOrder.
FirstPlaces(places, n) == {i \in places : Cardinality({j \in places : j <= i}) <= n}

\* Faulty: only the cursor's own row is left out.
OtherThan(places, cursor) == {i \in places : SqlOrder[i] # cursor}

After(places, cursor) == {i \in places : SqlOrder[i] > cursor}

\* listBalances: the query takes one row more than the limit and knows no cursor;
\* the cursor is applied to what it took.
BalancesPage(cursor) ==
  LET found == {i \in DOMAIN SqlOrder : SqlOrder[i] \in balances}
      fetched == FirstPlaces(found, PageLimit + 1)
      rows == Filtered(SqlOrder, FirstPlaces(After(fetched, cursor), PageLimit))
  IN [rows |-> rows, hasMore |-> Len(rows) > PageLimit, refused |-> FALSE]

\* applyCursor: newest first.  A cursor is decoded as JSON in base64, which no
\* object id is.
AccountsPage(cursor) ==
  LET rows == [i \in 1..accounts |-> accounts + 1 - i] IN
  [rows |-> FirstOf(rows, PageLimit), hasMore |-> accounts > PageLimit, refused |-> cursor # 0]

Page == IF walk.of = "balances" THEN BalancesPage(walk.cursor) ELSE AccountsPage(walk.cursor)

-----------------------------------------------------------------------------
\* A projector writes a balance of an account and asset that had none.
AddBalance(id) ==
  /\ id \notin balances
  /\ balances' = balances \cup {id}
  /\ UNCHANGED <<accounts, walk>>

CreateAccount ==
  /\ accounts < MaxAccounts
  /\ accounts' = accounts + 1
  /\ UNCHANGED <<balances, walk>>

StartWalk(of, by) ==
  /\ walk.state # "walking"
  /\ walk' = [of |-> of, by |-> by, cursor |-> 0, state |-> "walking"]
  /\ UNCHANGED <<balances, accounts>>

Goes(page) == IF walk.by = "sdk" THEN page.hasMore ELSE page.rows # <<>>

LoadPage ==
  /\ walk.state = "walking" /\ ~Page.refused
  /\ walk' = IF Goes(Page) THEN [walk EXCEPT !.cursor = Last(Page.rows)]
                           ELSE [walk EXCEPT !.state = "ended"]
  /\ UNCHANGED <<balances, accounts>>

\* 400 invalid_cursor.
RefusePage ==
  /\ walk.state = "walking" /\ Page.refused
  /\ walk' = [walk EXCEPT !.state = "refused"]
  /\ UNCHANGED <<balances, accounts>>

ListingInit ==
  /\ balances = {} /\ accounts = 0
  /\ walk = NoWalk

ListingNext ==
  \/ \E id \in BalanceIds : AddBalance(id)
  \/ CreateAccount
  \/ \E of \in {"balances", "accounts"}, by \in {"sdk", "hand"} : StartWalk(of, by)
  \/ LoadPage \/ RefusePage

ListingFairness == WF_listingVars(LoadPage) /\ WF_listingVars(RefusePage)

-----------------------------------------------------------------------------
\* Reading a list comes to its end, even by hand, although a page of balances may
\* hold rows that an earlier page held and rows are added meanwhile: the last id
\* of each page is above the cursor the page was asked with.
WalkEnds == walk.state = "walking" ~> walk.state # "walking"

\* What makes it end: a page that is not the last gives a cursor above its own.
PagesClimb ==
  walk.state = "walking" /\ ~Page.refused /\ Goes(Page) => Last(Page.rows) > walk.cursor

=============================================================================
