--------------------------- MODULE ContentListing ---------------------------
(***************************************************************************)
(* ContentStore with a client that pages through the stored contents, as   *)
(* list_contents of the MCP API does: newest first, each page beginning    *)
(* after the cursor of the one before, while instances store contents      *)
(* (ListContents in src/internal/storage/postgres_store.go, listContents   *)
(* in src/internal/mcpapi/server.go).  NOW() is the time a transaction     *)
(* began, so contents of one batch have the same created_at, and a batch   *)
(* may be committed after one that began later.                            *)
(***************************************************************************)
EXTENDS ContentStore, FiniteSets

CONSTANTS PageSize \* limit of a page

ASSUME ContentListingAssumption == PageSize \in Nat \ {0} /\ IsFiniteSet(Legacy)

VARIABLES
  cursor,   \* where the next page begins
  listed,   \* how often each content was on a page of this listing
  expected  \* the contents that were there when it began

listVars == <<cursor, listed, expected>>
allVars == <<vars, listVars>>

FromTop == [at |-> MaxClock + 1, id |-> 0]
AtEnd == [at |-> 0, id |-> 0]
KeyOf(c) == [at |-> rows[c].at, id |-> c]

-----------------------------------------------------------------------------
(* The order of (created_at, content_id).                                  *)
Before(k, l) == k.at < l.at \/ (k.at = l.at /\ k.id < l.id)

BugOlderTimeOnly(c) == rows[c].at < cursor.at
AfterCursor(c) == Before(KeyOf(c), cursor)

Remaining == {c \in Stored : AfterCursor(c)}
(* ORDER BY created_at DESC, content_id DESC LIMIT n.                      *)
Newest(n) == {c \in Remaining : Cardinality({d \in Remaining : Before(KeyOf(c), KeyOf(d))}) < n}
Last(page) == CHOOSE c \in page : \A d \in page \ {c} : Before(KeyOf(c), KeyOf(d))

(* One row more than the page shows whether there is a next one.           *)
HasNext == Cardinality(Newest(PageSize + 1)) > PageSize

ListContents ==
  /\ cursor # AtEnd
  /\ version = SchemaVersion
  /\ LET page == Newest(PageSize) IN
     /\ listed' = [c \in Contents |-> listed[c] + IF c \in page THEN 1 ELSE 0]
     /\ cursor' = IF HasNext THEN KeyOf(Last(page)) ELSE AtEnd
  /\ expected' = IF cursor = FromTop THEN Stored ELSE expected
  /\ UNCHANGED vars

NewListing ==
  /\ cursor = AtEnd
  /\ cursor' = FromTop
  /\ listed' = [c \in Contents |-> 0]
  /\ expected' = {}
  /\ UNCHANGED vars

-----------------------------------------------------------------------------
ListingInit ==
  /\ Init
  /\ cursor = FromTop
  /\ listed = [c \in Contents |-> 0]
  /\ expected = {}

ListingNext ==
  \/ Next /\ UNCHANGED listVars
  \/ ListContents
  \/ NewListing

ListingSpec == ListingInit /\ [][ListingNext]_allVars /\ Fairness

(* A listing that is at its end has had every content that was there when  *)
(* it began, and none ever has one twice, although pages are separate      *)
(* statements and contents with the same or an earlier created_at are      *)
(* committed between them.                                                 *)
ListingIsComplete ==
  /\ \A c \in Contents : listed[c] <= 1
  /\ cursor = AtEnd => \A c \in expected : listed[c] = 1
=============================================================================
