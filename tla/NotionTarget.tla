---------------------------- MODULE NotionTarget ----------------------------
(***************************************************************************)
(* One delivery of ExportQueue, as the Notion target carries it out: look  *)
(* for the content's page in a cached list of IDs, in a full scan or by an *)
(* exact query, archive what earlier attempts have left, create the page   *)
(* under a pending ID, append its remaining blocks, and give it its final  *)
(* ID (src/internal/exporter/notion/client.go).                            *)
(*                                                                         *)
(* An action is one request to the Notion API with the code that follows   *)
(* its reply.  The reply to a request that changes something may be lost:  *)
(* the request has then been executed, has not been, or is executed later. *)
(*                                                                         *)
(* An operator whose name starts with Bug is a plausible mistake in the    *)
(* definition that follows it; no specification uses it.                   *)
(***************************************************************************)
EXTENDS Integers, FiniteSets

CONSTANTS
  Contents,  \* content IDs
  Clients,   \* service instances, each with a client of its own
  Pages,     \* bound: identities of pages that exist at one time
  Appends,   \* append requests it takes to fill a page after its creation
  MaxLate,   \* bound: requests that are executed late at one time
  Nobody     \* no content, no page

ASSUME NotionTargetAssumption ==
  /\ Appends \in Nat
  /\ MaxLate \in Nat
  /\ Nobody \notin Contents \cup Pages

VARIABLES
  pages,      \* the data source: its pages that are not in the trash
  cache,      \* Client.contentIDs and cacheFull while they are fresh
  call,       \* the StoreContents call of each client
  limbo,      \* requests that are still to be executed
  delivered,  \* contents whose delivery was reported a success (history)
  disturbed   \* what each content has suffered (history)

vars == <<pages, cache, call, limbo, delivered, disturbed>>

-----------------------------------------------------------------------------
NoPage == [content |-> Nobody, label |-> "pending", blocks |-> 0]
NewPage(c) == [content |-> c, label |-> "pending", blocks |-> 0]

Existing == {p \in Pages : pages[p] # NoPage}
PagesOf(c) == {p \in Existing : pages[p].content = c}
Labelled(c, label) == {p \in PagesOf(c) : pages[p].label = label}

(* The contents of the ContentId column.                                   *)
Listed == {<<pages[p].content, pages[p].label>> : p \in Existing}

(* A changing request and what its execution does; a page in the trash     *)
(* does not change.                                                        *)
Requests == [kind : {"create", "append", "finalize", "archive"},
             page : Pages, content : Contents]
BugInitialLabel(c) == [NewPage(c) EXCEPT !.label = "final"]
InitialPage(c) == NewPage(c)
Effect(r) ==
  CASE r.kind = "create" -> [pages EXCEPT ![r.page] = InitialPage(r.content)]
    [] r.kind # "create" /\ pages[r.page] = NoPage -> pages
    [] r.kind = "append" /\ pages[r.page] # NoPage ->
         [pages EXCEPT ![r.page].blocks = @ + 1]
    [] r.kind = "finalize" /\ pages[r.page] # NoPage ->
         [pages EXCEPT ![r.page].label = "final"]
    [] r.kind = "archive" -> [pages EXCEPT ![r.page] = NoPage]

-----------------------------------------------------------------------------
Idle == [at |-> "idle", content |-> Nobody, again |-> FALSE, page |-> Nobody,
         todo |-> {}, exact |-> FALSE]
Stale == [fresh |-> FALSE, ids |-> {}, full |-> FALSE]

Init ==
  /\ pages = [p \in Pages |-> NoPage]
  /\ cache = [i \in Clients |-> Stale]
  /\ call = [i \in Clients |-> Idle]
  /\ limbo = {}
  /\ delivered = {}
  /\ disturbed = [c \in Contents |-> {}]

At(i, where) == call[i].at = where
Content(i) == call[i].content
Goto(i, where) == call' = [call EXCEPT ![i].at = where]

(* StoreContents returns.                                                  *)
Returns(i, ok) ==
  /\ call' = [call EXCEPT ![i] = Idle]
  /\ delivered' = IF ok THEN delivered \cup {Content(i)} ELSE delivered

(* The attempt has failed: after the first one StoreContents tries again.  *)
AttemptFails(i) ==
  IF call[i].again
  THEN Returns(i, FALSE)
  ELSE /\ call' = [call EXCEPT ![i] =
                     [Idle EXCEPT !.at = "refresh", !.content = Content(i), !.again = TRUE]]
       /\ UNCHANGED delivered

(* A request succeeds; or it fails, refused by Notion or without a reply.  *)
(* A call whose context is cancelled, because its claim is lost or the     *)
(* worker stops, is one whose requests all fail from then on.              *)
Request(i, kind, p) == [kind |-> kind, page |-> p, content |-> Content(i)]
Succeeds(i, r) ==
  /\ r.kind \in {"create", "archive"} \/ r.page \in Existing
  /\ pages' = Effect(r)
  /\ UNCHANGED limbo
Fails(i, r) ==
  \/ UNCHANGED <<pages, limbo>>
  \/ pages' = Effect(r) /\ UNCHANGED limbo
  \/ /\ Cardinality(limbo) < MaxLate
     /\ limbo' = limbo \cup {r}
     /\ UNCHANGED pages

(* cacheFinalContentID, and the deletion of a pending ID.                  *)
Remember(i, add, remove) ==
  cache' = [cache EXCEPT ![i].ids = IF cache[i].fresh THEN (@ \cup add) \ remove ELSE @]
KnownAsFinal(c) == \E i \in Clients : cache[i].fresh /\ <<c, "final">> \in cache[i].ids
CacheFinal(i) ==
  Remember(i, {<<Content(i), "final">>}, {<<Content(i), "pending">>})

-----------------------------------------------------------------------------
(* Deliver begins.  The lease keeps deliveries of a content apart, unless  *)
(* it has expired under one of them.                                       *)
Deliver(i, c) ==
  /\ At(i, "idle")
  /\ call' = [call EXCEPT ![i] = [Idle EXCEPT !.at = "list", !.content = c]]
  /\ disturbed' = [disturbed EXCEPT ![c] =
                     IF \E j \in Clients : Content(j) = c
                     THEN @ \cup {"overlap"} ELSE @]
  /\ UNCHANGED <<pages, cache, limbo, delivered>>

(* What is done with a content, given the IDs that are known to exist.     *)
BugFound(known, c) == <<c, "final">> \in known \/ <<c, "pending">> \in known
Found(known, c) == <<c, "final">> \in known

BugExactLookupOnMiss(wasFresh, full) == ~full
ExactLookupOnMiss(wasFresh, full) == wasFresh \/ ~full

Decide(i, known, lookup) ==
  LET c == Content(i)
      next == IF <<c, "pending">> \in known THEN "sweep"
              ELSE IF lookup THEN "lookup" ELSE "create"
  IN IF Found(known, c)
     THEN Returns(i, TRUE)
     ELSE Goto(i, next) /\ UNCHANGED delivered

(* existingContentIDs with a fresh cache.                                  *)
ListCached(i) ==
  /\ At(i, "list")
  /\ cache[i].fresh
  /\ Decide(i, cache[i].ids, ExactLookupOnMiss(TRUE, cache[i].full))
  /\ UNCHANGED <<pages, cache, limbo, disturbed>>

(* The full scan, on a stale cache or, in the second attempt, always.  It  *)
(* is complete, or Notion caps it and says so.                             *)
Scans == {[fresh |-> TRUE, ids |-> Listed, full |-> TRUE]}
           \cup [fresh : {TRUE}, ids : SUBSET Listed, full : {FALSE}]
MustScan(i) == At(i, "refresh") \/ (At(i, "list") /\ ~cache[i].fresh)
Scan(i) ==
  /\ MustScan(i)
  /\ \E scanned \in Scans :
       /\ cache' = [cache EXCEPT ![i] = scanned]
       /\ Decide(i, scanned.ids, ExactLookupOnMiss(FALSE, scanned.full))
  /\ UNCHANGED <<pages, limbo, disturbed>>

(* Initialize or the scan fails.                                           *)
ScanFails(i) ==
  /\ MustScan(i)
  /\ Returns(i, FALSE)
  /\ UNCHANGED <<pages, cache, limbo, disturbed>>

(* reconcileExactContentPages: the query for both IDs of the content.      *)
Lookup(i) ==
  /\ At(i, "lookup")
  /\ IF Labelled(Content(i), "final") # {}
     THEN CacheFinal(i) /\ Returns(i, TRUE)
     ELSE /\ call' = [call EXCEPT ![i].at = "archive", ![i].exact = TRUE,
                                  ![i].todo = Labelled(Content(i), "pending")]
          /\ UNCHANGED <<cache, delivered>>
  /\ UNCHANGED <<pages, limbo, disturbed>>

LookupFails(i) ==
  /\ At(i, "lookup")
  /\ Returns(i, FALSE)
  /\ UNCHANGED <<pages, cache, limbo, disturbed>>

(* archivePendingPages: the query for the pending ID.  It finds nothing    *)
(* when the list it relies on was not up to date.                          *)
Sweep(i) ==
  /\ At(i, "sweep")
  /\ call' = [call EXCEPT ![i].at = "archive",
                          ![i].todo = Labelled(Content(i), "pending")]
  /\ disturbed' = [disturbed EXCEPT ![Content(i)] =
                     IF Labelled(Content(i), "pending") = {}
                     THEN @ \cup {"stale"} ELSE @]
  /\ UNCHANGED <<pages, cache, limbo, delivered>>

SweepFails(i) ==
  /\ At(i, "sweep")
  /\ AttemptFails(i)
  /\ UNCHANGED <<pages, cache, limbo, disturbed>>

(* archivePage for a page that the query found.  A failure ends the call   *)
(* after an exact lookup, and otherwise the attempt.                       *)
Archive(i) ==
  \E p \in call[i].todo :
    LET r == Request(i, "archive", p) IN
    /\ At(i, "archive")
    /\ \/ /\ Succeeds(i, r)
          /\ call' = [call EXCEPT ![i].todo = @ \ {p}]
          /\ UNCHANGED delivered
       \/ /\ Fails(i, r)
          /\ IF call[i].exact THEN Returns(i, FALSE) ELSE AttemptFails(i)
    /\ UNCHANGED <<cache, disturbed>>

Archived(i) ==
  /\ At(i, "archive")
  /\ call[i].todo = {}
  /\ Goto(i, "create")
  /\ IF call[i].exact THEN UNCHANGED cache
                      ELSE Remember(i, {}, {<<Content(i), "pending">>})
  /\ UNCHANGED <<pages, limbo, delivered, disturbed>>

-----------------------------------------------------------------------------
InUse == {call[i].page : i \in Clients} \cup {r.page : r \in limbo}
           \cup UNION {call[i].todo : i \in Clients}

(* storeOne: the page is created with its first blocks, ...                *)
Filled(blocks) == IF blocks = Appends THEN "finalize" ELSE "append"
Create(i) ==
  \E p \in Pages \ (Existing \cup InUse) :
    LET r == Request(i, "create", p) IN
    /\ At(i, "create")
    /\ \/ /\ Succeeds(i, r)
          /\ call' = [call EXCEPT ![i].at = Filled(0), ![i].page = p]
          /\ UNCHANGED delivered
       \/ Fails(i, r) /\ AttemptFails(i)
    /\ UNCHANGED <<cache, disturbed>>

(* ... the others are appended, ...                                        *)
Append(i) ==
  LET p == call[i].page
      r == Request(i, "append", p)
  IN
  /\ At(i, "append")
  /\ \/ Succeeds(i, r) /\ Goto(i, Filled(pages'[p].blocks))
     \/ Fails(i, r) /\ Goto(i, "discard")
  /\ UNCHANGED <<cache, delivered, disturbed>>

(* ... it gets its final ID, ...                                           *)
Finalize(i) ==
  LET r == Request(i, "finalize", call[i].page) IN
  /\ At(i, "finalize")
  /\ \/ Succeeds(i, r) /\ CacheFinal(i) /\ Returns(i, TRUE)
     \/ Fails(i, r) /\ Goto(i, "discard") /\ UNCHANGED <<cache, delivered>>
  /\ UNCHANGED disturbed

(* ... or, when one of these fails, is archived, even if it has got its    *)
(* final ID after all and is on another instance's cached list.            *)
Discard(i) ==
  LET r == Request(i, "archive", call[i].page) IN
  /\ At(i, "discard")
  /\ Succeeds(i, r) \/ Fails(i, r)
  /\ AttemptFails(i)
  /\ disturbed' = [disturbed EXCEPT ![Content(i)] =
                     IF pages' # pages /\ KnownAsFinal(Content(i)) THEN @ \cup {"withdrawn"} ELSE @]
  /\ UNCHANGED cache

-----------------------------------------------------------------------------
(* The process ends and is started again.                                  *)
End(i) ==
  /\ call' = [call EXCEPT ![i] = Idle]
  /\ cache' = [cache EXCEPT ![i] = Stale]
  /\ UNCHANGED <<pages, limbo, delivered, disturbed>>

(* contentIDCacheTTL passes.                                               *)
CacheExpires(i) ==
  /\ cache[i].fresh
  /\ cache' = [cache EXCEPT ![i] = Stale]
  /\ UNCHANGED <<pages, call, limbo, delivered, disturbed>>

(* A request of an earlier attempt is executed, maybe during a later one.  *)
LateRequest(r) ==
  /\ r \in limbo
  /\ limbo' = limbo \ {r}
  /\ pages' = Effect(r)
  /\ disturbed' = [disturbed EXCEPT ![r.content] = @ \cup {"overlap"}]
  /\ UNCHANGED <<cache, call, delivered>>

Steps(i) ==
  \/ ListCached(i) \/ Scan(i) \/ ScanFails(i)
  \/ Lookup(i) \/ LookupFails(i) \/ Sweep(i) \/ SweepFails(i)
  \/ Archive(i) \/ Archived(i)
  \/ Create(i) \/ Append(i) \/ Finalize(i) \/ Discard(i)

Next ==
  \/ \E i \in Clients :
       \/ \E c \in Contents : Deliver(i, c)
       \/ Steps(i) \/ End(i) \/ CacheExpires(i)
  \/ \E r \in limbo : LateRequest(r)

Spec == Init /\ [][Next]_vars

-----------------------------------------------------------------------------
(* The shape of the state.                                                 *)
TypeOK ==
  /\ pages \in [Pages -> {NoPage} \cup
       [content : Contents, label : {"pending", "final"}, blocks : 0 .. Appends]]
  /\ \A i \in Clients :
       /\ cache[i].fresh \in BOOLEAN /\ cache[i].full \in BOOLEAN
       /\ cache[i].ids \subseteq Contents \X {"pending", "final"}
       /\ call[i].content \in Contents \cup {Nobody}
       /\ call[i].page \in Pages \cup {Nobody}
       /\ call[i].todo \subseteq Pages
  /\ limbo \subseteq Requests
  /\ delivered \subseteq Contents
  /\ disturbed \in [Contents -> SUBSET {"overlap", "stale", "withdrawn"}]

(* Nobody ever sees half a content: a page that has its final ID has all   *)
(* of its blocks, whichever requests failed, came late or met those of     *)
(* another instance (storeOne).                                            *)
FinalIsComplete ==
  \A p \in Existing : pages[p].label = "final" => pages[p].blocks = Appends

(* A content has one page: attempts one after the other, by any instance,  *)
(* with any replies lost and any scan capped, archive or reuse what the    *)
(* earlier ones have left, unless an instance relied on a pending ID that  *)
(* was no longer there.                                                    *)
OnePage ==
  \A c \in Contents : disturbed[c] \subseteq {"withdrawn"} => Cardinality(PagesOf(c)) <= 1

(* What has been reported as delivered is there, and stays there, unless   *)
(* an instance has listed a page as final that its creator, which got no   *)
(* reply, then discarded: that instance reports a delivery without a page. *)
DeliveredIsThere ==
  \A c \in delivered : disturbed[c] = {} => Labelled(c, "final") # {}

(* The documented form of OnePage: deliveries that follow each other never *)
(* create a second page of a content that has its final one.               *)
NeverDuplicated ==
  \A c \in Contents :
    disturbed[c] \subseteq {"stale", "withdrawn"} => Cardinality(Labelled(c, "final")) <= 1
=============================================================================
