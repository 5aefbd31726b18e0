------------------------- MODULE NotionTargetProofs --------------------------
(***************************************************************************)
(* Proofs that a page with its final ID has all of its blocks, that a      *)
(* content has one page, and that what was reported as delivered is there, *)
(* for every number of clients, contents, pages, append requests and late  *)
(* requests.                                                               *)
(***************************************************************************)
EXTENDS NotionTarget, FiniteSetTheorems, TLAPS

-----------------------------------------------------------------------------
Records == {NoPage} \cup [content : Contents, label : {"pending", "final"}, blocks : 0 .. Appends]
Filling == {"append", "finalize", "discard"}
Calls == [at : {"idle", "list", "refresh", "lookup", "sweep", "archive", "create"} \cup Filling,
          content : Contents \cup {Nobody}, again : BOOLEAN, page : Pages \cup {Nobody},
          todo : SUBSET Pages, exact : BOOLEAN]

(* A call has a content as long as it lasts, and a page from its creation. *)
IsCall(k) ==
  /\ k \in Calls
  /\ k.page # Nobody <=> k.at \in Filling
  /\ k.content = Nobody <=> k.at = "idle"

Shape ==
  /\ pages \in [Pages -> Records]
  /\ call \in [Clients -> Calls]
  /\ \A i \in Clients : IsCall(call[i])
  /\ limbo \subseteq Requests

(* Who may still write to a page: the call that has created it, or one     *)
(* request that is still to be executed; whoever has sent it does not come *)
(* back to the page but to archive it.                                     *)
OneWriter ==
  /\ \A i, j \in Clients : i # j => call[i].page = Nobody \/ call[i].page # call[j].page
  /\ \A r, q \in limbo :
       r.page = q.page /\ r.kind # "archive" /\ q.kind # "archive" => r = q
  /\ \A i \in Clients, r \in limbo : r.page = call[i].page =>
       r.kind = "archive" \/ (r.kind # "create" /\ call[i].at = "discard")

Writes(kind, p) ==
  \/ \E i \in Clients : call[i].at = kind /\ call[i].page = p
  \/ \E r \in limbo : r.kind = kind /\ r.page = p

(* What the page is like when it is written to.                            *)
PageIsOrderly(p) ==
  /\ pages[p].label = "final" => pages[p].blocks = Appends
  /\ Writes("create", p) => pages[p] = NoPage
  /\ Writes("append", p) =>
       pages[p] = NoPage \/ (pages[p].label = "pending" /\ pages[p].blocks < Appends)
  /\ Writes("finalize", p) => pages[p] = NoPage \/ pages[p].blocks = Appends

Orderly == Shape /\ OneWriter /\ \A p \in Pages : PageIsOrderly(p)

LEMMA IdleIsCall == IsCall(Idle) /\ Idle.page = Nobody /\ Idle.at = "idle"
BY NotionTargetAssumption DEF IsCall, Idle, Calls, Filling

LEMMA InitOrderly == Init => Orderly
<1> SUFFICES ASSUME Init PROVE Orderly
  OBVIOUS
<1>1. Shape
  BY IdleIsCall DEF Init, Shape, Records, IsCall
<1>2. OneWriter
  BY IdleIsCall DEF Init, OneWriter
<1>3. \A p \in Pages : PageIsOrderly(p)
  BY IdleIsCall DEF Init, PageIsOrderly, Writes, NoPage
<1> QED
  BY <1>1, <1>2, <1>3 DEF Orderly

-----------------------------------------------------------------------------
(* What the execution of a request leaves.                                 *)
After(r) ==
  CASE r.kind = "create" -> NewPage(r.content)
    [] r.kind = "append" /\ pages[r.page] # NoPage -> [pages[r.page] EXCEPT !.blocks = @ + 1]
    [] r.kind = "finalize" /\ pages[r.page] # NoPage -> [pages[r.page] EXCEPT !.label = "final"]
    [] OTHER -> NoPage

LEMMA EffectIsAfter ==
  ASSUME Shape, NEW r \in Requests
  PROVE  Effect(r) = [pages EXCEPT ![r.page] = After(r)]
<1>0. r.page \in Pages /\ r.kind \in {"create", "append", "finalize", "archive"} /\ pages \in [Pages -> Records]
  BY DEF Shape, Requests
<1>1. CASE r.kind = "create"
  BY <1>0, <1>1 DEF Effect, After, InitialPage
<1>2. CASE r.kind = "archive"
  <2>1. Effect(r) = [pages EXCEPT ![r.page] = NoPage]
    <3>1. CASE pages[r.page] = NoPage
      <4>1. [pages EXCEPT ![r.page] = NoPage] = pages
        BY <1>0, <3>1
      <4> QED
        BY <1>2, <3>1, <4>1 DEF Effect
    <3>2. CASE pages[r.page] # NoPage
      BY <1>2, <3>2 DEF Effect
    <3> QED
      BY <3>1, <3>2
  <2> QED
    BY <1>2, <2>1 DEF After
<1>3. CASE r.kind \in {"append", "finalize"} /\ pages[r.page] = NoPage
  <2>1. Effect(r) = pages
    BY <1>3 DEF Effect
  <2>2. After(r) = NoPage
    BY <1>3 DEF After
  <2> QED
    BY <1>0, <1>3, <2>1, <2>2
<1>4. CASE r.kind = "append" /\ pages[r.page] # NoPage
  <2>1. Effect(r) = [pages EXCEPT ![r.page].blocks = @ + 1]
    BY <1>4 DEF Effect
  <2>2. After(r) = [pages[r.page] EXCEPT !.blocks = @ + 1]
    BY <1>4 DEF After
  <2> QED
    BY <2>1, <2>2
<1>5. CASE r.kind = "finalize" /\ pages[r.page] # NoPage
  <2>1. Effect(r) = [pages EXCEPT ![r.page].label = "final"]
    BY <1>5 DEF Effect
  <2>2. After(r) = [pages[r.page] EXCEPT !.label = "final"]
    BY <1>5 DEF After
  <2> QED
    BY <2>1, <2>2
<1> QED
  BY <1>0, <1>1, <1>2, <1>3, <1>4, <1>5

(* A request that is allowed on its page.                                  *)
Allowed(r) ==
  LET page == pages[r.page] IN
  CASE r.kind = "create" -> page = NoPage
    [] r.kind = "append" -> page = NoPage \/ (page.label = "pending" /\ page.blocks < Appends)
    [] r.kind = "finalize" -> page = NoPage \/ page.blocks = Appends
    [] r.kind = "archive" -> TRUE

LEMMA AfterIsRecord ==
  ASSUME Shape, NEW r \in Requests, Allowed(r)
  PROVE  /\ After(r) \in Records
         /\ After(r).label = "final" => After(r).blocks = Appends
         /\ r.kind = "archive" => After(r) = NoPage
         /\ r.kind = "create" => After(r).label = "pending" /\ After(r).blocks = 0
         /\ r.kind = "append" /\ pages[r.page] # NoPage =>
              After(r).label = "pending" /\ After(r).blocks = pages[r.page].blocks + 1
<1>0. /\ r.page \in Pages /\ r.kind \in {"create", "append", "finalize", "archive"}
      /\ r.content \in Contents /\ pages[r.page] \in Records /\ Appends \in Nat
  BY NotionTargetAssumption DEF Shape, Requests
<1>1. CASE r.kind = "create"
  <2>1. After(r) = NewPage(r.content)
    BY <1>1 DEF After
  <2> QED
    BY <1>0, <1>1, <2>1 DEF NewPage, Records
<1>2. CASE r.kind = "append" /\ pages[r.page] # NoPage
  <2>1. After(r) = [pages[r.page] EXCEPT !.blocks = @ + 1]
    BY <1>2 DEF After
  <2>2. pages[r.page].label = "pending" /\ pages[r.page].blocks < Appends
    BY <1>2 DEF Allowed
  <2> QED
    BY <1>0, <1>2, <2>1, <2>2 DEF Records
<1>3. CASE r.kind = "finalize" /\ pages[r.page] # NoPage
  <2>1. After(r) = [pages[r.page] EXCEPT !.label = "final"]
    BY <1>3 DEF After
  <2>2. pages[r.page].blocks = Appends
    BY <1>3 DEF Allowed
  <2> QED
    BY <1>0, <1>3, <2>1, <2>2 DEF Records
<1>4. CASE r.kind = "archive" \/ (r.kind # "create" /\ pages[r.page] = NoPage)
  <2>1. After(r) = NoPage
    BY <1>4 DEF After
  <2> QED
    BY <1>4, <2>1 DEF Records, NoPage
<1> QED
  BY <1>0, <1>1, <1>2, <1>3, <1>4

-----------------------------------------------------------------------------
(* A call goes on, or ends, without a page.                                *)
Free(i) ==
  \E k : call' = [call EXCEPT ![i] = k] /\ IsCall(k) /\ k.page = Nobody

LEMMA FreeCall ==
  ASSUME Shape, NEW i \in Clients, Free(i)
  PROVE  /\ call' \in [Clients -> Calls] /\ \A j \in Clients : IsCall(call'[j])
         /\ call'[i].page = Nobody /\ call'[i].at \notin Filling
         /\ \A j \in Clients \ {i} : call'[j] = call[j]
BY DEF Shape, Free, IsCall

LEMMA FailsFree ==
  ASSUME Shape, NEW i \in Clients
  PROVE  /\ \A ok \in BOOLEAN : Returns(i, ok) => Free(i)
         /\ call[i].at # "idle" /\ AttemptFails(i) => Free(i)
<1>1. ASSUME NEW ok \in BOOLEAN, Returns(i, ok) PROVE Free(i)
  BY <1>1, IdleIsCall DEF Returns, Free
<1>2. ASSUME call[i].at # "idle", AttemptFails(i), ~call[i].again PROVE Free(i)
  <2> DEFINE k == [Idle EXCEPT !.at = "refresh", !.content = Content(i), !.again = TRUE]
  <2>1. IsCall(k) /\ k.page = Nobody
    BY <1>2, NotionTargetAssumption DEF Shape, IsCall, Idle, Calls, Filling, Content
  <2>2. call' = [call EXCEPT ![i] = k]
    BY <1>2 DEF AttemptFails
  <2> QED
    BY <2>1, <2>2 DEF Free
<1> QED
  BY <1>1, <1>2 DEF AttemptFails

(* The requests a free call sends, and those it only asks with.            *)
Asks(i) ==
  \/ \E c \in Contents : Deliver(i, c)
  \/ ListCached(i) \/ Scan(i) \/ ScanFails(i) \/ Lookup(i) \/ LookupFails(i)
  \/ Sweep(i) \/ SweepFails(i) \/ Archived(i) \/ End(i)

LEMMA AsksOnly ==
  ASSUME NEW i \in Clients, Asks(i)
  PROVE  UNCHANGED <<pages, limbo>>
BY DEF Asks, Deliver, ListCached, Scan, ScanFails, Lookup, LookupFails, Sweep, SweepFails, Archived, End

LEMMA AsksFree ==
  ASSUME Shape, NEW i \in Clients, Asks(i)
  PROVE  Free(i)
<1>0. /\ IsCall(call[i]) /\ Nobody \notin Contents /\ \A c : Labelled(c, "pending") \subseteq Pages
  BY NotionTargetAssumption DEF Shape, Labelled, PagesOf, Existing
<1>2. ASSUME NEW c \in Contents, Deliver(i, c) PROVE Free(i)
  <2> DEFINE k == [Idle EXCEPT !.at = "list", !.content = c]
  <2>1. IsCall(k) /\ k.page = Nobody
    BY <1>0 DEF IsCall, Idle, Calls, Filling
  <2>2. call' = [call EXCEPT ![i] = k]
    BY <1>2 DEF Deliver
  <2> QED
    BY <2>1, <2>2 DEF Free
<1>3. ASSUME call[i].at \in {"list", "refresh", "archive"}, NEW where \in {"lookup", "sweep", "create"},
             Goto(i, where)
      PROVE  Free(i)
  <2> DEFINE k == [call[i] EXCEPT !.at = where]
  <2>1. IsCall(k) /\ k.page = Nobody
    BY <1>0, <1>3 DEF IsCall, Calls, Filling
  <2>2. call' = [call EXCEPT ![i] = k]
    BY <1>3 DEF Goto
  <2> QED
    BY <2>1, <2>2 DEF Free
<1>4. CASE ListCached(i) \/ Scan(i)
  <2>1. call[i].at \in {"list", "refresh"}
    BY <1>4 DEF ListCached, Scan, MustScan, At
  <2>2. PICK known, lookup : Decide(i, known, lookup)
    BY <1>4 DEF ListCached, Scan
  <2>3. Returns(i, TRUE) \/ \E where \in {"lookup", "sweep", "create"} : Goto(i, where)
    BY <2>2 DEF Decide
  <2> QED
    BY <1>3, <2>1, <2>3, FailsFree
<1>5. CASE ScanFails(i) \/ LookupFails(i)
  BY <1>5, FailsFree DEF ScanFails, LookupFails
<1>6. CASE SweepFails(i)
  BY <1>6, FailsFree DEF SweepFails, At
<1>7. CASE Lookup(i)
  <2>1. CASE Returns(i, TRUE)
    BY <2>1, FailsFree
  <2>2. CASE call' = [call EXCEPT ![i].at = "archive", ![i].exact = TRUE,
                                  ![i].todo = Labelled(Content(i), "pending")]
    <3> DEFINE S == Labelled(Content(i), "pending")
               k == [call[i] EXCEPT !.at = "archive", !.exact = TRUE, !.todo = S]
    <3>1. S \subseteq Pages
      BY <1>0
    <3>2. IsCall(k) /\ k.page = Nobody
      <4> HIDE DEF S
      <4> QED
        BY <1>0, <1>7, <3>1 DEF Lookup, At, IsCall, Calls, Filling
    <3>3. call' = [call EXCEPT ![i] = k]
      BY <2>2
    <3> QED
      BY <3>2, <3>3 DEF Free
  <2> QED
    BY <1>7, <2>1, <2>2 DEF Lookup
<1>8. CASE Sweep(i)
  <2> DEFINE S == Labelled(Content(i), "pending")
             k == [call[i] EXCEPT !.at = "archive", !.todo = S]
  <2>1. S \subseteq Pages
    BY <1>0
  <2>2. IsCall(k) /\ k.page = Nobody
    <3> HIDE DEF S
    <3> QED
      BY <1>0, <1>8, <2>1 DEF Sweep, At, IsCall, Calls, Filling
  <2>3. call' = [call EXCEPT ![i] = k]
    BY <1>8 DEF Sweep
  <2> QED
    BY <2>2, <2>3 DEF Free
<1>9. CASE Archived(i)
  BY <1>3, <1>9 DEF Archived, At
<1>10. CASE End(i)
  BY <1>10, IdleIsCall DEF End, Free
<1> QED
  BY <1>2, <1>4, <1>5, <1>6, <1>7, <1>8, <1>9, <1>10 DEF Asks

(* A step of a free call that leaves the pages alone, or archives one at   *)
(* once or later.                                                          *)
Archives(p) ==
  \/ UNCHANGED <<pages, limbo>>
  \/ pages' = [pages EXCEPT ![p] = NoPage] /\ UNCHANGED limbo
  \/ UNCHANGED pages /\ \E c \in Contents :
       limbo' = limbo \cup {[kind |-> "archive", page |-> p, content |-> c]}

LEMMA FreeOrderly ==
  ASSUME Orderly, NEW i \in Clients, Free(i), NEW p \in Pages, Archives(p)
  PROVE  Orderly'
<1>1. /\ call' \in [Clients -> Calls] /\ \A j \in Clients : IsCall(call'[j])
      /\ call'[i].page = Nobody /\ call'[i].at \notin Filling
      /\ \A j \in Clients \ {i} : call'[j] = call[j]
  BY FreeCall DEF Orderly
<1>2. limbo' \subseteq Requests /\ \A r \in limbo' \ limbo : r.kind = "archive"
  BY DEF Orderly, Shape, Archives, Requests
<1>3. /\ pages' \in [Pages -> Records]
      /\ \A q \in Pages : pages'[q] = pages[q] \/ pages'[q] = NoPage
  BY DEF Orderly, Shape, Archives, Records
<1>4. Shape'
  BY <1>1, <1>2, <1>3 DEF Shape
<1>5. OneWriter'
  <2>1. \A j, l \in Clients : j # l => call'[j].page = Nobody \/ call'[j].page # call'[l].page
    BY <1>1 DEF Orderly, OneWriter
  <2>2. \A r, q \in limbo' :
          r.page = q.page /\ r.kind # "archive" /\ q.kind # "archive" => r = q
    BY <1>2 DEF Orderly, OneWriter
  <2>3. \A j \in Clients, r \in limbo' : r.page = call'[j].page =>
          r.kind = "archive" \/ (r.kind # "create" /\ call'[j].at = "discard")
    <3> SUFFICES ASSUME NEW j \in Clients, NEW r \in limbo', r.page = call'[j].page, r.kind # "archive"
                 PROVE  r.kind # "create" /\ call'[j].at = "discard"
      OBVIOUS
    <3>1. r \in limbo /\ r.page # Nobody
      BY <1>2, NotionTargetAssumption DEF Requests
    <3>2. j # i
      BY <1>1, <3>1
    <3> QED
      BY <1>1, <3>1, <3>2 DEF Orderly, OneWriter
  <2> QED
    BY <2>1, <2>2, <2>3 DEF OneWriter
<1>6. ASSUME NEW q \in Pages PROVE PageIsOrderly(q)'
  <2>1. \A kind \in {"create", "append", "finalize"} : Writes(kind, q)' => Writes(kind, q)
    BY <1>1, <1>2, NotionTargetAssumption DEF Writes
  <2>2. pages'[q] = pages[q] \/ pages'[q] = NoPage
    BY <1>3
  <2> QED
    BY <2>1, <2>2 DEF Orderly, PageIsOrderly, NoPage
<1> QED
  BY <1>4, <1>5, <1>6 DEF Orderly

-----------------------------------------------------------------------------
LEMMA ArchiveOrderly ==
  ASSUME Orderly, NEW i \in Clients, Archive(i)
  PROVE  Orderly'
<1>1. PICK p \in call[i].todo :
        LET r == Request(i, "archive", p) IN
        /\ At(i, "archive")
        /\ \/ /\ Succeeds(i, r)
              /\ call' = [call EXCEPT ![i].todo = @ \ {p}]
           \/ /\ Fails(i, r)
              /\ IF call[i].exact THEN Returns(i, FALSE) ELSE AttemptFails(i)
  BY DEF Archive
<1> DEFINE r == Request(i, "archive", p)
<1>2. /\ p \in Pages /\ call[i].at = "archive" /\ Content(i) \in Contents /\ IsCall(call[i])
      /\ r \in Requests /\ r.page = p /\ r.kind = "archive"
      /\ r = [kind |-> "archive", page |-> p, content |-> Content(i)]
  BY <1>1 DEF Orderly, Shape, IsCall, Calls, At, Content, Request, Requests
<1>3. Effect(r) = [pages EXCEPT ![p] = NoPage]
  BY <1>2, EffectIsAfter DEF Orderly, After
<1>4. Archives(p)
  <2> HIDE DEF r
  <2>1. Succeeds(i, r) \/ Fails(i, r)
    BY <1>1 DEF r
  <2> QED
    BY <1>2, <1>3, <2>1 DEF Succeeds, Fails, Archives
<1>5. Free(i)
  <2>1. CASE call' = [call EXCEPT ![i].todo = @ \ {p}]
    <3> DEFINE k == [call[i] EXCEPT !.todo = @ \ {p}]
    <3>1. IsCall(k) /\ k.page = Nobody
      BY <1>2 DEF IsCall, Calls, Filling
    <3>2. call' = [call EXCEPT ![i] = k]
      BY <2>1
    <3> QED
      BY <3>1, <3>2 DEF Free
  <2>2. CASE Returns(i, FALSE) \/ AttemptFails(i)
    BY <1>2, <2>2, FailsFree DEF Orderly
  <2> QED
    BY <1>1, <2>1, <2>2
<1> QED
  BY <1>2, <1>4, <1>5, FreeOrderly

LEMMA DiscardOrderly ==
  ASSUME Orderly, NEW i \in Clients, Discard(i)
  PROVE  Orderly'
<1> DEFINE p == call[i].page
           r == Request(i, "archive", p)
<1>1. At(i, "discard") /\ (Succeeds(i, r) \/ Fails(i, r)) /\ AttemptFails(i)
  BY DEF Discard
<1>2. /\ p \in Pages /\ call[i].at = "discard" /\ Content(i) \in Contents
      /\ r \in Requests /\ r.page = p /\ r.kind = "archive"
      /\ r = [kind |-> "archive", page |-> p, content |-> Content(i)]
  BY <1>1 DEF Orderly, Shape, IsCall, Calls, Filling, At, Content, Request, Requests
<1>3. Effect(r) = [pages EXCEPT ![p] = NoPage]
  BY <1>2, EffectIsAfter DEF Orderly, After
<1>4. Archives(p)
  <2> HIDE DEF r
  <2> QED
    BY <1>1, <1>2, <1>3 DEF Succeeds, Fails, Archives
<1>5. Free(i)
  BY <1>1, <1>2, FailsFree DEF Orderly
<1> QED
  BY <1>2, <1>4, <1>5, FreeOrderly

-----------------------------------------------------------------------------
(* A request that writes is sent by the one call that has the page, or by  *)
(* the one that creates it.                                                *)
Sole(i, p) ==
  /\ \A j \in Clients \ {i} : call[j].page # p
  /\ \A q \in limbo : q.page = p => q.kind = "archive"

(* The steps of a request that writes, by a call that is left with k.      *)
Sends(i, r, k) ==
  /\ call' = [call EXCEPT ![i] = k]
  /\ \/ pages' = Effect(r) /\ UNCHANGED limbo
     \/ UNCHANGED <<pages, limbo>>
     \/ UNCHANGED pages /\ limbo' = limbo \cup {r}

LEMMA SendsOrderly ==
  ASSUME Orderly, NEW i \in Clients, NEW r \in Requests, NEW k, Sends(i, r, k), IsCall(k),
         Sole(i, r.page), r.kind # "archive", Allowed(r),
         k.page \in {Nobody, r.page},
         r.kind = "create" => k.page = Nobody \/ limbo' = limbo,
         limbo' # limbo => k.at \notin {"append", "finalize"},
         k.at \in {"append", "finalize"} => pages' = Effect(r) /\ UNCHANGED limbo,
         k.at = "append" => After(r).label = "pending" /\ After(r).blocks < Appends,
         k.at = "finalize" => After(r).blocks = Appends
  PROVE  Orderly'
<1> DEFINE p == r.page
<1>0. /\ p \in Pages /\ p # Nobody /\ r.kind \in {"create", "append", "finalize"}
      /\ pages \in [Pages -> Records] /\ call \in [Clients -> Calls]
  BY NotionTargetAssumption DEF Requests, Orderly, Shape
<1>1. /\ pages' \in [Pages -> Records] /\ \A q \in Pages \ {p} : pages'[q] = pages[q]
      /\ pages' = Effect(r) => pages'[p] = After(r)
      /\ pages' = Effect(r) \/ UNCHANGED pages
  <2>1. Effect(r) = [pages EXCEPT ![p] = After(r)] /\ After(r) \in Records
    BY EffectIsAfter, AfterIsRecord DEF Orderly
  <2> QED
    BY <1>0, <2>1 DEF Sends
<1>2. /\ call' \in [Clients -> Calls] /\ call'[i] = k
      /\ \A j \in Clients \ {i} : call'[j] = call[j]
  BY <1>0 DEF Sends, IsCall
<1>3. limbo \subseteq limbo' /\ limbo' \subseteq limbo \cup {r}
  BY DEF Sends
<1>4. Shape'
  BY <1>1, <1>2, <1>3 DEF Orderly, Shape
<1>5. OneWriter'
  <2>1. \A j, l \in Clients : j # l => call'[j].page = Nobody \/ call'[j].page # call'[l].page
    BY <1>2 DEF Orderly, OneWriter, Sole
  <2>2. \A a, b \in limbo' :
          a.page = b.page /\ a.kind # "archive" /\ b.kind # "archive" => a = b
    BY <1>3 DEF Orderly, OneWriter, Sole
  <2>3. \A j \in Clients, q \in limbo' : q.page = call'[j].page =>
          q.kind = "archive" \/ (q.kind # "create" /\ call'[j].at = "discard")
    <3> SUFFICES ASSUME NEW j \in Clients, NEW q \in limbo', q.page = call'[j].page, q.kind # "archive"
                 PROVE  q.kind # "create" /\ call'[j].at = "discard"
      OBVIOUS
    <3>0. q.page # Nobody
      BY <1>3, NotionTargetAssumption DEF Orderly, Shape, Requests
    <3>1. CASE j # i
      BY <1>2, <1>3, <3>1 DEF Orderly, OneWriter, Sole
    <3>2. CASE j = i
      <4>1. k.page = p /\ q.page = p /\ q = r /\ limbo' # limbo
        BY <1>2, <1>3, <3>0, <3>2 DEF Sole
      <4>2. k.at \in Filling /\ r.kind # "create"
        BY <1>0, <4>1 DEF IsCall
      <4> QED
        BY <1>2, <3>2, <4>1, <4>2 DEF Filling
    <3> QED
      BY <3>1, <3>2
  <2> QED
    BY <2>1, <2>2, <2>3 DEF OneWriter
<1>6. ASSUME NEW q \in Pages \ {p} PROVE PageIsOrderly(q)'
  <2>1. \A kind \in {"create", "append", "finalize"} : Writes(kind, q)' => Writes(kind, q)
    BY <1>2, <1>3, <1>6, NotionTargetAssumption DEF Writes
  <2>2. pages'[q] = pages[q] /\ PageIsOrderly(q)
    BY <1>1 DEF Orderly
  <2> QED
    BY <2>1, <2>2 DEF PageIsOrderly
<1>7. PageIsOrderly(p)'
  <2>1. CASE limbo' # limbo
    <3>0. k.at \notin {"append", "finalize"} /\ (k.at = "create" => k.page # p)
      BY <1>0, <2>1 DEF IsCall, Filling
    <3>1. \A kind \in {"create", "append", "finalize"} : Writes(kind, p)' => kind = r.kind
      <4> SUFFICES ASSUME NEW kind \in {"create", "append", "finalize"}, Writes(kind, p)'
                   PROVE  kind = r.kind
        OBVIOUS
      <4>1. ~\E j \in Clients : call'[j].at = kind /\ call'[j].page = p
        BY <1>2, <3>0 DEF Sole
      <4>2. PICK q \in limbo' : q.kind = kind /\ q.page = p
        BY <4>1 DEF Writes
      <4> QED
        BY <1>3, <4>2 DEF Sole
    <3>2. UNCHANGED pages
      BY <2>1 DEF Sends
    <3> QED
      BY <1>0, <3>1, <3>2 DEF PageIsOrderly, Allowed, Orderly
  <2>2. CASE limbo' = limbo
    <3>1. \A kind \in {"create", "append", "finalize"} : Writes(kind, p)' => kind = k.at
      BY <1>2, <2>2 DEF Writes, Sole
    <3>2. CASE k.at \in {"append", "finalize"}
      BY <1>1, <3>1, <3>2, AfterIsRecord DEF PageIsOrderly, Orderly
    <3>3. CASE k.at \notin {"append", "finalize"}
      <4>1. ~Writes("append", p)' /\ ~Writes("finalize", p)' /\ ~Writes("create", p)'
        <5>1. k.at # "create" \/ k.page # p
          BY <1>0 DEF IsCall, Filling
        <5> QED
          BY <1>2, <2>2, <3>1, <3>3, <5>1 DEF Writes, Sole
      <4>2. pages'[p].label = "final" => pages'[p].blocks = Appends
        BY <1>0, <1>1, AfterIsRecord DEF Orderly, PageIsOrderly
      <4> QED
        BY <4>1, <4>2 DEF PageIsOrderly
    <3> QED
      BY <3>2, <3>3
  <2> QED
    BY <2>1, <2>2
<1> QED
  BY <1>4, <1>5, <1>6, <1>7 DEF Orderly

LEMMA CreateOrderly ==
  ASSUME Orderly, NEW i \in Clients, Create(i)
  PROVE  Orderly'
<1>1. PICK p \in Pages \ (Existing \cup InUse) :
        LET r == Request(i, "create", p) IN
        /\ At(i, "create")
        /\ \/ Succeeds(i, r) /\ call' = [call EXCEPT ![i].at = Filled(0), ![i].page = p]
           \/ Fails(i, r) /\ AttemptFails(i)
  BY DEF Create
<1> DEFINE r == Request(i, "create", p)
<1>2. /\ call[i].at = "create" /\ IsCall(call[i]) /\ r.page = p /\ r.kind = "create" /\ r \in Requests
      /\ pages[p] = NoPage /\ Sole(i, p) /\ Appends \in Nat
  BY <1>1, NotionTargetAssumption
     DEF Orderly, Shape, IsCall, Calls, At, Content, Request, Requests, Existing, InUse, Sole
<1>3. Allowed(r) /\ After(r).label = "pending" /\ After(r).blocks = 0
  <2> HIDE DEF r
  <2>1. Allowed(r)
    BY <1>2 DEF Allowed
  <2> QED
    BY <1>2, <2>1, AfterIsRecord DEF Orderly
<1> HIDE DEF r
<1>4. CASE Succeeds(i, r) /\ call' = [call EXCEPT ![i].at = Filled(0), ![i].page = p]
  <2> DEFINE k == [call[i] EXCEPT !.at = Filled(0), !.page = p]
  <2>1. call' = [call EXCEPT ![i] = k]
    BY <1>4
  <2>2. IsCall(k) /\ k.page = p /\ k.at = Filled(0)
    BY <1>1, <1>2, NotionTargetAssumption DEF IsCall, Calls, Filling, Filled
  <2>3. /\ k.at = "append" => 0 < Appends
        /\ k.at = "finalize" => 0 = Appends
    BY <1>2, <2>2 DEF Filled
  <2>4. pages' = Effect(r) /\ UNCHANGED limbo
    BY <1>4 DEF Succeeds
  <2>5. Sends(i, r, k)
    BY <2>1, <2>4 DEF Sends
  <2> HIDE DEF k
  <2> QED
    BY <1>2, <1>3, <2>2, <2>3, <2>4, <2>5, SendsOrderly
<1>5. CASE Fails(i, r) /\ AttemptFails(i)
  <2>1. PICK k : call' = [call EXCEPT ![i] = k] /\ IsCall(k) /\ k.page = Nobody
    BY <1>2, <1>5, FailsFree DEF Free, Orderly
  <2>2. Sends(i, r, k)
    BY <1>5, <2>1 DEF Sends, Fails
  <2>3. k.at \notin Filling
    BY <2>1 DEF IsCall
  <2> QED
    BY <1>2, <1>3, <2>1, <2>2, <2>3, SendsOrderly DEF Filling
<1> QED
  BY <1>1, <1>4, <1>5 DEF r

(* The page of a call that appends or finalizes is written by nobody else. *)
LEMMA WriterIsSole ==
  ASSUME Orderly, NEW i \in Clients, call[i].at \in {"append", "finalize"},
         NEW r, r = Request(i, call[i].at, call[i].page)
  PROVE  /\ IsCall(call[i]) /\ r.page = call[i].page /\ r.kind = call[i].at /\ r \in Requests
         /\ Sole(i, r.page) /\ Allowed(r) /\ r.page \in Pages
<1>1. /\ IsCall(call[i]) /\ call[i].page \in Pages /\ call[i].page # Nobody
      /\ call[i].content \in Contents
  BY NotionTargetAssumption DEF Orderly, Shape, IsCall, Calls, Filling
<1>2. r.page = call[i].page /\ r.kind = call[i].at /\ r \in Requests
  BY <1>1 DEF Request, Requests, Content
<1>3. Sole(i, r.page)
  BY <1>1, <1>2 DEF Sole, Orderly, OneWriter
<1>4. Allowed(r)
  <2>1. Writes(call[i].at, r.page)
    BY <1>2 DEF Writes
  <2> QED
    BY <1>1, <1>2, <2>1 DEF Allowed, Orderly, PageIsOrderly
<1> QED
  BY <1>1, <1>2, <1>3, <1>4

(* Whatever becomes of such a request, its sender only archives the page.  *)
LEMMA FailedWrite ==
  ASSUME Orderly, NEW i \in Clients, call[i].at \in {"append", "finalize"},
         NEW r, r = Request(i, call[i].at, call[i].page), Fails(i, r), Goto(i, "discard")
  PROVE  Orderly'
<1> DEFINE k == [call[i] EXCEPT !.at = "discard"]
<1>1. /\ IsCall(call[i]) /\ r.page = call[i].page /\ r.kind = call[i].at /\ r \in Requests
      /\ Sole(i, r.page) /\ Allowed(r) /\ r.page \in Pages
  BY WriterIsSole
<1>2. IsCall(k) /\ k.page = r.page /\ k.at = "discard"
  BY <1>1, NotionTargetAssumption DEF IsCall, Calls, Filling
<1>3. Sends(i, r, k)
  <2>1. call' = [call EXCEPT ![i] = k]
    BY DEF Goto
  <2> HIDE DEF k
  <2> QED
    BY <2>1 DEF Sends, Fails
<1> HIDE DEF k
<1> QED
  BY <1>1, <1>2, <1>3, SendsOrderly

LEMMA AppendOrderly ==
  ASSUME Orderly, NEW i \in Clients, Append(i)
  PROVE  Orderly'
<1> DEFINE p == call[i].page
           r == Request(i, "append", p)
<1>1. /\ call[i].at = "append"
      /\ \/ Succeeds(i, r) /\ Goto(i, Filled(pages'[p].blocks))
         \/ Fails(i, r) /\ Goto(i, "discard")
  BY DEF Append, At
<1>2. /\ IsCall(call[i]) /\ r.page = p /\ r.kind = "append" /\ r \in Requests
      /\ Sole(i, p) /\ Allowed(r) /\ p \in Pages
  BY <1>1, WriterIsSole
<1> HIDE DEF r
<1>3. CASE Succeeds(i, r) /\ Goto(i, Filled(pages'[p].blocks))
  <2> DEFINE k == [call[i] EXCEPT !.at = Filled(pages'[p].blocks)]
  <2>1. pages[p] # NoPage /\ pages' = Effect(r) /\ UNCHANGED limbo
    BY <1>2, <1>3 DEF Succeeds, Existing
  <2>2. /\ pages'[p] = After(r) /\ After(r).label = "pending"
        /\ After(r).blocks = pages[p].blocks + 1 /\ pages[p].blocks < Appends
        /\ pages[p].blocks \in 0 .. Appends
    <3>1. pages' = [pages EXCEPT ![p] = After(r)] /\ pages \in [Pages -> Records]
      BY <1>2, <2>1, EffectIsAfter DEF Orderly, Shape
    <3>2. /\ After(r).label = "pending" /\ After(r).blocks = pages[p].blocks + 1
      BY <1>2, <2>1, AfterIsRecord DEF Orderly
    <3>3. pages[p].blocks < Appends /\ pages[p].blocks \in 0 .. Appends
      BY <1>2, <2>1, <3>1 DEF Allowed, Records
    <3> QED
      BY <1>2, <3>1, <3>2, <3>3
  <2>3. /\ IsCall(k) /\ k.page = p /\ k.at = Filled(After(r).blocks)
    BY <1>2, <2>2, NotionTargetAssumption DEF IsCall, Calls, Filling, Filled
  <2>4. /\ k.at = "append" => After(r).blocks < Appends
        /\ k.at = "finalize" => After(r).blocks = Appends
    BY <2>2, <2>3, NotionTargetAssumption DEF Filled
  <2>5. Sends(i, r, k)
    <3>1. call' = [call EXCEPT ![i] = k]
      BY <1>3 DEF Goto
    <3> HIDE DEF k
    <3> QED
      BY <2>1, <3>1 DEF Sends
  <2> HIDE DEF k
  <2> QED
    BY <1>2, <2>1, <2>2, <2>3, <2>4, <2>5, SendsOrderly
<1>4. CASE Fails(i, r) /\ Goto(i, "discard")
  BY <1>1, <1>4, FailedWrite DEF r
<1> QED
  BY <1>1, <1>3, <1>4

LEMMA FinalizeOrderly ==
  ASSUME Orderly, NEW i \in Clients, Finalize(i)
  PROVE  Orderly'
<1> DEFINE r == Request(i, "finalize", call[i].page)
<1>1. /\ call[i].at = "finalize"
      /\ \/ Succeeds(i, r) /\ Returns(i, TRUE)
         \/ Fails(i, r) /\ Goto(i, "discard")
  BY DEF Finalize, At
<1>2. /\ IsCall(call[i]) /\ r.page = call[i].page /\ r.kind = "finalize" /\ r \in Requests
      /\ Sole(i, r.page) /\ Allowed(r) /\ r.page \in Pages
  BY <1>1, WriterIsSole
<1> HIDE DEF r
<1>3. CASE Succeeds(i, r) /\ Returns(i, TRUE)
  <2>1. PICK k : call' = [call EXCEPT ![i] = k] /\ IsCall(k) /\ k.page = Nobody
    BY <1>3, FailsFree DEF Free, Orderly
  <2>2. Sends(i, r, k)
    BY <1>3, <2>1 DEF Sends, Succeeds
  <2>3. k.at \notin Filling
    BY <2>1 DEF IsCall
  <2> QED
    BY <1>2, <2>1, <2>2, <2>3, <1>3, SendsOrderly DEF Filling, Succeeds
<1>4. CASE Fails(i, r) /\ Goto(i, "discard")
  BY <1>1, <1>4, FailedWrite DEF r
<1> QED
  BY <1>1, <1>3, <1>4

-----------------------------------------------------------------------------
(* A late request meets its page as it was sent for, or archived.          *)
LEMMA LateOrderly ==
  ASSUME Orderly, NEW r \in limbo, LateRequest(r)
  PROVE  Orderly'
<1> DEFINE p == r.page
<1>1. /\ r \in Requests /\ p \in Pages /\ p # Nobody
      /\ r.kind \in {"create", "append", "finalize", "archive"}
      /\ limbo' = limbo \ {r} /\ pages' = Effect(r) /\ UNCHANGED call
      /\ pages \in [Pages -> Records]
  BY NotionTargetAssumption DEF Orderly, Shape, LateRequest, Requests
<1>2. Allowed(r)
  <2>1. Writes(r.kind, p)
    BY DEF Writes
  <2> QED
    BY <1>1, <2>1 DEF Allowed, Orderly, PageIsOrderly
<1>3. pages' = [pages EXCEPT ![p] = After(r)] /\ After(r) \in Records
  BY <1>1, <1>2, EffectIsAfter, AfterIsRecord DEF Orderly
<1>4. Shape' /\ OneWriter'
  BY <1>1, <1>3 DEF Orderly, Shape, OneWriter
<1>5. ASSUME NEW q \in Pages \ {p} PROVE PageIsOrderly(q)'
  <2>1. \A kind \in {"create", "append", "finalize"} : Writes(kind, q)' => Writes(kind, q)
    BY <1>1 DEF Writes
  <2>2. pages'[q] = pages[q] /\ PageIsOrderly(q)
    BY <1>1, <1>3, <1>5 DEF Orderly
  <2> QED
    BY <2>1, <2>2 DEF PageIsOrderly
<1>6. PageIsOrderly(p)'
  <2>1. pages'[p] = After(r)
    BY <1>1, <1>3
  <2>2. CASE r.kind = "archive"
    <3>1. After(r) = NoPage
      BY <1>1, <1>2, <2>2, AfterIsRecord DEF Orderly
    <3> QED
      BY <2>1, <3>1 DEF PageIsOrderly, NoPage
  <2>3. CASE r.kind # "archive"
    <3>1. \A kind \in {"create", "append", "finalize"} : ~Writes(kind, p)'
      BY <1>1, <2>3 DEF Writes, Orderly, OneWriter
    <3>2. After(r).label = "final" => After(r).blocks = Appends
      BY <1>1, <1>2, AfterIsRecord DEF Orderly
    <3> QED
      BY <2>1, <3>1, <3>2 DEF PageIsOrderly
  <2> QED
    BY <2>2, <2>3
<1> QED
  BY <1>4, <1>5, <1>6 DEF Orderly

LEMMA NextOrderly == Orderly /\ [Next]_vars => Orderly'
<1> SUFFICES ASSUME Orderly, [Next]_vars PROVE Orderly'
  OBVIOUS
<1>1. CASE UNCHANGED <<pages, call, limbo>>
  BY <1>1 DEF Orderly, Shape, OneWriter, PageIsOrderly, Writes
<1>2. ASSUME NEW i \in Clients, Asks(i) PROVE Orderly'
  <2>1. CASE Pages = {}
    <3>1. Free(i) /\ UNCHANGED <<pages, limbo>>
      BY <1>2, AsksFree, AsksOnly DEF Orderly
    <3>2. /\ call' \in [Clients -> Calls] /\ \A j \in Clients : IsCall(call'[j])
          /\ call'[i].page = Nobody /\ \A j \in Clients \ {i} : call'[j] = call[j]
      BY <3>1, FreeCall DEF Orderly
    <3>3. limbo = {}
      BY <2>1 DEF Orderly, Shape, Requests
    <3> QED
      BY <2>1, <3>1, <3>2, <3>3 DEF Orderly, Shape, OneWriter
  <2>2. ASSUME NEW p \in Pages PROVE Orderly'
    BY <1>2, AsksFree, AsksOnly, FreeOrderly DEF Orderly, Archives
  <2> QED
    BY <2>1, <2>2
<1>3. ASSUME NEW i \in Clients,
             Archive(i) \/ Create(i) \/ Append(i) \/ Finalize(i) \/ Discard(i)
      PROVE  Orderly'
  BY <1>3, ArchiveOrderly, CreateOrderly, AppendOrderly, FinalizeOrderly, DiscardOrderly
<1>4. ASSUME NEW r \in limbo, LateRequest(r) PROVE Orderly'
  BY <1>4, LateOrderly
<1>5. ASSUME NEW i \in Clients, CacheExpires(i) PROVE Orderly'
  BY <1>1, <1>5 DEF CacheExpires
<1> QED
  BY <1>1, <1>2, <1>3, <1>4, <1>5 DEF Next, Steps, Asks, vars

(* A page that has its final ID has all of its blocks, whichever requests  *)
(* failed, lost their reply or came late, and whichever instances met.     *)
THEOREM FinalIsCompleteHolds == Spec => []FinalIsComplete
<1>1. Orderly => FinalIsComplete
  BY DEF Orderly, PageIsOrderly, FinalIsComplete, Existing
<1> QED
  BY InitOrderly, NextOrderly, <1>1, PTL DEF Spec

-----------------------------------------------------------------------------
(* One page for a content, and a page for what was delivered.              *)
Ills == {"overlap", "stale", "withdrawn"}
Caches == [fresh : BOOLEAN, ids : SUBSET (Contents \X {"pending", "final"}), full : BOOLEAN]

Known ==
  /\ cache \in [Clients -> Caches]
  /\ delivered \subseteq Contents
  /\ disturbed \in [Contents -> SUBSET Ills]

Has(p, c) == pages[p].content = c
HasFinal(c) == \E p \in Pages : Has(p, c) /\ pages[p].label = "final"

(* A page belongs to one content, also for the calls and the late requests *)
(* that still refer to it.                                                 *)
Ref(p, c) ==
  \/ Has(p, c)
  \/ \E i \in Clients : call[i].content = c /\ (call[i].page = p \/ p \in call[i].todo)
  \/ \E r \in limbo : r.page = p /\ r.content = c
OneContent == \A p \in Pages, c, d \in Contents : Ref(p, c) /\ Ref(p, d) => c = d

(* A call has all pages of its content in view from the query for them on. *)
Follows(i) ==
  LET c == call[i].content IN
  /\ call[i].at = "create" => \A p \in Pages : ~Has(p, c)
  /\ call[i].at \in Filling => \A p \in Pages : Has(p, c) => p = call[i].page
  /\ call[i].at = "archive" => \A p \in Pages : Has(p, c) => p \in call[i].todo /\ pages[p].label = "pending"

Single(c) ==
  disturbed[c] \subseteq {"withdrawn"} =>
    /\ \A i, j \in Clients : call[i].content = c /\ call[j].content = c => i = j
    /\ \A p, q \in Pages : Has(p, c) /\ Has(q, c) => p = q
    /\ \A i \in Clients : call[i].content = c => Follows(i)

(* Whoever says that a content is there is right, and nobody fills another *)
(* page of it.                                                             *)
Kept(c) ==
  disturbed[c] = {} =>
    /\ c \in delivered \/ KnownAsFinal(c) => HasFinal(c)
    /\ \A i \in Clients : call[i].content = c /\ call[i].at \in Filling => c \notin delivered

Traced == Orderly /\ Known /\ OneContent /\ \A c \in Contents : Single(c) /\ Kept(c)

LEMMA RecordHas ==
  ASSUME Orderly, NEW p \in Pages, NEW c \in Contents
  PROVE  /\ pages[p] \in Records
         /\ Has(p, c) => pages[p] # NoPage
         /\ pages[p] # NoPage => pages[p].content \in Contents /\ Has(p, pages[p].content)
         /\ p \in PagesOf(c) <=> Has(p, c)
         /\ \A label : p \in Labelled(c, label) <=> Has(p, c) /\ pages[p].label = label
<1>1. pages[p] \in Records /\ Nobody \notin Contents
  BY NotionTargetAssumption DEF Orderly, Shape
<1>2. NoPage.content = Nobody
  BY DEF NoPage
<1>3. pages[p] # NoPage => pages[p].content \in Contents
  BY <1>1 DEF Records
<1> QED
  BY <1>1, <1>2, <1>3 DEF Has, PagesOf, Labelled, Existing

LEMMA InitTraced == Init => Traced
<1> SUFFICES ASSUME Init PROVE Traced
  OBVIOUS
<1>1. Orderly /\ Nobody \notin Contents
  BY InitOrderly, NotionTargetAssumption
<1>2. Known
  BY DEF Init, Known, Caches, Stale, Ills
<1>3. \A p \in Pages : pages[p].content = Nobody
  BY DEF Init, NoPage
<1>4. \A i \in Clients : call[i].content = Nobody /\ cache[i].fresh = FALSE
  BY DEF Init, Idle, Stale
<1>5. OneContent
  BY <1>1, <1>3, <1>4 DEF OneContent, Ref, Has, Init
<1>6. ASSUME NEW c \in Contents PROVE Single(c) /\ Kept(c)
  BY <1>1, <1>3, <1>4 DEF Single, Kept, Has, KnownAsFinal, Init
<1> QED
  BY <1>1, <1>2, <1>5, <1>6 DEF Traced

-----------------------------------------------------------------------------
(* What an instance knows after a step.                                    *)
LEMMA CacheStays ==
  ASSUME Known, NEW i \in Clients,
         \/ UNCHANGED cache
         \/ cache' = [cache EXCEPT ![i] = Stale]
         \/ \E gone : Remember(i, {}, gone)
  PROVE  cache' \in [Clients -> Caches] /\ \A c : KnownAsFinal(c)' => KnownAsFinal(c)
<1>0. cache \in [Clients -> Caches]
  BY DEF Known
<1>1. CASE UNCHANGED cache
  BY <1>0, <1>1 DEF KnownAsFinal
<1>2. CASE cache' = [cache EXCEPT ![i] = Stale]
  BY <1>0, <1>2 DEF KnownAsFinal, Stale, Caches
<1>3. CASE \E gone : Remember(i, {}, gone)
  <2>1. PICK gone : cache' = [cache EXCEPT ![i].ids = IF cache[i].fresh THEN (@ \cup {}) \ gone ELSE @]
    BY <1>3 DEF Remember
  <2> DEFINE ids == IF cache[i].fresh THEN (cache[i].ids \cup {}) \ gone ELSE cache[i].ids
             k == [cache[i] EXCEPT !.ids = ids]
  <2>2. cache' = [cache EXCEPT ![i] = k] /\ ids \subseteq cache[i].ids
    BY <2>1
  <2>3. k \in Caches /\ k.ids \subseteq cache[i].ids /\ k.fresh = cache[i].fresh
    <3> HIDE DEF ids
    <3> QED
      BY <1>0, <2>2 DEF Caches
  <2> HIDE DEF k
  <2> QED
    BY <1>0, <2>2, <2>3 DEF KnownAsFinal
<1> QED
  BY <1>1, <1>2, <1>3

LEMMA CacheGains ==
  ASSUME Known, NEW i \in Clients, call[i].content \in Contents, CacheFinal(i)
  PROVE  /\ cache' \in [Clients -> Caches]
         /\ \A c : KnownAsFinal(c)' => KnownAsFinal(c) \/ c = call[i].content
<1> DEFINE add == {<<call[i].content, "final">>}
           gone == {<<call[i].content, "pending">>}
           ids == IF cache[i].fresh THEN (cache[i].ids \cup add) \ gone ELSE cache[i].ids
           k == [cache[i] EXCEPT !.ids = ids]
<1>0. cache \in [Clients -> Caches]
  BY DEF Known
<1>1. cache' = [cache EXCEPT ![i] = k]
  BY DEF CacheFinal, Remember, Content
<1>2. ids \subseteq cache[i].ids \cup add /\ add \subseteq Contents \X {"pending", "final"}
  OBVIOUS
<1>3. \A c : <<c, "final">> \in add => c = call[i].content
  OBVIOUS
<1>4. k \in Caches /\ k.ids \subseteq cache[i].ids \cup add /\ k.fresh = cache[i].fresh
  <2> HIDE DEF ids, add
  <2> QED
    BY <1>0, <1>2 DEF Caches
<1> HIDE DEF k, add
<1> QED
  BY <1>0, <1>1, <1>3, <1>4 DEF KnownAsFinal

LEMMA CacheScans ==
  ASSUME Known, Orderly, NEW i \in Clients, NEW scanned \in Scans, cache' = [cache EXCEPT ![i] = scanned]
  PROVE  /\ cache' \in [Clients -> Caches]
         /\ \A c \in Contents : <<c, "final">> \in scanned.ids => HasFinal(c)
         /\ \A c \in Contents : KnownAsFinal(c)' => KnownAsFinal(c) \/ HasFinal(c)
<1>0. cache \in [Clients -> Caches]
  BY DEF Known
<1>1. scanned \in [fresh : BOOLEAN, ids : SUBSET Listed, full : BOOLEAN]
  <2> DEFINE All(S) == [fresh : BOOLEAN, ids : SUBSET S, full : BOOLEAN]
  <2>1. \A S : [fresh |-> TRUE, ids |-> S, full |-> TRUE] \in All(S)
    OBVIOUS
  <2>2. \A S : [fresh : {TRUE}, ids : SUBSET S, full : {FALSE}] \subseteq All(S)
    OBVIOUS
  <2> HIDE DEF All
  <2>3. scanned \in All(Listed)
    BY <2>1, <2>2 DEF Scans
  <2> QED
    BY <2>3 DEF All
<1>2. Listed \subseteq Contents \X {"pending", "final"}
  <2> SUFFICES ASSUME NEW p \in Existing PROVE pages[p].content \in Contents /\ pages[p].label \in {"pending", "final"}
    BY DEF Listed
  <2> QED
    BY DEF Existing, Orderly, Shape, Records
<1>3. scanned \in Caches
  <2> DEFINE S == Listed
  <2>1. scanned \in [fresh : BOOLEAN, ids : SUBSET S, full : BOOLEAN] /\ S \subseteq Contents \X {"pending", "final"}
    BY <1>1, <1>2
  <2> HIDE DEF S
  <2> QED
    BY <2>1 DEF Caches
<1>4. ASSUME NEW c \in Contents, <<c, "final">> \in scanned.ids PROVE HasFinal(c)
  <2>1. PICK p \in Existing : <<c, "final">> = <<pages[p].content, pages[p].label>>
    BY <1>1, <1>4 DEF Listed
  <2> QED
    BY <2>1 DEF HasFinal, Has, Existing
<1> QED
  BY <1>0, <1>3, <1>4 DEF KnownAsFinal

-----------------------------------------------------------------------------
(* A step on behalf of one content leaves the others as they are.          *)
Apart(c) ==
  /\ \A j \in Clients : call'[j] = call[j] \/
       (call[j].content \in {c, Nobody} /\ call'[j].content \in {c, Nobody})
  /\ \A p \in Pages, d \in Contents : d # c /\ (Has(p, d) \/ Has(p, d)') => pages'[p] = pages[p]
  /\ \A d \in Contents : d # c =>
       /\ disturbed'[d] = disturbed[d]
       /\ d \in delivered' <=> d \in delivered
       /\ KnownAsFinal(d)' => KnownAsFinal(d) \/ HasFinal(d)

LEMMA OthersTraced ==
  ASSUME NEW c, Apart(c), NEW d \in Contents, d # c, Single(d), Kept(d)
  PROVE  Single(d)' /\ Kept(d)'
<1>1. \A p \in Pages : (Has(p, d)' <=> Has(p, d)) /\ (Has(p, d) => pages'[p] = pages[p])
  BY DEF Apart, Has
<1>2. HasFinal(d)' <=> HasFinal(d)
  BY <1>1 DEF HasFinal
<1>3. \A j \in Clients : call'[j].content = d => call'[j] = call[j]
  BY NotionTargetAssumption DEF Apart
<1>4. /\ disturbed'[d] = disturbed[d] /\ (d \in delivered' <=> d \in delivered)
      /\ KnownAsFinal(d)' => KnownAsFinal(d) \/ HasFinal(d)
  BY DEF Apart
<1>5. Single(d)'
  <2> SUFFICES ASSUME disturbed[d] \subseteq {"withdrawn"}
               PROVE  /\ \A i, j \in Clients : call'[i].content = d /\ call'[j].content = d => i = j
                      /\ \A p, q \in Pages : Has(p, d)' /\ Has(q, d)' => p = q
                      /\ \A i \in Clients : call'[i].content = d => Follows(i)'
    BY <1>4 DEF Single
  <2>1. /\ \A i, j \in Clients : call'[i].content = d /\ call'[j].content = d => i = j
        /\ \A p, q \in Pages : Has(p, d)' /\ Has(q, d)' => p = q
    BY <1>1, <1>3 DEF Single
  <2>2. ASSUME NEW i \in Clients, call'[i].content = d PROVE Follows(i)'
    <3>1. call'[i] = call[i] /\ Follows(i)
      BY <1>3, <2>2 DEF Single
    <3> QED
      BY <1>1, <2>2, <3>1 DEF Follows
  <2> QED
    BY <2>1, <2>2
<1>6. Kept(d)'
  BY <1>2, <1>3, <1>4 DEF Kept
<1> QED
  BY <1>5, <1>6

(* Pages only get out of use, but for one that is created.                 *)
LEMMA RefsApart ==
  ASSUME OneContent, NEW p, NEW c,
         \A q \in Pages, d \in Contents : Ref(q, d)' => Ref(q, d) \/ (q = p /\ d = c),
         \A d \in Contents : Ref(p, d) => d = c
  PROVE  OneContent'
<1> SUFFICES ASSUME NEW q \in Pages, NEW d \in Contents, NEW e \in Contents, Ref(q, d)', Ref(q, e)'
             PROVE  d = e
  BY DEF OneContent
<1> QED
  BY DEF OneContent

(* The content of the call that takes a step.                              *)
LEMMA OwnTraced ==
  ASSUME NEW i \in Clients, NEW c \in Contents, call[i].content = c, Single(c), Kept(c),
         \A j \in Clients : j # i => call'[j] = call[j],
         call'[i].content \in {c, Nobody},
         disturbed[c] \subseteq disturbed'[c],
         disturbed'[c] \subseteq {"withdrawn"} =>
           /\ \A p, q \in Pages : Has(p, c)' /\ Has(q, c)' => p = q
           /\ call'[i].content = c => Follows(i)',
         disturbed'[c] = {} =>
           /\ c \in delivered' \/ KnownAsFinal(c)' => HasFinal(c)'
           /\ call'[i].content = c /\ call'[i].at \in Filling => c \notin delivered'
  PROVE  Single(c)' /\ Kept(c)'
<1>1. disturbed'[c] \subseteq {"withdrawn"} =>
        \A j \in Clients : call'[j].content = c => j = i
  BY DEF Single
<1>2. Single(c)'
  BY <1>1 DEF Single
<1>3. Kept(c)'
  BY <1>1 DEF Kept
<1> QED
  BY <1>2, <1>3

(* A call that ends, or begins its second attempt.                         *)
Quits(i, k) ==
  /\ call' = [call EXCEPT ![i] = k] /\ IsCall(k)
  /\ k.at \in {"idle", "refresh"} /\ k.content \in {call[i].content, Nobody}
  /\ k.page = Nobody /\ k.todo = {}

LEMMA FailsQuits ==
  ASSUME Shape, NEW i \in Clients
  PROVE  /\ \A ok \in BOOLEAN : Returns(i, ok) => Quits(i, Idle)
         /\ call[i].at # "idle" /\ AttemptFails(i) => UNCHANGED delivered /\ \E k : Quits(i, k)
<1>1. ASSUME NEW ok \in BOOLEAN, Returns(i, ok) PROVE Quits(i, Idle)
  <2>1. Idle.content = Nobody /\ Idle.todo = {}
    BY DEF Idle
  <2> QED
    BY <1>1, <2>1, IdleIsCall DEF Returns, Quits
<1>2. ASSUME call[i].at # "idle", AttemptFails(i), ~call[i].again PROVE UNCHANGED delivered /\ \E k : Quits(i, k)
  <2> DEFINE k == [Idle EXCEPT !.at = "refresh", !.content = Content(i), !.again = TRUE]
  <2>1. /\ IsCall(k) /\ k.page = Nobody /\ k.at = "refresh" /\ k.todo = {}
        /\ k.content = call[i].content
    BY <1>2, NotionTargetAssumption DEF Shape, IsCall, Idle, Calls, Filling, Content
  <2>2. call' = [call EXCEPT ![i] = k] /\ UNCHANGED delivered
    BY <1>2 DEF AttemptFails
  <2> QED
    BY <2>1, <2>2 DEF Quits
<1>3. ASSUME call[i].again, AttemptFails(i) PROVE UNCHANGED delivered /\ \E k : Quits(i, k)
  <2>1. Returns(i, FALSE)
    BY <1>3 DEF AttemptFails
  <2> QED
    BY <1>1, <2>1 DEF Returns
<1> QED
  BY <1>1, <1>2, <1>3

(* A call without a page that asks, and learns what is there.              *)
LEMMA AskTraced ==
  ASSUME Traced, Orderly', NEW i \in Clients, NEW c \in Contents, call[i].content = c,
         UNCHANGED <<pages, limbo>>, cache' \in [Clients -> Caches],
         NEW k, call' = [call EXCEPT ![i] = k], k.content \in {c, Nobody}, k.at \notin Filling,
         k.page = Nobody, \A p \in k.todo : p \in call[i].todo \/ Has(p, c),
         disturbed' = disturbed \/ disturbed' = [disturbed EXCEPT ![c] = @ \cup {"stale"}],
         delivered' \in {delivered, delivered \cup {c}},
         \A d \in Contents : KnownAsFinal(d)' => KnownAsFinal(d) \/ HasFinal(d),
         delivered' # delivered => disturbed[c] # {} \/ HasFinal(c),
         disturbed'[c] \subseteq {"withdrawn"} /\ k.content = c => Follows(i)'
  PROVE  Traced'
<1>0. /\ Known /\ OneContent /\ Single(c) /\ Kept(c) /\ Nobody \notin Contents /\ Nobody \notin Pages
      /\ call \in [Clients -> Calls]
  BY NotionTargetAssumption DEF Traced, Orderly, Shape
<1>1. /\ call'[i] = k /\ \A j \in Clients : j # i => call'[j] = call[j]
  BY <1>0
<1>2. /\ \A d \in Contents : d # c => disturbed'[d] = disturbed[d]
      /\ disturbed[c] \subseteq disturbed'[c]
      /\ disturbed' \in [Contents -> SUBSET Ills]
  BY <1>0 DEF Known, Ills
<1>3. Known'
  BY <1>0, <1>2 DEF Known
<1>4. \A d : (HasFinal(d)' <=> HasFinal(d)) /\ \A p : Has(p, d)' <=> Has(p, d)
  BY DEF HasFinal, Has
<1>5. Apart(c)
  BY <1>1, <1>2, <1>4 DEF Apart
<1>6. OneContent'
  <2>1. \A q \in Pages, d \in Contents : Ref(q, d)' => Ref(q, d)
    BY <1>0, <1>1 DEF Ref, Has
  <2> QED
    BY <1>0, <2>1 DEF OneContent
<1>7. Single(c)' /\ Kept(c)'
  <2>1. disturbed'[c] \subseteq {"withdrawn"} =>
           /\ \A p, q \in Pages : Has(p, c)' /\ Has(q, c)' => p = q
           /\ call'[i].content = c => Follows(i)'
    BY <1>0, <1>1, <1>2, <1>4 DEF Single
  <2>2. disturbed'[c] = {} =>
           /\ c \in delivered' \/ KnownAsFinal(c)' => HasFinal(c)'
           /\ call'[i].content = c /\ call'[i].at \in Filling => c \notin delivered'
    BY <1>0, <1>1, <1>2, <1>4 DEF Kept
  <2>3. /\ call'[i].content \in {c, Nobody} /\ \A j \in Clients : j # i => call'[j] = call[j]
        /\ Single(c) /\ Kept(c) /\ disturbed[c] \subseteq disturbed'[c]
    BY <1>0, <1>1, <1>2
  <2> QED
    BY <2>1, <2>2, <2>3, OwnTraced, Zenon
<1>8. \A d \in Contents : Single(d)' /\ Kept(d)'
  BY <1>5, <1>7, OthersTraced DEF Traced
<1> QED
  BY <1>3, <1>6, <1>8 DEF Traced

LEMMA ListTraced ==
  ASSUME Traced, Orderly', NEW i \in Clients, ListCached(i) \/ Scan(i)
  PROVE  Traced'
<1> DEFINE c == call[i].content
<1>0. /\ call[i].at \in {"list", "refresh"} /\ IsCall(call[i]) /\ c \in Contents
      /\ Orderly /\ Known /\ UNCHANGED <<pages, limbo, disturbed>> /\ Shape
      /\ Single(c) /\ Kept(c)
  BY NotionTargetAssumption
     DEF Traced, Orderly, Shape, IsCall, Calls, ListCached, Scan, MustScan, At
<1>1. PICK known, lookup :
        /\ Decide(i, known, lookup) /\ cache' \in [Clients -> Caches]
        /\ \A d \in Contents : KnownAsFinal(d)' => KnownAsFinal(d) \/ HasFinal(d)
        /\ <<c, "final">> \in known => disturbed[c] # {} \/ HasFinal(c)
        /\ ~lookup /\ <<c, "final">> \notin known /\ <<c, "pending">> \notin known =>
             \A p \in Pages : ~Has(p, c)
  <2>1. CASE ListCached(i)
    <3>1. /\ cache[i].fresh /\ UNCHANGED cache
          /\ Decide(i, cache[i].ids, ExactLookupOnMiss(TRUE, cache[i].full))
      BY <2>1 DEF ListCached
    <3>2. ExactLookupOnMiss(TRUE, cache[i].full)
      BY DEF ExactLookupOnMiss
    <3>3. cache' \in [Clients -> Caches] /\ \A d : KnownAsFinal(d)' => KnownAsFinal(d)
      BY <1>0, <3>1, CacheStays
    <3>4. <<c, "final">> \in cache[i].ids => disturbed[c] # {} \/ HasFinal(c)
      BY <1>0, <3>1 DEF Kept, KnownAsFinal
    <3> QED
      BY <3>1, <3>2, <3>3, <3>4
  <2>2. CASE Scan(i)
    <3>1. PICK scanned \in Scans :
            /\ cache' = [cache EXCEPT ![i] = scanned]
            /\ Decide(i, scanned.ids, ExactLookupOnMiss(FALSE, scanned.full))
      BY <2>2 DEF Scan
    <3>2. /\ cache' \in [Clients -> Caches]
          /\ \A d \in Contents : <<d, "final">> \in scanned.ids => HasFinal(d)
          /\ \A d \in Contents : KnownAsFinal(d)' => KnownAsFinal(d) \/ HasFinal(d)
      BY <1>0, <3>1, CacheScans
    <3>3. ASSUME ~ExactLookupOnMiss(FALSE, scanned.full), NEW p \in Pages, Has(p, c)
          PROVE  <<c, "final">> \in scanned.ids \/ <<c, "pending">> \in scanned.ids
      <4>1. scanned.full
        BY <3>3 DEF ExactLookupOnMiss
      <4>2. scanned.ids = Listed
        <5> DEFINE S == Listed
        <5>1. scanned = [fresh |-> TRUE, ids |-> S, full |-> TRUE] \/ scanned \in [fresh : {TRUE}, ids : SUBSET S, full : {FALSE}]
          BY DEF Scans
        <5> HIDE DEF S
        <5>2. scanned.full = FALSE \/ scanned.ids = S
          <6>1. ASSUME scanned = [fresh |-> TRUE, ids |-> S, full |-> TRUE] PROVE scanned.ids = S
            BY <6>1
          <6>2. ASSUME scanned \in [fresh : {TRUE}, ids : SUBSET S, full : {FALSE}] PROVE scanned.full = FALSE
            BY <6>2
          <6> QED
            BY <5>1, <6>1, <6>2, Zenon
        <5> QED
          BY <4>1, <5>2, Zenon DEF S
      <4>3. p \in Existing /\ pages[p].content = c /\ pages[p].label \in {"pending", "final"}
        BY <1>0, <3>3, RecordHas DEF Existing, Has, Records
      <4> QED
        BY <4>2, <4>3 DEF Listed
    <3> QED
      BY <1>0, <3>1, <3>2, <3>3
  <2> QED
    BY <2>1, <2>2
<1>2. CASE <<c, "final">> \in known
  <2>1. Returns(i, TRUE)
    BY <1>1, <1>2 DEF Decide, Found, Content
  <2>2. Quits(i, Idle) /\ delivered' = delivered \cup {c}
    BY <1>0, <2>1, FailsQuits DEF Returns, Content
  <2>3. ~(Idle.content = c) /\ Idle.content = Nobody /\ Idle.at \notin Filling /\ Idle.page = Nobody /\ Idle.todo = {}
    BY <1>0, NotionTargetAssumption DEF Idle, Filling
  <2> QED
    BY <1>0, <1>1, <1>2, <2>2, <2>3, AskTraced DEF Quits
<1>3. CASE <<c, "final">> \notin known
  <2>1. PICK where \in {"sweep", "lookup", "create"} :
          /\ Goto(i, where) /\ UNCHANGED delivered
          /\ where = "create" => <<c, "pending">> \notin known /\ ~lookup
    BY <1>1, <1>3 DEF Decide, Found, Content
  <2> DEFINE k == [call[i] EXCEPT !.at = where]
  <2>2. call' = [call EXCEPT ![i] = k] /\ call' = [call EXCEPT ![i].at = where]
    BY <2>1 DEF Goto
  <2>3. /\ k.content = c /\ k.at = where /\ k.at \notin Filling /\ k.page = Nobody
        /\ k.todo = call[i].todo
    BY <1>0 DEF IsCall, Calls, Filling
  <2>4. Follows(i)'
    <3>1. call'[i] = k
      BY <1>0, <2>2 DEF Shape
    <3> HIDE DEF k
    <3>2. (\A p \in Pages : ~Has(p, c)) \/ where # "create"
      BY <1>1, <1>3, <2>1
    <3> QED
      BY <1>0, <2>3, <3>1, <3>2 DEF Follows, Has, Filling
  <2> HIDE DEF k
  <2> QED
    BY <1>0, <1>1, <2>1, <2>2, <2>3, <2>4, AskTraced
<1> QED
  BY <1>2, <1>3

(* A call that ends without a result, and leaves the pages alone.          *)
LEMMA FailTraced ==
  ASSUME Traced, Orderly', NEW i \in Clients, NEW k, Quits(i, k),
         UNCHANGED <<pages, limbo, delivered, disturbed>>,
         UNCHANGED cache \/ cache' = [cache EXCEPT ![i] = Stale]
  PROVE  Traced'
<1> DEFINE c == call[i].content
<1>0. /\ IsCall(call[i]) /\ IsCall(k) /\ k.content \in {c, Nobody} /\ c \in Contents \cup {Nobody}
      /\ call \in [Clients -> Calls] /\ Orderly /\ Known /\ OneContent
  BY DEF Traced, Orderly, Shape, Quits, IsCall, Calls
<1>1. cache' \in [Clients -> Caches] /\ \A d : KnownAsFinal(d)' => KnownAsFinal(d)
  BY <1>0, CacheStays
<1>2. CASE c \in Contents
  <2>1. /\ call' = [call EXCEPT ![i] = k] /\ k.at \in {"idle", "refresh"} /\ k.page = Nobody
        /\ k.todo = {} /\ k.at \notin Filling
    BY DEF Quits, Filling
  <2>2. Follows(i)'
    BY <1>0, <2>1 DEF Follows, Filling
  <2> QED
    BY <1>0, <1>1, <1>2, <2>1, <2>2, AskTraced
<1>3. CASE c = Nobody
  <2>0. Nobody \notin Contents /\ Nobody \notin Pages
    BY NotionTargetAssumption
  <2>1. /\ call'[i] = k /\ k.content = Nobody /\ k.page = Nobody /\ k.todo = {}
        /\ \A j \in Clients : j # i => call'[j] = call[j]
    BY <1>0, <1>3 DEF Quits
  <2>2. Apart(Nobody)
    BY <1>1, <1>3, <2>1 DEF Apart, Has
  <2>3. OneContent'
    <3>1. \A q \in Pages, d \in Contents : Ref(q, d)' => Ref(q, d)
      BY <2>0, <2>1 DEF Ref, Has
    <3> QED
      BY <1>0, <3>1 DEF OneContent
  <2>4. \A d \in Contents : Single(d)' /\ Kept(d)'
    BY <2>0, <2>2, OthersTraced DEF Traced
  <2>5. Known'
    BY <1>0, <1>1 DEF Known
  <2> QED
    BY <2>3, <2>4, <2>5 DEF Traced
<1> QED
  BY <1>0, <1>2, <1>3

LEMMA EndTraced ==
  ASSUME Traced, Orderly', NEW i \in Clients,
         ScanFails(i) \/ LookupFails(i) \/ SweepFails(i) \/ End(i)
  PROVE  Traced'
<1>0. Shape
  BY DEF Traced, Orderly
<1>1. CASE ScanFails(i) \/ LookupFails(i)
  <2>1. Quits(i, Idle) /\ UNCHANGED <<pages, limbo, delivered, disturbed, cache>>
    BY <1>0, <1>1, FailsQuits DEF ScanFails, LookupFails, Returns
  <2> QED
    BY <2>1, FailTraced
<1>2. CASE SweepFails(i)
  <2>1. PICK k : Quits(i, k) /\ UNCHANGED <<pages, limbo, delivered, disturbed, cache>>
    BY <1>0, <1>2, FailsQuits DEF SweepFails, At
  <2> QED
    BY <2>1, FailTraced
<1>3. CASE End(i)
  <2>1. Idle.content = Nobody /\ Idle.todo = {}
    BY DEF Idle
  <2>2. Quits(i, Idle)
    BY <1>3, <2>1, IdleIsCall DEF End, Quits
  <2>3. UNCHANGED <<pages, limbo, delivered, disturbed>> /\ cache' = [cache EXCEPT ![i] = Stale]
    BY <1>3 DEF End
  <2> QED
    BY <2>2, <2>3, FailTraced
<1> QED
  BY <1>1, <1>2, <1>3

LEMMA ExpireTraced ==
  ASSUME Traced, Orderly', NEW i \in Clients, CacheExpires(i)
  PROVE  Traced'
<1>0. /\ Known /\ OneContent /\ UNCHANGED <<pages, call, limbo, delivered, disturbed>>
      /\ Nobody \notin Contents
  BY NotionTargetAssumption DEF Traced, CacheExpires
<1>1. cache' \in [Clients -> Caches] /\ \A d : KnownAsFinal(d)' => KnownAsFinal(d)
  BY <1>0, CacheStays DEF CacheExpires
<1>2. Apart(Nobody)
  BY <1>0, <1>1 DEF Apart
<1>3. \A d \in Contents : Single(d)' /\ Kept(d)'
  BY <1>0, <1>2, OthersTraced DEF Traced
<1>4. OneContent' /\ Known'
  BY <1>0, <1>1 DEF OneContent, Ref, Has, Known
<1> QED
  BY <1>3, <1>4 DEF Traced

LEMMA DeliverTraced ==
  ASSUME Traced, Orderly', NEW i \in Clients, NEW c \in Contents, Deliver(i, c)
  PROVE  Traced'
<1> DEFINE k == [Idle EXCEPT !.at = "list", !.content = c]
<1>0. /\ Known /\ OneContent /\ Orderly /\ UNCHANGED <<pages, cache, limbo, delivered>>
      /\ Nobody \notin Contents /\ Nobody \notin Pages /\ call \in [Clients -> Calls]
      /\ call[i].content = Nobody /\ Single(c) /\ Kept(c)
  BY NotionTargetAssumption DEF Traced, Orderly, Shape, IsCall, Deliver, At
<1>1. call' = [call EXCEPT ![i] = k] /\ k.at = "list" /\ k.content = c /\ k.page = Nobody /\ k.todo = {}
  BY DEF Deliver, Idle
<1>2. call'[i] = k /\ \A j \in Clients : j # i => call'[j] = call[j]
  BY <1>0, <1>1
<1> HIDE DEF k
<1>3. /\ \A d \in Contents : d # c => disturbed'[d] = disturbed[d]
      /\ disturbed[c] \subseteq disturbed'[c] /\ disturbed' \in [Contents -> SUBSET Ills]
      /\ (\E j \in Clients : call[j].content = c) => "overlap" \in disturbed'[c]
  BY <1>0 DEF Known, Ills, Deliver, Content
<1>4. Apart(c)
  BY <1>0, <1>1, <1>2, <1>3 DEF Apart, KnownAsFinal, Has
<1>5. OneContent'
  <2>1. \A q \in Pages, d \in Contents : Ref(q, d)' => Ref(q, d)
    BY <1>0, <1>1, <1>2 DEF Ref, Has
  <2> QED
    BY <1>0, <2>1 DEF OneContent
<1>6. Single(c)'
  <2> SUFFICES ASSUME disturbed'[c] \subseteq {"withdrawn"} PROVE Single(c)'
    BY DEF Single
  <2>1. \A j \in Clients : call'[j].content = c => j = i
    BY <1>2, <1>3
  <2>2. Follows(i)'
    BY <1>1, <1>2 DEF Follows, Filling
  <2>3. \A p, q \in Pages : Has(p, c)' /\ Has(q, c)' => p = q
    BY <1>0, <1>3 DEF Single, Has
  <2> QED
    BY <2>1, <2>2, <2>3 DEF Single
<1>7. Kept(c)'
  <2> SUFFICES ASSUME disturbed'[c] = {} PROVE Kept(c)'
    BY DEF Kept
  <2>1. c \in delivered' \/ KnownAsFinal(c)' => HasFinal(c)'
    BY <1>0, <1>3 DEF Kept, KnownAsFinal, HasFinal, Has
  <2>2. \A j \in Clients : call'[j].content = c => call'[j].at \notin Filling
    BY <1>1, <1>2, <1>3 DEF Filling
  <2> QED
    BY <2>1, <2>2 DEF Kept
<1>8. \A d \in Contents : Single(d)' /\ Kept(d)'
  BY <1>4, <1>6, <1>7, OthersTraced DEF Traced
<1> QED
  BY <1>0, <1>3, <1>5, <1>8 DEF Traced, Known

LEMMA QueryTraced ==
  ASSUME Traced, Orderly', NEW i \in Clients, Lookup(i) \/ Sweep(i) \/ Archived(i)
  PROVE  Traced'
<1> DEFINE c == call[i].content
           pending == Labelled(c, "pending")
<1>0. /\ call[i].at \in {"lookup", "sweep", "archive"} /\ IsCall(call[i]) /\ c \in Contents
      /\ Orderly /\ Known /\ UNCHANGED <<pages, limbo>> /\ Shape /\ Single(c) /\ Kept(c)
      /\ call \in [Clients -> Calls] /\ call[i].page = Nobody
  BY NotionTargetAssumption
     DEF Traced, Orderly, Shape, IsCall, Calls, Lookup, Sweep, Archived, At, Filling
<1>1. \A p \in Pages : /\ p \in pending <=> Has(p, c) /\ pages[p].label = "pending"
                       /\ pages[p].label \in {"pending", "final"}
  BY <1>0, RecordHas DEF Records, NoPage
<1>2. pending \subseteq Pages
  BY DEF Labelled, PagesOf, Existing
<1>3. Labelled(c, "final") # {} <=> HasFinal(c)
  <2>1. \A p \in Labelled(c, "final") : p \in Pages
    BY DEF Labelled, PagesOf, Existing
  <2> QED
    BY <1>0, <2>1, RecordHas DEF HasFinal
<1> HIDE DEF pending
<1>4. CASE Lookup(i) /\ HasFinal(c)
  <2>1. CacheFinal(i) /\ Returns(i, TRUE) /\ UNCHANGED disturbed
    BY <1>3, <1>4 DEF Lookup, Content
  <2>2. Quits(i, Idle) /\ delivered' = delivered \cup {c}
    BY <1>0, <2>1, FailsQuits DEF Returns, Content
  <2>3. /\ cache' \in [Clients -> Caches]
        /\ \A d : KnownAsFinal(d)' => KnownAsFinal(d) \/ d = c
    BY <1>0, <2>1, CacheGains
  <2>4. Idle.content = Nobody /\ Idle.at \notin Filling /\ Idle.page = Nobody /\ Idle.todo = {} /\ Nobody # c
    BY <1>0, NotionTargetAssumption DEF Idle, Filling
  <2> QED
    BY <1>0, <1>4, <2>1, <2>2, <2>3, <2>4, AskTraced DEF Quits
<1>5. CASE Lookup(i) /\ ~HasFinal(c)
  <2> DEFINE k == [call[i] EXCEPT !.at = "archive", !.exact = TRUE, !.todo = pending]
  <2>1. call' = [call EXCEPT ![i] = k] /\ UNCHANGED <<cache, delivered, disturbed>>
    BY <1>3, <1>5 DEF Lookup, Content, pending
  <2>2. k.content = c /\ k.at = "archive" /\ k.page = Nobody /\ k.todo = pending
    BY <1>0 DEF Calls, IsCall
  <2>3. call'[i] = k
    BY <1>0, <2>1
  <2> HIDE DEF k
  <2>4. Follows(i)'
    BY <1>0, <1>1, <1>5, <2>2, <2>3 DEF Follows, HasFinal, Has, Filling
  <2>5. cache' \in [Clients -> Caches] /\ \A d : KnownAsFinal(d)' => KnownAsFinal(d)
    BY <1>0, <2>1, CacheStays
  <2> QED
    BY <1>0, <1>1, <1>2, <2>1, <2>2, <2>4, <2>5, AskTraced DEF Filling
<1>6. CASE Sweep(i)
  <2> DEFINE k == [call[i] EXCEPT !.at = "archive", !.todo = pending]
  <2>1. /\ call' = [call EXCEPT ![i] = k] /\ UNCHANGED <<cache, delivered>>
        /\ disturbed' = [disturbed EXCEPT ![c] = IF pending = {} THEN @ \cup {"stale"} ELSE @]
    BY <1>6 DEF Sweep, Content, pending
  <2>2. k.content = c /\ k.at = "archive" /\ k.page = Nobody /\ k.todo = pending
    BY <1>0 DEF Calls, IsCall
  <2>3. call'[i] = k
    BY <1>0, <2>1
  <2> HIDE DEF k
  <2>4. disturbed'[c] \subseteq {"withdrawn"} => Follows(i)'
    <3> SUFFICES ASSUME disturbed'[c] \subseteq {"withdrawn"} PROVE Follows(i)'
      OBVIOUS
    <3>1. pending # {} /\ disturbed[c] \subseteq {"withdrawn"}
      BY <1>0, <2>1 DEF Known
    <3>2. PICK p \in Pages : Has(p, c) /\ pages[p].label = "pending"
      BY <1>1, <1>2, <3>1
    <3>3. \A q \in Pages : Has(q, c) => q = p
      BY <1>0, <3>1, <3>2 DEF Single
    <3> QED
      BY <1>0, <1>1, <2>2, <2>3, <3>2, <3>3 DEF Follows, Has, Filling
  <2>5. cache' \in [Clients -> Caches] /\ \A d : KnownAsFinal(d)' => KnownAsFinal(d)
    BY <1>0, <2>1, CacheStays
  <2>6. disturbed' = disturbed \/ disturbed' = [disturbed EXCEPT ![c] = @ \cup {"stale"}]
    BY <1>0, <2>1 DEF Known
  <2> QED
    BY <1>0, <1>1, <1>2, <2>1, <2>2, <2>4, <2>5, <2>6, AskTraced DEF Filling
<1>7. CASE Archived(i)
  <2> DEFINE k == [call[i] EXCEPT !.at = "create"]
  <2>1. call' = [call EXCEPT ![i] = k] /\ UNCHANGED <<delivered, disturbed>>
    BY <1>7 DEF Archived, Goto
  <2>2. k.content = c /\ k.at = "create" /\ k.page = Nobody /\ k.todo = {}
    BY <1>0, <1>7 DEF Calls, IsCall, Archived
  <2>3. call'[i] = k
    BY <1>0, <2>1
  <2> HIDE DEF k
  <2>4. disturbed'[c] \subseteq {"withdrawn"} => Follows(i)'
    <3> SUFFICES ASSUME disturbed'[c] \subseteq {"withdrawn"} PROVE Follows(i)'
      OBVIOUS
    <3>1. Follows(i) /\ call[i].at = "archive" /\ call[i].todo = {}
      BY <1>0, <1>7, <2>1 DEF Single, Archived, At
    <3>2. \A p \in Pages : ~Has(p, c)
      BY <3>1 DEF Follows
    <3> QED
      BY <1>0, <2>2, <2>3, <3>2 DEF Follows, Has, Filling
  <2>5. UNCHANGED cache \/ \E gone : Remember(i, {}, gone)
    BY <1>7 DEF Archived
  <2>6. cache' \in [Clients -> Caches] /\ \A d : KnownAsFinal(d)' => KnownAsFinal(d)
    BY <1>0, <2>5, CacheStays
  <2> QED
    BY <1>0, <2>1, <2>2, <2>4, <2>6, AskTraced DEF Filling
<1> QED
  BY <1>4, <1>5, <1>6, <1>7

-----------------------------------------------------------------------------
(* A request that changes a page of the content, or creates one.           *)
Refers(p, c) == Ref(p, c) \/ \A d \in Contents : ~Ref(p, d)

Requested(i, c, p, r, k) ==
  /\ c \in Contents /\ call[i].content = c /\ p \in Pages /\ Refers(p, c)
  /\ \A q \in Pages : q # p => pages'[q] = pages[q]
  /\ pages[p].content \in {c, Nobody} /\ pages'[p].content \in {c, Nobody}
  /\ r.page = p /\ r.content = c /\ limbo' \subseteq limbo \cup {r}
  /\ call' = [call EXCEPT ![i] = k]
  /\ k.content \in {c, Nobody} /\ k.page \in {p, Nobody} /\ k.todo \subseteq call[i].todo
  /\ cache' \in [Clients -> Caches]
  /\ \A d \in Contents : KnownAsFinal(d)' => KnownAsFinal(d) \/ d = c
  /\ disturbed' = disturbed \/ disturbed' = [disturbed EXCEPT ![c] = @ \cup {"withdrawn"}]
  /\ delivered' \in {delivered, delivered \cup {c}}

(* What it must keep for its own content.                                  *)
KeepsOwn(i, c, k) ==
  /\ disturbed'[c] \subseteq {"withdrawn"} =>
       /\ \A q, s \in Pages : pages'[q].content = c /\ pages'[s].content = c => q = s
       /\ k.content = c => Follows(i)'
  /\ disturbed'[c] = {} =>
       /\ c \in delivered' \/ KnownAsFinal(c)' => \E q \in Pages : pages'[q].content = c /\ pages'[q].label = "final"
       /\ k.content = c /\ k.at \in Filling => c \notin delivered'

LEMMA RequestTraced ==
  ASSUME Traced, Orderly', NEW i \in Clients, NEW c, NEW p, NEW r, NEW k,
         Requested(i, c, p, r, k), KeepsOwn(i, c, k)
  PROVE  Traced'
<1>0. /\ Known /\ OneContent /\ Single(c) /\ Kept(c) /\ Nobody \notin Contents /\ Nobody \notin Pages
      /\ call \in [Clients -> Calls] /\ c \in Contents /\ p \in Pages /\ call[i].content = c
  BY NotionTargetAssumption DEF Traced, Orderly, Shape, Requested
<1>1. /\ call'[i] = k /\ \A j \in Clients : j # i => call'[j] = call[j]
      /\ k.content \in {c, Nobody} /\ k.page \in {p, Nobody} /\ k.todo \subseteq call[i].todo
  BY <1>0 DEF Requested
<1>2. /\ \A d \in Contents : d # c => disturbed'[d] = disturbed[d]
      /\ disturbed[c] \subseteq disturbed'[c]
      /\ disturbed' \in [Contents -> SUBSET Ills]
  BY <1>0 DEF Known, Ills, Requested
<1>3. Known'
  BY <1>0, <1>2 DEF Known, Requested
<1>4. Apart(c)
  BY <1>0, <1>1, <1>2 DEF Apart, Has, Requested
<1>5. OneContent'
  <2>1. \A q \in Pages, d \in Contents : Ref(q, d)' => Ref(q, d) \/ (q = p /\ d = c)
    <3> SUFFICES ASSUME NEW q \in Pages, NEW d \in Contents, Ref(q, d)', ~Ref(q, d), ~(q = p /\ d = c)
                 PROVE  FALSE
      OBVIOUS
    <3>1. ~Has(q, d)'
      BY <1>0 DEF Ref, Has, Requested
    <3>2. ~\E j \in Clients : call'[j].content = d /\ (call'[j].page = q \/ q \in call'[j].todo)
      BY <1>0, <1>1 DEF Ref
    <3>3. ~\E s \in limbo' : s.page = q /\ s.content = d
      BY DEF Ref, Requested
    <3> QED
      BY <3>1, <3>2, <3>3 DEF Ref
  <2>2. \A d \in Contents : Ref(p, d) => d = c
    BY <1>0 DEF Refers, OneContent, Requested
  <2> QED
    BY <1>0, <2>1, <2>2, RefsApart
<1>6. Single(c)' /\ Kept(c)'
  <2>1. disturbed'[c] \subseteq {"withdrawn"} =>
           /\ \A q, s \in Pages : Has(q, c)' /\ Has(s, c)' => q = s
           /\ call'[i].content = c => Follows(i)'
    BY <1>1 DEF KeepsOwn, Has
  <2>2. disturbed'[c] = {} =>
           /\ c \in delivered' \/ KnownAsFinal(c)' => HasFinal(c)'
           /\ call'[i].content = c /\ call'[i].at \in Filling => c \notin delivered'
    BY <1>1 DEF KeepsOwn, HasFinal, Has
  <2>3. /\ call'[i].content \in {c, Nobody} /\ \A j \in Clients : j # i => call'[j] = call[j]
        /\ Single(c) /\ Kept(c) /\ disturbed[c] \subseteq disturbed'[c]
        /\ c \in Contents /\ call[i].content = c
    BY <1>0, <1>1, <1>2
  <2> QED
    BY <2>1, <2>2, <2>3, OwnTraced, Zenon
<1>7. \A d \in Contents : Single(d)' /\ Kept(d)'
  BY <1>4, <1>6, OthersTraced DEF Traced
<1> QED
  BY <1>3, <1>5, <1>7 DEF Traced

LEMMA RefMine ==
  ASSUME Orderly, OneContent, NEW p \in Pages, NEW c \in Contents, Ref(p, c)
  PROVE  pages[p].content \in {c, Nobody} /\ (pages[p] # NoPage => Has(p, c))
<1>1. CASE pages[p] = NoPage
  BY <1>1 DEF NoPage
<1>2. CASE pages[p] # NoPage
  <2>1. pages[p].content \in Contents /\ Ref(p, pages[p].content)
    BY <1>2, RecordHas DEF Ref
  <2> QED
    BY <2>1 DEF OneContent, Has
<1> QED
  BY <1>1, <1>2

(* What a request leaves of a page of its content.                         *)
LEMMA AfterContent ==
  ASSUME Orderly, NEW r \in Requests, pages[r.page].content \in {r.content, Nobody}
  PROVE  /\ After(r).content \in {r.content, Nobody}
         /\ r.kind = "create" => After(r).content = r.content
         /\ r.kind = "archive" => After(r).content = Nobody
         /\ r.kind \in {"append", "finalize"} /\ pages[r.page] # NoPage =>
              /\ After(r).content = pages[r.page].content
              /\ r.kind = "finalize" \/ pages[r.page].label = "final" => After(r).label = "final"
<1>0. /\ pages \in [Pages -> Records] /\ r.page \in Pages
      /\ r.kind \in {"create", "append", "finalize", "archive"}
  BY DEF Orderly, Shape, Requests
<1>1. CASE r.kind = "create"
  BY <1>1 DEF After, NewPage
<1>2. CASE r.kind \in {"append", "finalize"} /\ pages[r.page] # NoPage
  <2>1. /\ r.kind = "append" => After(r) = [pages[r.page] EXCEPT !.blocks = @ + 1]
        /\ r.kind = "finalize" => After(r) = [pages[r.page] EXCEPT !.label = "final"]
    BY <1>2 DEF After
  <2>2. pages[r.page] \in [content : Contents, label : {"pending", "final"}, blocks : 0 .. Appends]
    BY <1>0, <1>2 DEF Records
  <2>3. /\ After(r).content = pages[r.page].content
        /\ r.kind = "finalize" \/ pages[r.page].label = "final" => After(r).label = "final"
    BY <1>2, <2>1, <2>2
  <2> QED
    BY <1>2, <2>3
<1>3. CASE r.kind = "archive" \/ (r.kind # "create" /\ pages[r.page] = NoPage)
  <2>1. After(r) = NoPage
    BY <1>3 DEF After
  <2> QED
    BY <1>3, <2>1 DEF NoPage
<1> QED
  BY <1>0, <1>1, <1>2, <1>3

(* A request does to its page what After says, or nothing yet.             *)
LEMMA RequestEffect ==
  ASSUME Orderly, NEW r \in Requests, pages[r.page].content \in {r.content, Nobody},
         NEW i \in Clients, Succeeds(i, r) \/ Fails(i, r)
  PROVE  /\ \A q \in Pages : q # r.page => pages'[q] = pages[q]
         /\ pages'[r.page] \in {pages[r.page], After(r)}
         /\ Succeeds(i, r) => pages'[r.page] = After(r)
         /\ pages'[r.page].content \in {r.content, Nobody}
         /\ limbo' \subseteq limbo \cup {r}
<1>0. pages \in [Pages -> Records] /\ r.page \in Pages
  BY DEF Orderly, Shape, Requests
<1>1. Effect(r) = [pages EXCEPT ![r.page] = After(r)]
  BY EffectIsAfter DEF Orderly
<1>2. After(r).content \in {r.content, Nobody}
  BY AfterContent
<1>3. pages' = pages \/ pages' = Effect(r)
  BY DEF Succeeds, Fails
<1>4. Succeeds(i, r) => pages' = Effect(r)
  BY DEF Succeeds
<1>5. limbo' \subseteq limbo \cup {r}
  BY DEF Succeeds, Fails
<1> QED
  BY <1>0, <1>1, <1>2, <1>3, <1>4, <1>5

LEMMA ArchiveTraced ==
  ASSUME Traced, Orderly', NEW i \in Clients, NEW c, call[i].content = c, Archive(i)
  PROVE  Traced'
<1>1. PICK p \in call[i].todo :
        LET r == Request(i, "archive", p) IN
        /\ At(i, "archive")
        /\ \/ /\ Succeeds(i, r)
              /\ call' = [call EXCEPT ![i].todo = @ \ {p}]
              /\ UNCHANGED delivered
           \/ /\ Fails(i, r)
              /\ IF call[i].exact THEN Returns(i, FALSE) ELSE AttemptFails(i)
  BY DEF Archive
<1> DEFINE r == Request(i, "archive", p)
<1>2. /\ Orderly /\ Known /\ OneContent /\ Single(c) /\ Kept(c) /\ IsCall(call[i]) /\ Shape
      /\ call[i].at = "archive" /\ c \in Contents /\ p \in Pages /\ call \in [Clients -> Calls]
      /\ call[i].page = Nobody /\ Nobody \notin Contents
      /\ UNCHANGED <<cache, disturbed>>
  BY <1>1, NotionTargetAssumption DEF Traced, Orderly, Shape, IsCall, Calls, Filling, At, Archive
<1>3. r \in Requests /\ r.page = p /\ r.kind = "archive" /\ r.content = c
  BY <1>2 DEF Request, Requests, Content
<1>4. Succeeds(i, r) \/ Fails(i, r)
  BY <1>1
<1> HIDE DEF r
<1>5. Ref(p, c) /\ pages[p].content \in {c, Nobody}
  <2>1. Ref(p, c)
    BY <1>2 DEF Ref
  <2> QED
    BY <1>2, <2>1, RefMine
<1>6. /\ \A q \in Pages : q # p => pages'[q] = pages[q]
      /\ pages'[p] = pages[p] \/ pages'[p].content = Nobody
      /\ Succeeds(i, r) => pages'[p].content = Nobody
      /\ pages'[p].content \in {c, Nobody} /\ limbo' \subseteq limbo \cup {r}
  BY <1>2, <1>3, <1>4, <1>5, RequestEffect, AfterContent
<1>7. cache' \in [Clients -> Caches] /\ \A d : KnownAsFinal(d)' => KnownAsFinal(d)
  BY <1>2, CacheStays
<1>8. PICK k : /\ call' = [call EXCEPT ![i] = k] /\ k.content \in {c, Nobody} /\ k.page = Nobody
               /\ k.todo \subseteq call[i].todo /\ k.at \notin Filling /\ k.at # "create"
               /\ k.at = "archive" => k.content = c /\ k.todo = call[i].todo \ {p} /\ Succeeds(i, r)
               /\ UNCHANGED delivered
  <2>1. CASE Succeeds(i, r) /\ call' = [call EXCEPT ![i].todo = @ \ {p}] /\ UNCHANGED delivered
    <3> DEFINE k == [call[i] EXCEPT !.todo = @ \ {p}]
    <3>1. call' = [call EXCEPT ![i] = k]
      BY <2>1
    <3>2. k.content = c /\ k.page = Nobody /\ k.todo = call[i].todo \ {p} /\ k.at = "archive"
      BY <1>2 DEF Calls
    <3> HIDE DEF k
    <3> QED
      BY <2>1, <3>1, <3>2 DEF Filling
  <2>2. CASE Returns(i, FALSE) \/ AttemptFails(i)
    <3>1. UNCHANGED delivered /\ \E k : Quits(i, k)
      BY <1>2, <2>2, FailsQuits DEF Returns
    <3> QED
      BY <3>1 DEF Quits, Filling
  <2> QED
    BY <1>1, <2>1, <2>2 DEF r
<1>9. disturbed'[c] \subseteq {"withdrawn"} =>
        /\ \A q, s \in Pages : Has(q, c)' /\ Has(s, c)' => q = s
        /\ k.content = c => Follows(i)'
  <2> SUFFICES ASSUME disturbed[c] \subseteq {"withdrawn"}
               PROVE  /\ \A q, s \in Pages : Has(q, c)' /\ Has(s, c)' => q = s
                      /\ k.content = c => Follows(i)'
    BY <1>2
  <2>1. \A q \in Pages : Has(q, c)' => Has(q, c) /\ pages'[q] = pages[q]
    BY <1>2, <1>6 DEF Has
  <2>2. /\ \A q, s \in Pages : Has(q, c) /\ Has(s, c) => q = s
        /\ \A q \in Pages : Has(q, c) => q \in call[i].todo /\ pages[q].label = "pending"
    BY <1>2 DEF Single, Follows
  <2>3. call'[i] = k
    BY <1>2, <1>8
  <2>4. k.at = "archive" => ~Has(p, c)'
    BY <1>2, <1>6, <1>8 DEF Has
  <2>5. k.content = c => Follows(i)'
    <3>1. ASSUME k.at = "archive", NEW q \in Pages, Has(q, c)'
          PROVE  q \in k.todo /\ pages'[q].label = "pending"
      BY <1>8, <2>1, <2>2, <2>4, <3>1
    <3> QED
      BY <1>8, <2>3, <3>1 DEF Follows, Has
  <2> QED
    BY <2>1, <2>2, <2>5
<1>10. disturbed'[c] = {} =>
         /\ c \in delivered' \/ KnownAsFinal(c)' => HasFinal(c)'
         /\ k.content = c /\ k.at \in Filling => c \notin delivered'
  <2>1. disturbed[c] = {} => ~HasFinal(c)
    BY <1>2 DEF Single, Follows, HasFinal
  <2> QED
    BY <1>2, <1>7, <1>8, <2>1 DEF Kept
<1>11. Refers(p, c)
  BY <1>5 DEF Refers
<1>12. k.page \in {p, Nobody}
  BY <1>8
<1>13. Requested(i, c, p, r, k)
  BY <1>2, <1>3, <1>5, <1>6, <1>7, <1>8, <1>11, <1>12 DEF Requested
<1>14. KeepsOwn(i, c, k)
  BY <1>9, <1>10 DEF KeepsOwn, HasFinal, Has
<1> QED
  BY <1>13, <1>14, RequestTraced

LEMMA CreateTraced ==
  ASSUME Traced, Orderly', NEW i \in Clients, NEW c, call[i].content = c, Create(i)
  PROVE  Traced'
<1>1. PICK p \in Pages \ (Existing \cup InUse) :
        LET r == Request(i, "create", p) IN
        /\ At(i, "create")
        /\ \/ /\ Succeeds(i, r)
              /\ call' = [call EXCEPT ![i].at = Filled(0), ![i].page = p]
              /\ UNCHANGED delivered
           \/ Fails(i, r) /\ AttemptFails(i)
  BY DEF Create
<1> DEFINE r == Request(i, "create", p)
<1>2. /\ Orderly /\ Known /\ OneContent /\ Single(c) /\ Kept(c) /\ IsCall(call[i]) /\ Shape
      /\ call[i].at = "create" /\ c \in Contents /\ call \in [Clients -> Calls]
      /\ Nobody \notin Contents /\ UNCHANGED <<cache, disturbed>>
  BY <1>1, NotionTargetAssumption DEF Traced, Orderly, Shape, IsCall, Calls, At, Create
<1>3. r \in Requests /\ r.page = p /\ r.kind = "create" /\ r.content = c
  BY <1>2 DEF Request, Requests, Content
<1>4. Succeeds(i, r) \/ Fails(i, r)
  BY <1>1
<1> HIDE DEF r
<1>5. Refers(p, c) /\ pages[p].content = Nobody
  <2>1. pages[p] = NoPage
    BY DEF Existing
  <2>2. pages[p].content = Nobody
    BY <2>1 DEF NoPage
  <2>3. /\ \A j \in Clients : call[j].page # p /\ p \notin call[j].todo
        /\ \A q \in limbo : q.page # p
    BY DEF InUse
  <2> QED
    BY <1>2, <2>2, <2>3 DEF Refers, Ref, Has
<1>6. /\ \A q \in Pages : q # p => pages'[q] = pages[q]
      /\ pages'[p].content \in {c, Nobody} /\ limbo' \subseteq limbo \cup {r}
  BY <1>2, <1>3, <1>4, <1>5, RequestEffect
<1>7. cache' \in [Clients -> Caches] /\ \A d : KnownAsFinal(d)' => KnownAsFinal(d)
  BY <1>2, CacheStays
<1>8. PICK k : /\ call' = [call EXCEPT ![i] = k] /\ k.content \in {c, Nobody} /\ k.page \in {p, Nobody}
               /\ k.todo \subseteq call[i].todo /\ k.at \notin {"create", "archive"}
               /\ k.at \in Filling => k.page = p
               /\ UNCHANGED delivered
  <2>1. CASE Succeeds(i, r) /\ call' = [call EXCEPT ![i].at = Filled(0), ![i].page = p] /\ UNCHANGED delivered
    <3> DEFINE k == [call[i] EXCEPT !.at = Filled(0), !.page = p]
    <3>1. call' = [call EXCEPT ![i] = k]
      BY <2>1
    <3>2. k.content = c /\ k.page = p /\ k.todo = call[i].todo /\ k.at \in {"append", "finalize"}
      BY <1>2 DEF Calls, Filled
    <3> HIDE DEF k
    <3> QED
      BY <2>1, <3>1, <3>2
  <2>2. CASE AttemptFails(i)
    <3>1. UNCHANGED delivered /\ \E k : Quits(i, k)
      BY <1>2, <2>2, FailsQuits
    <3> QED
      BY <1>2, <3>1 DEF Quits, Filling
  <2> QED
    BY <1>1, <2>1, <2>2 DEF r
<1>9. disturbed[c] \subseteq {"withdrawn"} => \A q \in Pages : ~Has(q, c)
  BY <1>2 DEF Single, Follows
<1>10. disturbed'[c] \subseteq {"withdrawn"} =>
         /\ \A q, s \in Pages : Has(q, c)' /\ Has(s, c)' => q = s
         /\ k.content = c => Follows(i)'
  <2>1. call'[i] = k
    BY <1>2, <1>8
  <2>2. disturbed[c] \subseteq {"withdrawn"} => \A q \in Pages : Has(q, c)' => q = p
    BY <1>6, <1>9 DEF Has
  <2> QED
    BY <1>2, <1>8, <2>1, <2>2 DEF Follows, Has
<1>11. disturbed'[c] = {} =>
         /\ c \in delivered' \/ KnownAsFinal(c)' => HasFinal(c)'
         /\ k.content = c /\ k.at \in Filling => c \notin delivered'
  <2>1. disturbed[c] = {} => c \notin delivered /\ ~KnownAsFinal(c)
    BY <1>2, <1>9 DEF Kept, HasFinal
  <2> QED
    BY <1>2, <1>7, <1>8, <2>1
<1>12. Requested(i, c, p, r, k)
  BY <1>2, <1>3, <1>5, <1>6, <1>7, <1>8 DEF Requested
<1>13. KeepsOwn(i, c, k)
  BY <1>10, <1>11 DEF KeepsOwn, HasFinal, Has
<1> QED
  BY <1>12, <1>13, RequestTraced

(* What an instance takes from the reply.                                  *)
Learns(i, c, kind, r, k) ==
  /\ \/ UNCHANGED <<cache, delivered>>
     \/ /\ kind = "finalize" /\ Succeeds(i, r) /\ CacheFinal(i) /\ k.at \notin Filling
        /\ delivered' = delivered \cup {c}
  /\ kind = "archive" /\ pages' # pages /\ KnownAsFinal(c) => disturbed'[c] # {}

(* The call that fills a page: the page is all its content has.            *)
LEMMA FillTraced ==
  ASSUME Traced, Orderly', NEW i \in Clients, NEW c, call[i].content = c,
         NEW p, call[i].page = p, call[i].at \in Filling,
         NEW kind \in {"append", "finalize", "archive"}, NEW r, r = Request(i, kind, p),
         Succeeds(i, r) \/ Fails(i, r),
         NEW k, call' = [call EXCEPT ![i] = k], k.content \in {c, Nobody},
         k.page \in {p, Nobody}, k.todo \subseteq call[i].todo,
         k.at \in Filling => k.page = p, k.at \notin {"create", "archive"},
         disturbed' = disturbed \/ disturbed' = [disturbed EXCEPT ![c] = @ \cup {"withdrawn"}],
         Learns(i, c, kind, r, k)
  PROVE  Traced'
<1>1. /\ Orderly /\ Known /\ OneContent /\ Single(c) /\ Kept(c) /\ IsCall(call[i]) /\ Shape
      /\ c \in Contents /\ p \in Pages /\ call \in [Clients -> Calls] /\ Nobody \notin Contents
      /\ pages \in [Pages -> Records] /\ pages' \in [Pages -> Records]
  BY NotionTargetAssumption DEF Traced, Orderly, Shape, IsCall, Calls, Filling
<1>2. r \in Requests /\ r.page = p /\ r.kind = kind /\ r.content = c
  BY <1>1 DEF Request, Requests, Content
<1>3. Ref(p, c) /\ pages[p].content \in {c, Nobody}
  <2>1. Ref(p, c)
    BY <1>1 DEF Ref
  <2> QED
    BY <1>1, <2>1, RefMine
<1>4. /\ \A q \in Pages : q # p => pages'[q] = pages[q]
      /\ pages'[p] \in {pages[p], After(r)} /\ (Succeeds(i, r) => pages'[p] = After(r))
      /\ pages'[p].content \in {c, Nobody} /\ limbo' \subseteq limbo \cup {r}
  BY <1>1, <1>2, <1>3, RequestEffect
<1>5. kind # "archive" /\ pages[p] # NoPage =>
        /\ After(r).content = pages[p].content
        /\ kind = "finalize" \/ pages[p].label = "final" => After(r).label = "final"
  BY <1>1, <1>2, <1>3, AfterContent
<1>6. /\ cache' \in [Clients -> Caches]
      /\ \A d : KnownAsFinal(d)' => KnownAsFinal(d) \/ d = c
      /\ UNCHANGED cache => \A d : KnownAsFinal(d)' => KnownAsFinal(d)
  BY <1>1, CacheStays, CacheGains DEF Learns
<1>7. disturbed[c] \subseteq disturbed'[c] /\ call'[i] = k
  BY <1>1 DEF Known
<1>8. disturbed[c] \subseteq {"withdrawn"} => \A q \in Pages : Has(q, c) => q = p
  BY <1>1 DEF Single, Follows
<1>9. disturbed'[c] \subseteq {"withdrawn"} =>
        /\ \A q, s \in Pages : Has(q, c)' /\ Has(s, c)' => q = s
        /\ k.content = c => Follows(i)'
  <2>1. disturbed[c] \subseteq {"withdrawn"} => \A q \in Pages : Has(q, c)' => q = p
    BY <1>4, <1>8 DEF Has
  <2> QED
    BY <1>7, <2>1 DEF Follows, Has
<1>10. disturbed'[c] = {} =>
         /\ c \in delivered' \/ KnownAsFinal(c)' => HasFinal(c)'
         /\ k.content = c /\ k.at \in Filling => c \notin delivered'
  <2> SUFFICES ASSUME disturbed'[c] = {}
               PROVE  /\ c \in delivered' \/ KnownAsFinal(c)' => HasFinal(c)'
                      /\ k.content = c /\ k.at \in Filling => c \notin delivered'
    OBVIOUS
  <2>1. disturbed[c] = {} /\ c \notin delivered /\ (KnownAsFinal(c) => HasFinal(c))
    BY <1>1, <1>7 DEF Kept
  <2>2. CASE UNCHANGED <<cache, delivered>>
    <3>1. c \notin delivered' /\ (KnownAsFinal(c)' => KnownAsFinal(c))
      BY <1>6, <2>1, <2>2
    <3>2. ASSUME KnownAsFinal(c) PROVE HasFinal(c)'
      <4>1. Has(p, c) /\ pages[p].label = "final" /\ pages[p] # NoPage
        BY <1>1, <1>8, <2>1, <3>2, RecordHas DEF HasFinal
      <4>2. CASE kind = "archive"
        BY <1>1, <3>2, <4>1, <4>2 DEF HasFinal, Has, Learns
      <4>3. CASE kind # "archive"
        BY <1>1, <1>4, <1>5, <4>1, <4>3 DEF HasFinal, Has
      <4> QED
        BY <4>2, <4>3
    <3> QED
      BY <3>1, <3>2
  <2>3. CASE kind = "finalize" /\ Succeeds(i, r) /\ k.at \notin Filling
    <3>1. p \in Existing
      BY <1>2, <2>3 DEF Succeeds
    <3>2. pages[p] # NoPage /\ Has(p, c)
      BY <1>1, <1>3, <3>1, RefMine DEF Existing
    <3>3. pages'[p].content = c /\ pages'[p].label = "final"
      BY <1>4, <1>5, <2>3, <3>2 DEF Has
    <3> QED
      BY <1>1, <2>3, <3>3 DEF HasFinal, Has
  <2> QED
    BY <2>2, <2>3 DEF Learns
<1>11. Refers(p, c) /\ delivered' \in {delivered, delivered \cup {c}}
  BY <1>3 DEF Refers, Learns
<1>12. /\ c \in Contents /\ p \in Pages /\ r.page = p /\ r.content = c
       /\ cache' \in [Clients -> Caches]
       /\ \A d \in Contents : KnownAsFinal(d)' => KnownAsFinal(d) \/ d = c
  BY <1>1, <1>2, <1>6
<1>13. Requested(i, c, p, r, k)
  BY <1>3, <1>4, <1>11, <1>12 DEF Requested
<1>14. KeepsOwn(i, c, k)
  BY <1>9, <1>10 DEF KeepsOwn, HasFinal, Has
<1> QED
  BY <1>13, <1>14, RequestTraced

LEMMA WriteTraced ==
  ASSUME Traced, Orderly', NEW i \in Clients, NEW c, call[i].content = c,
         Append(i) \/ Finalize(i) \/ Discard(i)
  PROVE  Traced'
<1> DEFINE p == call[i].page
<1>0. /\ call[i].at \in Filling /\ IsCall(call[i]) /\ Shape /\ Orderly /\ Known
      /\ c \in Contents /\ p \in Pages /\ call \in [Clients -> Calls]
  BY NotionTargetAssumption
     DEF Append, Finalize, Discard, At, Filling, Traced, Orderly, Shape, IsCall, Calls
<1>1. ASSUME NEW where \in Filling, Goto(i, where)
      PROVE  \E k : /\ call' = [call EXCEPT ![i] = k] /\ k.content = c /\ k.page = p
                    /\ k.todo = call[i].todo /\ k.at = where
  <2> DEFINE k == [call[i] EXCEPT !.at = where]
  <2>1. call' = [call EXCEPT ![i] = k]
    BY <1>1 DEF Goto
  <2>2. k.content = c /\ k.page = p /\ k.todo = call[i].todo /\ k.at = where
    BY <1>0 DEF Calls
  <2> HIDE DEF k
  <2> QED
    BY <2>1, <2>2
<1>2. CASE Append(i)
  <2> DEFINE r == Request(i, "append", p)
  <2>1. /\ Succeeds(i, r) \/ Fails(i, r)
        /\ UNCHANGED <<cache, delivered, disturbed>>
        /\ \E where \in Filling : Goto(i, where)
    BY <1>2 DEF Append, Filled, Filling
  <2>2. PICK k : /\ call' = [call EXCEPT ![i] = k] /\ k.content = c /\ k.page = p
                 /\ k.todo = call[i].todo /\ k.at \in Filling
    BY <1>1, <2>1
  <2> HIDE DEF r
  <2>3. \E s : s = Request(i, "append", p) /\ (Succeeds(i, s) \/ Fails(i, s))
    BY <2>1 DEF r
  <2> QED
    BY <1>0, <2>1, <2>2, <2>3, FillTraced DEF Filling, Learns
<1>3. CASE Finalize(i)
  <2> DEFINE r == Request(i, "finalize", p)
  <2>1. /\ \/ Succeeds(i, r) /\ CacheFinal(i) /\ Returns(i, TRUE)
           \/ Fails(i, r) /\ Goto(i, "discard") /\ UNCHANGED <<cache, delivered>>
        /\ UNCHANGED disturbed
    BY <1>3 DEF Finalize
  <2>2. r = Request(i, "finalize", p)
    OBVIOUS
  <2> HIDE DEF r
  <2>3. CASE Succeeds(i, r) /\ CacheFinal(i) /\ Returns(i, TRUE)
    <3>1. Quits(i, Idle) /\ delivered' = delivered \cup {c} /\ Idle.at \notin Filling
      BY <1>0, <2>3, FailsQuits DEF Returns, Content, Idle, Filling
    <3> QED
      BY <1>0, <2>1, <2>2, <2>3, <3>1, FillTraced DEF Quits, Filling, Learns
  <2>4. CASE Fails(i, r) /\ Goto(i, "discard") /\ UNCHANGED <<cache, delivered>>
    <3>1. PICK k : /\ call' = [call EXCEPT ![i] = k] /\ k.content = c /\ k.page = p
                   /\ k.todo = call[i].todo /\ k.at = "discard"
      BY <1>1, <2>4 DEF Filling
    <3> QED
      BY <1>0, <2>1, <2>2, <2>4, <3>1, FillTraced DEF Learns
  <2> QED
    BY <2>1, <2>3, <2>4
<1>4. CASE Discard(i)
  <2> DEFINE r == Request(i, "archive", p)
  <2>1. /\ Succeeds(i, r) \/ Fails(i, r)
        /\ AttemptFails(i) /\ UNCHANGED cache
        /\ disturbed' = [disturbed EXCEPT ![c] =
                           IF pages' # pages /\ KnownAsFinal(c) THEN @ \cup {"withdrawn"} ELSE @]
    BY <1>4 DEF Discard, Content
  <2>2. r = Request(i, "archive", p)
    OBVIOUS
  <2> HIDE DEF r
  <2>3. UNCHANGED delivered /\ \E k : Quits(i, k)
    BY <1>0, <2>1, FailsQuits DEF Filling
  <2>4. PICK k : Quits(i, k)
    BY <2>3
  <2>5. /\ disturbed' = disturbed \/ disturbed' = [disturbed EXCEPT ![c] = @ \cup {"withdrawn"}]
        /\ pages' # pages /\ KnownAsFinal(c) => disturbed'[c] # {}
    BY <1>0, <2>1 DEF Known
  <2> QED
    BY <1>0, <2>1, <2>2, <2>3, <2>4, <2>5, FillTraced DEF Quits, Filling, Learns
<1> QED
  BY <1>2, <1>3, <1>4

(* Whatever comes late has disturbed its content.                          *)
LEMMA LateTraced ==
  ASSUME Traced, Orderly', NEW r \in limbo, LateRequest(r)
  PROVE  Traced'
<1> DEFINE p == r.page
           c == r.content
<1>1. /\ Orderly /\ Known /\ OneContent /\ Shape /\ r \in Requests /\ p \in Pages /\ c \in Contents
      /\ Nobody \notin Contents /\ pages \in [Pages -> Records]
      /\ UNCHANGED <<cache, call, delivered>> /\ limbo' \subseteq limbo
  BY NotionTargetAssumption DEF Traced, Orderly, Shape, Requests, LateRequest
<1>2. Ref(p, c) /\ pages[p].content \in {c, Nobody}
  <2>1. Ref(p, c)
    BY DEF Ref
  <2> QED
    BY <1>1, <2>1, RefMine
<1>3. /\ \A q \in Pages : q # p => pages'[q] = pages[q]
      /\ pages'[p].content \in {c, Nobody}
  <2>1. pages' = [pages EXCEPT ![p] = After(r)]
    BY <1>1, EffectIsAfter DEF LateRequest
  <2>2. After(r).content \in {c, Nobody}
    BY <1>1, <1>2, AfterContent
  <2> QED
    BY <1>1, <2>1, <2>2
<1>4. /\ \A d \in Contents : d # c => disturbed'[d] = disturbed[d]
      /\ "overlap" \in disturbed'[c] /\ disturbed' \in [Contents -> SUBSET Ills]
  BY <1>1 DEF Known, Ills, LateRequest
<1>5. Apart(c)
  BY <1>1, <1>2, <1>3, <1>4 DEF Apart, KnownAsFinal, Has
<1>6. OneContent'
  <2>1. \A q \in Pages, d \in Contents : Ref(q, d)' => Ref(q, d) \/ (q = p /\ d = c)
    BY <1>1, <1>3 DEF Ref, Has
  <2>2. \A d \in Contents : Ref(p, d) => d = c
    BY <1>1, <1>2 DEF OneContent
  <2> QED
    BY <1>1, <2>1, <2>2, RefsApart
<1>7. Single(c)' /\ Kept(c)'
  BY <1>4 DEF Single, Kept
<1>8. \A d \in Contents : Single(d)' /\ Kept(d)'
  BY <1>5, <1>7, OthersTraced DEF Traced
<1> QED
  BY <1>1, <1>4, <1>6, <1>8 DEF Traced, Known

LEMMA NextTraced == Traced /\ [Next]_vars => Traced'
<1> SUFFICES ASSUME Traced, [Next]_vars PROVE Traced'
  OBVIOUS
<1>1. Orderly'
  BY NextOrderly DEF Traced
<1>2. CASE UNCHANGED vars
  BY <1>1, <1>2 DEF vars, Traced, Known, OneContent, Ref, Has, Single, Kept, Follows, HasFinal, KnownAsFinal
<1>3. ASSUME NEW i \in Clients, NEW c \in Contents, Deliver(i, c) PROVE Traced'
  BY <1>1, <1>3, DeliverTraced
<1>4. ASSUME NEW i \in Clients, Steps(i) \/ End(i) \/ CacheExpires(i) PROVE Traced'
  BY <1>1, <1>4, ListTraced, QueryTraced, EndTraced, ExpireTraced, ArchiveTraced, CreateTraced, WriteTraced
     DEF Steps
<1>5. ASSUME NEW r \in limbo, LateRequest(r) PROVE Traced'
  BY <1>1, <1>5, LateTraced
<1> QED
  BY <1>2, <1>3, <1>4, <1>5 DEF Next

(* NotionTarget keeps track of every page: the invariant of what follows.  *)
THEOREM NotionInvariant == Spec => []Traced
BY InitTraced, NextTraced, PTL DEF Spec

(* The state of the target and of its calls has its shape (TypeOK).        *)
THEOREM NotionTypeCorrect == Spec => []TypeOK
<1>1. Traced => TypeOK
  <2> SUFFICES ASSUME Traced PROVE TypeOK
    OBVIOUS
  <2>1. Shape /\ Known
    BY DEF Traced, Orderly
  <2>2. ASSUME NEW i \in Clients
        PROVE  /\ cache[i].fresh \in BOOLEAN /\ cache[i].full \in BOOLEAN
               /\ cache[i].ids \subseteq Contents \X {"pending", "final"}
    <3>1. cache[i] \in Caches
      BY <2>1 DEF Known
    <3> QED
      BY <3>1 DEF Caches
  <2>3. ASSUME NEW i \in Clients
        PROVE  /\ call[i].content \in Contents \cup {Nobody}
               /\ call[i].page \in Pages \cup {Nobody}
               /\ call[i].todo \subseteq Pages
    BY <2>1 DEF Shape, Calls
  <2>4. /\ pages \in [Pages -> Records] /\ limbo \subseteq Requests /\ delivered \subseteq Contents
        /\ disturbed \in [Contents -> SUBSET Ills]
    BY <2>1 DEF Shape, Known
  <2> QED
    BY <2>2, <2>3, <2>4 DEF TypeOK, Records, Ills
<1> QED
  BY <1>1, NotionInvariant, PTL

(* A content that suffered no overlap and no stale list has one page at    *)
(* most: whatever replies are lost and whatever scans are capped, each     *)
(* attempt has all that the earlier ones have left in view before it       *)
(* creates a page (existingContentIDs, reconcileExactContentPages,         *)
(* archivePendingPages, storeOne).                                         *)
THEOREM OnePageHolds == Spec => []OnePage
<1>1. Traced => OnePage
  <2> SUFFICES ASSUME Traced, NEW c \in Contents, disturbed[c] \subseteq {"withdrawn"}
               PROVE  Cardinality(PagesOf(c)) <= 1
    BY DEF OnePage
  <2>1. \A p, q \in PagesOf(c) : p = q
    <3>1. \A p \in PagesOf(c) : p \in Pages /\ Has(p, c)
      BY DEF PagesOf, Existing, Has
    <3> QED
      BY <3>1 DEF Traced, Single
  <2>2. CASE PagesOf(c) = {}
    BY <2>2, FS_EmptySet
  <2>3. CASE PagesOf(c) # {}
    <3>1. PICK p : PagesOf(c) = {p}
      BY <2>1, <2>3
    <3>2. Cardinality({p}) = 1
      BY FS_Singleton
    <3> QED
      BY <3>1, <3>2
  <2> QED
    BY <2>2, <2>3
<1> QED
  BY <1>1, NotionInvariant, PTL

(* What an undisturbed delivery has reported is in Notion with its final   *)
(* ID, whatever the instances believe about it (cacheFinalContentID,       *)
(* StoreContents).                                                         *)
THEOREM DeliveredIsThereHolds == Spec => []DeliveredIsThere
<1>1. Traced => DeliveredIsThere
  <2> SUFFICES ASSUME Traced, NEW c \in delivered, disturbed[c] = {}
               PROVE  Labelled(c, "final") # {}
    BY DEF DeliveredIsThere
  <2>1. c \in Contents /\ Kept(c) /\ Orderly
    BY DEF Traced, Known
  <2>2. PICK p \in Pages : Has(p, c) /\ pages[p].label = "final"
    BY <2>1 DEF Kept, HasFinal
  <2> QED
    BY <2>1, <2>2, RecordHas
<1> QED
  BY <1>1, NotionInvariant, PTL
=============================================================================
