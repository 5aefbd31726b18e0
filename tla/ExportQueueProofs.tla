------------------------- MODULE ExportQueueProofs --------------------------
(***************************************************************************)
(* Proofs about ExportQueue, for every number of contents, instances,      *)
(* tokens, attempts and faults and every lease duration.                   *)
(***************************************************************************)
EXTENDS ExportQueue, TLAPS

-----------------------------------------------------------------------------
(* The states of a row the statements lead to: a row has given up exactly  *)
(* if its attempts are used up.                                            *)
Sound(r) == r \in Row0 /\ (r.status = "failed" <=> r.attempts = MaxAttempts)
Final(r) == r.status \in {"synced", "failed"}

(* The statement that makes q of r is one the queue may execute: r is      *)
(* replaced by a sound row, and a settled one keeps its status.            *)
Leads(r, q) == Sound(q) /\ (Final(r) => q.status = r.status)

(* An instance that is past its claim has one.                             *)
HasClaim(i) == claim[i] \in [content : Contents, token : Tokens]
ClaimIsHeld ==
  \A i \in Instances : pc[i] \notin {"idle", "halted", "down"} => HasClaim(i)

Shape == TypeOK /\ FailedIffExhausted /\ ClaimIsHeld

(* Updates of a record, stated apart from what the fields of a row are.    *)
LEMMA RecordUpdates ==
  ASSUME NEW S, NEW A, NEW O, NEW T, NEW B,
         NEW r \in [status : S, attempts : A, owner : O, ttl : T, due : B],
         NEW s \in S, NEW a \in A, NEW o \in O, NEW t \in T, NEW b \in B
  PROVE  /\ [r EXCEPT !.attempts = a, !.status = s, !.due = b, !.owner = o, !.ttl = t]
              \in [status : S, attempts : A, owner : O, ttl : T, due : B]
         /\ [r EXCEPT !.status = s, !.owner = o, !.ttl = t]
              \in [status : S, attempts : A, owner : O, ttl : T, due : B]
OBVIOUS

Statuses == {"none", "pending", "processing", "retry", "synced", "failed"}

(* An update of a row within its types is a row.                           *)
LEMMA RowUpdates ==
  ASSUME NEW r \in Row0, NEW s \in Statuses, NEW a \in 0 .. MaxAttempts,
         NEW o \in Tokens \cup {Nobody}, NEW t \in 0 .. Lease, NEW b \in BOOLEAN
  PROVE  /\ [r EXCEPT !.attempts = a, !.status = s, !.due = b, !.owner = o, !.ttl = t] \in Row0
         /\ [r EXCEPT !.status = s, !.owner = o, !.ttl = t] \in Row0
<1>1. Row0 = [status : Statuses, attempts : 0 .. MaxAttempts, owner : Tokens \cup {Nobody},
              ttl : 0 .. Lease, due : BOOLEAN]
  BY DEF Row0, Statuses
<1> DEFINE A == 0 .. MaxAttempts
           O == Tokens \cup {Nobody}
           T == 0 .. Lease
<1>2. /\ Row0 = [status : Statuses, attempts : A, owner : O, ttl : T, due : BOOLEAN]
      /\ a \in A /\ o \in O /\ t \in T
  BY <1>1
<1> HIDE DEF A, O, T
<1> QED
  BY ONLY <1>2, RecordUpdates, r \in Row0, s \in Statuses, b \in BOOLEAN

(* Every statement of a claim leads a sound row to a sound one.            *)
LEMMA StatementsLead ==
  ASSUME NEW r, Sound(r), NEW token \in Tokens, NEW attempts \in 0 .. MaxAttempts
  PROVE  /\ Leads(r, RenewBy(r, token))
         /\ Leads(r, CompleteBy(r, token))
         /\ Leads(r, FailBy(r, token, attempts))
<1> USE ExportQueueAssumption DEF Sound, Row0, Final, Leads, Owned
<1>1. Leads(r, RenewBy(r, token))
  BY DEF RenewBy
<1>2. Leads(r, CompleteBy(r, token))
  <2>1. CASE ~Owned(r, token)
    BY <2>1 DEF CompleteBy
  <2>2. CASE r.owner = token /\ r.status = "processing"
    <3> DEFINE q == [r EXCEPT !.status = "synced", !.owner = Nobody, !.ttl = 0]
    <3>1. CompleteBy(r, token) = q
      BY <2>2 DEF CompleteBy
    <3>2. q.status = "synced" /\ q.attempts = r.attempts
      OBVIOUS
    <3>3. q \in Row0
      <4>1. r \in Row0 /\ "synced" \in Statuses /\ Nobody \in Tokens \cup {Nobody}
              /\ 0 \in 0 .. Lease
        BY DEF Statuses
      <4> QED
        BY ONLY <4>1, RowUpdates, r.attempts \in 0 .. MaxAttempts, r.due \in BOOLEAN
    <3> HIDE DEF q
    <3> QED
      BY <2>2, <3>1, <3>2, <3>3
  <2> QED
    BY <2>1, <2>2
<1>3. Leads(r, FailBy(r, token, attempts))
  <2>1. CASE ~(Owned(r, token) /\ r.attempts = attempts)
    BY <2>1 DEF FailBy
  <2>2. CASE Owned(r, token) /\ r.attempts = attempts
    <3> DEFINE st == IF Exhausted(attempts + 1) THEN "failed" ELSE "retry"
               q == [r EXCEPT !.attempts = attempts + 1, !.status = st,
                              !.due = FALSE, !.owner = Nobody, !.ttl = 0]
    <3>1. FailBy(r, token, attempts) = q
      BY <2>2 DEF FailBy
    <3>2. attempts + 1 \in 0 .. MaxAttempts
      BY <2>2
    <3>3. q.status = st /\ q.attempts = attempts + 1
      OBVIOUS
    <3>4. st = "failed" <=> attempts + 1 = MaxAttempts
      BY <3>2 DEF Exhausted
    <3>5. q \in Row0
      <4>1. /\ r \in Row0 /\ st \in Statuses /\ Nobody \in Tokens \cup {Nobody}
            /\ 0 \in 0 .. Lease /\ FALSE \in BOOLEAN
        BY DEF Statuses
      <4> HIDE DEF st
      <4> QED
        BY ONLY <4>1, <3>2, RowUpdates
    <3> HIDE DEF q, st
    <3> QED
      BY <2>2, <3>1, <3>3, <3>4, <3>5
  <2> QED
    BY <2>1, <2>2
<1> QED
  BY <1>1, <1>2, <1>3

(* So does the claim of a row that is claimable.                           *)
LEMMA ClaimLeads ==
  ASSUME NEW r, Sound(r), NEW token \in Tokens, Claimable(r)
  PROVE  Leads(r, ClaimBy(r, token))
<1> USE ExportQueueAssumption DEF Sound, Row0, Final, Leads, Claimable, ClaimBy
<1> DEFINE q == [r EXCEPT !.status = "processing", !.owner = token, !.ttl = Lease]
<1>1. q.status = "processing" /\ q.attempts = r.attempts
  OBVIOUS
<1>2. q \in Row0
  <2>1. /\ r \in Row0 /\ "processing" \in Statuses /\ token \in Tokens \cup {Nobody}
        /\ Lease \in 0 .. Lease /\ r.attempts \in 0 .. MaxAttempts /\ r.due \in BOOLEAN
    BY DEF Statuses
  <2> QED
    BY ONLY <2>1, RowUpdates
<1>3. ~Final(r) /\ r.attempts # MaxAttempts
  OBVIOUS
<1>4. ClaimBy(r, token) = q
  OBVIOUS
<1> HIDE DEF q
<1> QED
  BY <1>1, <1>2, <1>3, <1>4 DEF Sound, Leads, Final

RowsLead == \A c \in Contents : Leads(rows[c], rows'[c])
RowsHaveShape == rows' \in [Contents -> Row0]

(* Sound rows are all the two invariants say of rows.                      *)
LEMMA SoundRows ==
  /\ Shape => \A c \in Contents : Sound(rows[c])
  /\ RowsLead => FailedIffExhausted'
BY DEF Shape, TypeOK, FailedIffExhausted, Sound, RowsLead, Leads

(* Executing a statement, in time or late.                                 *)
LEMMA ExecuteLeads ==
  ASSUME Shape, NEW s \in Statement, Execute(s)
  PROVE  RowsLead /\ RowsHaveShape
<1>1. /\ s.content \in Contents /\ s.token \in Tokens /\ s.attempts \in 0 .. MaxAttempts
      /\ s.kind \in {"renew", "complete", "fail"}
  BY DEF Statement
<1>2. \A c \in Contents : Sound(rows[c])
  BY SoundRows
<1>3. \A c \in Contents :
        rows'[c] = IF c = s.content THEN Effect(s, rows[c]) ELSE rows[c]
  BY DEF Execute, Shape, TypeOK
<1>4. DOMAIN rows' = Contents /\ rows' = [c \in DOMAIN rows' |-> rows'[c]]
  BY DEF Execute, Shape, TypeOK
<1>5. \A c \in Contents : Leads(rows[c], rows[c])
  BY <1>2 DEF Leads
<1>6. RowsLead
  <2> SUFFICES ASSUME NEW c \in Contents PROVE Leads(rows[c], rows'[c])
    BY DEF RowsLead
  <2>1. CASE c # s.content
    BY <2>1, <1>3, <1>5
  <2>2. CASE c = s.content
    <3>1. /\ Leads(rows[c], RenewBy(rows[c], s.token))
          /\ Leads(rows[c], CompleteBy(rows[c], s.token))
          /\ Leads(rows[c], FailBy(rows[c], s.token, s.attempts))
      BY <1>1, <1>2, StatementsLead
    <3> QED
      BY <2>2, <3>1, <1>1, <1>3 DEF Effect
  <2> QED
    BY <2>1, <2>2
<1>7. \A c \in Contents : rows'[c] \in Row0
  BY <1>6 DEF RowsLead, Leads, Sound
<1> QED
  BY <1>4, <1>6, <1>7 DEF RowsHaveShape

(* What i sends for its claim is a statement.                              *)
LEMMA SentIsStatement ==
  ASSUME Shape, NEW i \in Instances, NEW kind \in {"renew", "complete", "fail"}, HasClaim(i)
  PROVE  Sent(i, kind) \in Statement
BY DEF Shape, TypeOK, HasClaim, Sent, Statement

-----------------------------------------------------------------------------
(* What a step does to the rows, and what it leaves of the shape.          *)
Advances == RowsLead /\ TypeOK' /\ ClaimIsHeld'

LEMMA RowsStay ==
  ASSUME Shape, UNCHANGED rows
  PROVE  RowsLead /\ RowsHaveShape
<1>1. \A c \in Contents : Leads(rows[c], rows[c])
  BY SoundRows DEF Leads
<1> QED
  BY <1>1 DEF RowsLead, RowsHaveShape, Shape, TypeOK

(* The queue begins in that shape.                                         *)
LEMMA InitShape == Init => Shape
<1> SUFFICES ASSUME Init PROVE Shape
  OBVIOUS
<1> USE ExportQueueAssumption DEF Init
<1>1. Absent \in Row0
  BY DEF Absent, Row0
<1>2. TypeOK
  BY <1>1 DEF TypeOK, Where
<1>3. FailedIffExhausted
  BY DEF FailedIffExhausted, Absent
<1>4. ClaimIsHeld
  BY DEF ClaimIsHeld
<1> QED
  BY <1>2, <1>3, <1>4 DEF Shape

LEMMA StoreContentsAdvances ==
  ASSUME Shape, NEW c \in Contents, StoreContents(c)
  PROVE  Advances
<1> USE ExportQueueAssumption DEF Shape
<1>1. Stored \in Row0 /\ Stored.status = "pending" /\ Stored.attempts = 0
  <2>1. Absent \in Row0
    BY DEF Absent, Row0
  <2>2. Stored = [Absent EXCEPT !.status = "pending", !.due = TRUE]
    BY DEF Stored
  <2>3. Stored \in Row0 /\ Stored.status = "pending" /\ Stored.attempts = Absent.attempts
    BY <2>1, <2>2 DEF Row0
  <2> QED
    BY <2>3 DEF Absent
<1>2. Leads(rows[c], Stored)
  BY <1>1 DEF StoreContents, Absent, Leads, Sound, Final
<1>3. RowsLead
  <2>1. \A d \in Contents : Leads(rows[d], rows[d])
    BY SoundRows DEF Leads
  <2> QED
    BY <1>2, <2>1 DEF StoreContents, RowsLead, TypeOK
<1>4. TypeOK'
  BY <1>1 DEF StoreContents, instanceVars, TypeOK
<1>5. ClaimIsHeld'
  BY DEF StoreContents, instanceVars, ClaimIsHeld, HasClaim
<1> QED
  BY <1>3, <1>4, <1>5 DEF Advances

LEMMA ClaimAdvances ==
  ASSUME Shape, NEW i \in Instances, Claim(i)
  PROVE  Advances
<1> USE ExportQueueAssumption DEF Shape
<1> DEFINE token == CHOOSE t \in FreshTokens(i) : TRUE
<1>1. token \in Tokens
  BY DEF Claim, FreshTokens
<1>2. PICK c \in Contents :
        /\ Claimable(rows[c])
        /\ rows' = [rows EXCEPT ![c] = ClaimBy(@, token)]
        /\ \/ /\ claim' = [claim EXCEPT ![i] = [content |-> c, token |-> token]]
              /\ Goto(i, "claimed")
              /\ UNCHANGED faults
           \/ Fault /\ UNCHANGED <<claim, pc>>
  BY DEF Claim
<1> HIDE DEF token
<1>3. Leads(rows[c], ClaimBy(rows[c], token))
  BY <1>1, <1>2, ClaimLeads, SoundRows
<1>4. RowsLead
  <2>1. \A d \in Contents : Leads(rows[d], rows[d])
    BY SoundRows DEF Leads
  <2> QED
    BY <1>2, <1>3, <2>1 DEF RowsLead, TypeOK
<1>5. rows' \in [Contents -> Row0]
  BY <1>2, <1>3 DEF TypeOK, Leads, Sound
<1>6. /\ pc' \in [Instances -> Where]
      /\ claim' \in [Instances -> {NoClaim} \cup [content : Contents, token : Tokens]]
      /\ faults' \in 0 .. MaxFaults
      /\ ClaimIsHeld'
  BY <1>1, <1>2 DEF Claim, Goto, Where, Fault, TypeOK, ClaimIsHeld, HasClaim
<1>7. TypeOK'
  BY <1>5, <1>6 DEF Claim, TypeOK
<1> QED
  BY <1>4, <1>6, <1>7 DEF Advances

(* A step in which an instance executes what it sends.                     *)
LEMMA SendingLeads ==
  ASSUME Shape, NEW i \in Instances, HasClaim(i), NEW kind \in {"renew", "complete", "fail"},
         \/ Execute(Sent(i, kind)) /\ UNCHANGED <<limbo, faults>>
         \/ Unanswered(Sent(i, kind))
         \/ UNCHANGED <<rows, limbo, faults>>
  PROVE  RowsLead /\ RowsHaveShape /\ limbo' \subseteq Statement /\ faults' \in 0 .. MaxFaults
<1>1. Sent(i, kind) \in Statement
  BY SentIsStatement
<1>2. RowsLead /\ RowsHaveShape
  BY <1>1, ExecuteLeads, RowsStay DEF Unanswered
<1>3. limbo' \subseteq Statement /\ faults' \in 0 .. MaxFaults
  BY <1>1, ExportQueueAssumption DEF Unanswered, Fault, Shape, TypeOK
<1> QED
  BY <1>2, <1>3

LEMMA RenewClaimAdvances ==
  ASSUME Shape, NEW i \in Instances, RenewClaim(i)
  PROVE  Advances
<1> USE ExportQueueAssumption
<1>1. HasClaim(i)
  BY DEF RenewClaim, Shape, ClaimIsHeld
<1>2. RowsLead /\ RowsHaveShape /\ limbo' \subseteq Statement /\ faults' \in 0 .. MaxFaults
  BY <1>1, SendingLeads DEF RenewClaim
<1>3. TypeOK'
  BY <1>2 DEF RenewClaim, Idle, Leave, Goto, Where, RowsHaveShape, Shape, TypeOK
<1>4. ClaimIsHeld'
  BY DEF RenewClaim, Idle, Leave, Goto, Shape, TypeOK, ClaimIsHeld, HasClaim
<1> QED
  BY <1>2, <1>3, <1>4 DEF Advances

LEMMA BeginOperationAdvances ==
  ASSUME Shape, NEW i \in Instances, BeginOperation(i)
  PROVE  Advances
<1> USE ExportQueueAssumption
<1>1. RowsLead /\ RowsHaveShape
  BY RowsStay DEF BeginOperation
<1>2. HeartbeatInterval \in 0 .. Lease
  BY DEF HeartbeatInterval
<1>3. TypeOK'
  BY <1>1, <1>2 DEF BeginOperation, Leave, Goto, Where, RowsHaveShape, Shape, TypeOK
<1>4. ClaimIsHeld'
  BY DEF BeginOperation, Leave, Goto, Shape, TypeOK, ClaimIsHeld, HasClaim
<1> QED
  BY <1>1, <1>3, <1>4 DEF Advances

LEMMA HeartbeatAdvances ==
  ASSUME Shape, NEW i \in Instances, Heartbeat(i)
  PROVE  Advances
<1> USE ExportQueueAssumption
<1>1. HasClaim(i)
  BY DEF Heartbeat, Shape, ClaimIsHeld
<1>2. RowsLead /\ RowsHaveShape /\ limbo' \subseteq Statement /\ faults' \in 0 .. MaxFaults
  BY <1>1, SendingLeads DEF Heartbeat
<1>3. HeartbeatInterval \in 0 .. Lease
  BY DEF HeartbeatInterval
<1>4. TypeOK'
  BY <1>2, <1>3 DEF Heartbeat, Goto, Where, RowsHaveShape, Shape, TypeOK
<1>5. ClaimIsHeld'
  BY DEF Heartbeat, Goto, Shape, TypeOK, ClaimIsHeld, HasClaim
<1> QED
  BY <1>2, <1>4, <1>5 DEF Advances

LEMMA DeliverReturnsAdvances ==
  ASSUME Shape, NEW i \in Instances, NEW ok \in BOOLEAN, DeliverReturns(i, ok)
  PROVE  Advances
<1> USE ExportQueueAssumption
<1>1. HasClaim(i)
  BY DEF DeliverReturns, Shape, ClaimIsHeld
<1>2. RowsLead /\ RowsHaveShape /\ limbo' \subseteq Statement /\ faults' \in 0 .. MaxFaults
  BY <1>1, SendingLeads DEF DeliverReturns, MayCutRenewal
<1>3. delivered' \subseteq Contents
  BY <1>1 DEF DeliverReturns, HasClaim, Shape, TypeOK
<1>4. TypeOK'
  BY <1>2, <1>3 DEF DeliverReturns, Verdict, Idle, Leave, Goto, Where, RowsHaveShape, Shape, TypeOK
<1>5. ClaimIsHeld'
  BY DEF DeliverReturns, Verdict, Idle, Leave, Goto, Shape, TypeOK, ClaimIsHeld, HasClaim
<1> QED
  BY <1>2, <1>4, <1>5 DEF Advances

LEMMA FailReadsAdvances ==
  ASSUME Shape, NEW i \in Instances, FailReads(i)
  PROVE  Advances
<1> USE ExportQueueAssumption
<1>1. HasClaim(i)
  BY DEF FailReads, Shape, ClaimIsHeld
<1>2. RowsLead /\ RowsHaveShape
  BY RowsStay DEF FailReads
<1>3. Row(i).attempts \in 0 .. MaxAttempts
  BY <1>1 DEF Row, HasClaim, Row0, Shape, TypeOK
<1>4. TypeOK'
  BY <1>2, <1>3 DEF FailReads, Idle, Leave, Goto, Where, Fault, RowsHaveShape, Shape, TypeOK
<1>5. ClaimIsHeld'
  BY DEF FailReads, Idle, Leave, Goto, Shape, TypeOK, ClaimIsHeld, HasClaim
<1> QED
  BY <1>2, <1>4, <1>5 DEF Advances

LEMMA SettleAdvances ==
  ASSUME Shape, NEW i \in Instances, Settle(i)
  PROVE  Advances
<1> USE ExportQueueAssumption
<1>1. HasClaim(i)
  BY DEF Settle, Shape, ClaimIsHeld
<1>2. PICK kind \in {"complete", "fail"} :
        \/ Execute(Sent(i, kind)) /\ UNCHANGED <<limbo, faults>>
        \/ Unanswered(Sent(i, kind))
  BY DEF Settle
<1>3. RowsLead /\ RowsHaveShape /\ limbo' \subseteq Statement /\ faults' \in 0 .. MaxFaults
  BY <1>1, <1>2, SendingLeads
<1>4. TypeOK'
  BY <1>3 DEF Settle, Idle, Leave, Goto, Where, RowsHaveShape, Shape, TypeOK
<1>5. ClaimIsHeld'
  BY DEF Settle, Idle, Leave, Goto, Shape, TypeOK, ClaimIsHeld, HasClaim
<1> QED
  BY <1>3, <1>4, <1>5 DEF Advances

LEMMA LateStatementAdvances ==
  ASSUME Shape, NEW s \in limbo, LateStatement(s)
  PROVE  Advances
<1>1. RowsLead /\ RowsHaveShape
  BY ExecuteLeads DEF LateStatement, Shape, TypeOK
<1>2. TypeOK'
  BY <1>1 DEF LateStatement, instanceVars, RowsHaveShape, Shape, TypeOK
<1>3. ClaimIsHeld'
  BY DEF LateStatement, instanceVars, Shape, ClaimIsHeld, HasClaim
<1> QED
  BY <1>1, <1>2, <1>3 DEF Advances

LEMMA StopAdvances ==
  ASSUME Shape, NEW i \in Instances, Stop(i)
  PROVE  Advances
<1>1. RowsLead /\ RowsHaveShape /\ limbo' \subseteq Statement /\ faults' \in 0 .. MaxFaults
  <2>1. CASE pc[i] = "delivering"
    <3>1. HasClaim(i)
      BY <2>1 DEF Shape, ClaimIsHeld
    <3> QED
      BY <3>1, SendingLeads DEF Stop, MayCutRenewal
  <2>2. CASE pc[i] # "delivering"
    BY <2>2, RowsStay DEF Stop, MayCutRenewal, Shape, TypeOK
  <2> QED
    BY <2>1, <2>2
<1>2. TypeOK'
  BY <1>1, ExportQueueAssumption DEF Stop, Goto, Where, RowsHaveShape, Shape, TypeOK
<1>3. ClaimIsHeld'
  BY DEF Stop, Goto, Shape, TypeOK, ClaimIsHeld, HasClaim
<1> QED
  BY <1>1, <1>2, <1>3 DEF Advances

(* Stop's return, the end of the process and its restart touch no row.     *)
LEMMA ProcessAdvances ==
  ASSUME Shape, NEW i \in Instances, StopReturns(i) \/ End(i) \/ Restart(i)
  PROVE  Advances
<1> USE ExportQueueAssumption
<1>1. RowsLead /\ RowsHaveShape
  BY RowsStay DEF StopReturns, End, Restart
<1>2. TypeOK'
  <2>1. CASE StopReturns(i)
    BY <1>1, <2>1 DEF StopReturns, RowsHaveShape, Shape, TypeOK
  <2>2. CASE End(i)
    BY <1>1, <2>2 DEF End, Leave, Goto, Where, Fault, RowsHaveShape, Shape, TypeOK
  <2>3. CASE Restart(i)
    BY <1>1, <2>3 DEF Restart, Goto, Where, RowsHaveShape, Shape, TypeOK
  <2> QED
    BY <2>1, <2>2, <2>3
<1>3. ClaimIsHeld'
  BY DEF StopReturns, End, Restart, Leave, Goto, Shape, TypeOK, ClaimIsHeld, HasClaim
<1> QED
  BY <1>1, <1>2, <1>3 DEF Advances

LEMMA RetryFallsDueAdvances ==
  ASSUME Shape, NEW c \in Contents, RetryFallsDue(c)
  PROVE  Advances
<1>1. [rows[c] EXCEPT !.due = TRUE] \in Row0
  <2>1. rows[c] \in Row0
    BY DEF Shape, TypeOK
  <2> QED
    BY <2>1 DEF Row0
<1>2. RowsLead
  <2>1. \A d \in Contents : Sound(rows[d])
    BY SoundRows
  <2>2. \A d \in Contents :
          rows'[d] = IF d = c THEN [rows[c] EXCEPT !.due = TRUE] ELSE rows[d]
    BY DEF RetryFallsDue, Shape, TypeOK
  <2>3. rows[c] \in Row0
    BY DEF Shape, TypeOK
  <2>4. LET q == [rows[c] EXCEPT !.due = TRUE] IN
          q.status = rows[c].status /\ q.attempts = rows[c].attempts
    BY <2>3 DEF Row0
  <2> QED
    BY <1>1, <2>1, <2>2, <2>4 DEF RowsLead, Leads, Sound
<1>3. TypeOK'
  BY <1>1 DEF RetryFallsDue, instanceVars, Shape, TypeOK
<1>4. ClaimIsHeld'
  BY DEF RetryFallsDue, instanceVars, Shape, ClaimIsHeld, HasClaim
<1> QED
  BY <1>2, <1>3, <1>4 DEF Advances

LEMMA TickAdvances ==
  ASSUME Shape, Tick
  PROVE  Advances
<1> USE ExportQueueAssumption
<1>1. \A n \in 0 .. Lease : Earlier(n) \in 0 .. Lease
  BY DEF Earlier
<1>2. \A c \in Contents :
        LET q == [rows[c] EXCEPT !.ttl = Earlier(@)] IN
        q \in Row0 /\ q.status = rows[c].status /\ q.attempts = rows[c].attempts
  <2> SUFFICES ASSUME NEW c \in Contents
               PROVE  LET q == [rows[c] EXCEPT !.ttl = Earlier(@)] IN
                      q \in Row0 /\ q.status = rows[c].status /\ q.attempts = rows[c].attempts
    OBVIOUS
  <2>1. rows[c] \in Row0
    BY DEF Shape, TypeOK
  <2>2. Earlier(rows[c].ttl) \in 0 .. Lease
    BY <1>1, <2>1 DEF Row0
  <2> QED
    BY <2>1, <2>2 DEF Row0
<1>3. RowsLead
  <2>1. \A c \in Contents : Sound(rows[c])
    BY SoundRows
  <2>2. \A c \in Contents : rows'[c] = [rows[c] EXCEPT !.ttl = Earlier(@)]
    BY DEF Tick
  <2> QED
    BY <1>2, <2>1, <2>2 DEF RowsLead, Leads, Sound
<1>4. TypeOK'
  BY <1>1, <1>2 DEF Tick, Shape, TypeOK
<1>5. ClaimIsHeld'
  BY DEF Tick, Shape, ClaimIsHeld, HasClaim
<1> QED
  BY <1>3, <1>4, <1>5 DEF Advances

(* Every step of the queue, or none.                                       *)
LEMMA NextAdvances ==
  ASSUME Shape, [Next]_vars
  PROVE  RowsLead /\ Shape'
<1>1. Advances
  <2>1. CASE UNCHANGED vars
    BY <2>1, RowsStay DEF vars, Advances, Shape, TypeOK, ClaimIsHeld, HasClaim
  <2>2. CASE Next
    BY <2>2, StoreContentsAdvances, RetryFallsDueAdvances, ClaimAdvances, RenewClaimAdvances,
       BeginOperationAdvances, HeartbeatAdvances, DeliverReturnsAdvances, FailReadsAdvances,
       SettleAdvances, LateStatementAdvances, StopAdvances, ProcessAdvances, TickAdvances
       DEF Next, Batch, Delivery
  <2> QED
    BY <2>1, <2>2
<1> QED
  BY <1>1, SoundRows DEF Advances, Shape

(* The state keeps its shape (ExportQueue's rows, claims and statements).  *)
THEOREM QueueShape == Spec => []Shape
<1>1. Shape /\ [Next]_vars => Shape'
  BY NextAdvances
<1> QED
  BY InitShape, <1>1, PTL DEF Spec

(* An export gives up exactly when its attempts are used up, whichever     *)
(* replies are lost and however late statements are executed.              *)
THEOREM FailedIffExhaustedHolds == Spec => []FailedIffExhausted
<1>1. Shape => FailedIffExhausted
  BY DEF Shape
<1> QED
  BY QueueShape, <1>1, PTL

(* synced and failed are final: no late Complete, Fail, Renew or claim of  *)
(* any instance changes such a row.                                        *)
SettledIsFinal ==
  [][\A c \in Contents :
       rows[c].status \in {"synced", "failed"} => rows'[c].status = rows[c].status]_vars

(* A synced or failed export stays so (an action property).                *)
THEOREM SettledIsFinalHolds == Spec => SettledIsFinal
<1>1. Shape /\ [Next]_vars =>
        [\A c \in Contents :
           rows[c].status \in {"synced", "failed"} => rows'[c].status = rows[c].status]_vars
  BY NextAdvances DEF RowsLead, Leads, Final
<1> QED
  BY QueueShape, <1>1, PTL DEF Spec, SettledIsFinal

-----------------------------------------------------------------------------
(* What makes an outcome truthful: whoever is about to report a delivery,  *)
(* or has a report of one under way, has delivered.                        *)
Truthful ==
  /\ SyncedWasDelivered
  /\ \A i \in Instances : pc[i] = "delivered" => claim[i].content \in delivered
  /\ \A s \in limbo : s.kind = "complete" => s.content \in delivered

(* Executing a statement makes nothing synced but what it completes.       *)
LEMMA OnlyCompleteSyncs ==
  ASSUME Shape, NEW s \in Statement, Execute(s), NEW c \in Contents,
         rows[c].status # "synced", rows'[c].status = "synced"
  PROVE  s.kind = "complete" /\ s.content = c
<1>1. rows[c] \in Row0 /\ rows[s.content] \in Row0 /\ s.content \in Contents
  BY DEF Shape, TypeOK, Statement
<1>2. s.content = c /\ rows'[c] = Effect(s, rows[c])
  BY <1>1 DEF Execute, Shape, TypeOK
<1>3. CASE s.kind = "renew"
  <2>1. RenewBy(rows[c], s.token).status = rows[c].status
    BY <1>1 DEF RenewBy, Row0
  <2> QED
    BY <1>2, <1>3, <2>1 DEF Effect
<1>4. CASE s.kind = "fail"
  <2>1. FailBy(rows[c], s.token, s.attempts).status \in {rows[c].status, "failed", "retry"}
    BY <1>1 DEF FailBy, Row0
  <2> QED
    BY <1>2, <1>4, <2>1 DEF Effect
<1> QED
  BY <1>2, <1>3, <1>4 DEF Statement

LEMMA NextTruthful ==
  ASSUME Shape, Truthful, [Next]_vars
  PROVE  Truthful'
<1> USE DEF Truthful, SyncedWasDelivered
<1>1. CASE UNCHANGED vars
  BY <1>1 DEF vars
<1>2. ASSUME NEW c \in Contents, StoreContents(c) PROVE Truthful'
  BY <1>2 DEF StoreContents, Stored, Absent, instanceVars, Shape, TypeOK
<1>3. ASSUME NEW c \in Contents, RetryFallsDue(c) PROVE Truthful'
  <2>1. \A d \in Contents : rows'[d].status = rows[d].status
    <3>1. \A d \in Contents : rows[d] \in Row0
      BY DEF Shape, TypeOK
    <3> QED
      BY <1>3, <3>1 DEF RetryFallsDue, Shape, TypeOK, Row0
  <2> QED
    BY <1>3, <2>1 DEF RetryFallsDue, instanceVars
<1>4. CASE Tick
  <2>1. \A d \in Contents : rows'[d].status = rows[d].status
    <3>1. \A d \in Contents : rows[d] \in Row0
      BY DEF Shape, TypeOK
    <3> QED
      BY <1>4, <3>1 DEF Tick, Row0
  <2> QED
    BY <1>4, <2>1 DEF Tick
<1>5. ASSUME NEW i \in Instances, Claim(i) PROVE Truthful'
  <2>1. \A c \in Contents : rows'[c].status = "synced" => rows[c].status = "synced"
    <3>1. \A r \in Row0 : \A t : ClaimBy(r, t).status = "processing"
      BY DEF ClaimBy, Row0
    <3>2. PICK d \in Contents : \E t : rows' = [rows EXCEPT ![d] = ClaimBy(@, t)]
      BY <1>5 DEF Claim
    <3> QED
      BY <3>1, <3>2 DEF Shape, TypeOK
  <2>2. \A j \in Instances : pc'[j] = "delivered" => pc[j] = "delivered" /\ claim'[j] = claim[j]
    BY <1>5 DEF Claim, Goto, Shape, TypeOK
  <2> QED
    BY <1>5, <2>1, <2>2 DEF Claim
<1>6. ASSUME NEW i \in Instances, RenewClaim(i) \/ Heartbeat(i)
      PROVE  Truthful'
  <2>1. HasClaim(i) /\ Sent(i, "renew") \in Statement /\ Sent(i, "renew").kind = "renew"
    BY <1>6, SentIsStatement DEF RenewClaim, Heartbeat, Shape, ClaimIsHeld, Sent
  <2>2. \/ Execute(Sent(i, "renew")) /\ UNCHANGED limbo
        \/ UNCHANGED rows /\ limbo' = limbo \cup {Sent(i, "renew")}
        \/ UNCHANGED <<rows, limbo>>
    BY <1>6 DEF RenewClaim, Heartbeat, Unanswered
  <2>3. \A c \in Contents : rows'[c].status = "synced" => rows[c].status = "synced"
    BY <2>1, <2>2, OnlyCompleteSyncs
  <2>4. \A s \in limbo' : s.kind = "complete" => s \in limbo
    BY <2>1, <2>2
  <2>5. \A j \in Instances : pc'[j] = "delivered" => pc[j] = "delivered" /\ claim'[j] = claim[j]
    BY <1>6 DEF RenewClaim, Heartbeat, Idle, Leave, Goto, Shape, TypeOK
  <2>6. UNCHANGED delivered
    BY <1>6 DEF RenewClaim, Heartbeat
  <2> QED
    BY <2>3, <2>4, <2>5, <2>6
<1>7. ASSUME NEW i \in Instances, BeginOperation(i) \/ FailReads(i) \/ StopReturns(i) \/ End(i) \/ Restart(i)
      PROVE  Truthful'
  <2>1. \A j \in Instances : pc'[j] = "delivered" => pc[j] = "delivered" /\ claim'[j] = claim[j]
    BY <1>7 DEF BeginOperation, FailReads, StopReturns, End, Restart, Idle, Leave, Goto, Shape, TypeOK
  <2>2. UNCHANGED <<rows, limbo, delivered>>
    BY <1>7 DEF BeginOperation, FailReads, StopReturns, End, Restart
  <2> QED
    BY <2>1, <2>2
<1>8. ASSUME NEW i \in Instances, Stop(i) \/ \E ok \in BOOLEAN : DeliverReturns(i, ok)
      PROVE  Truthful'
  <2>1. /\ UNCHANGED rows
        /\ \A s \in limbo' : s.kind = "complete" => s \in limbo
    BY <1>8 DEF Stop, DeliverReturns, MayCutRenewal, Unanswered, Sent
  <2>2. delivered \subseteq delivered'
    BY <1>8 DEF Stop, DeliverReturns
  <2>3. \A j \in Instances :
          pc'[j] = "delivered" => claim'[j].content \in delivered'
    BY <1>8, <2>2 DEF Stop, DeliverReturns, Verdict, Idle, Leave, Goto, Shape, TypeOK
  <2> QED
    BY <2>1, <2>2, <2>3
<1>9. ASSUME NEW i \in Instances, Settle(i) PROVE Truthful'
  <2>1. PICK kind \in {"complete", "fail"} :
          /\ kind = "complete" => pc[i] = "delivered"
          /\ \/ Execute(Sent(i, kind)) /\ UNCHANGED limbo
             \/ UNCHANGED rows /\ limbo' = limbo \cup {Sent(i, kind)}
    BY <1>9 DEF Settle, Unanswered
  <2>2. /\ Sent(i, kind) \in Statement
        /\ Sent(i, kind).kind = kind /\ Sent(i, kind).content = claim[i].content
    BY <1>9, SentIsStatement DEF Settle, Shape, ClaimIsHeld, Sent
  <2>3. \A c \in Contents : rows'[c].status = "synced" => c \in delivered
    BY <2>1, <2>2, OnlyCompleteSyncs
  <2>4. \A s \in limbo' : s.kind = "complete" => s.content \in delivered
    BY <2>1, <2>2
  <2>5. \A j \in Instances : pc'[j] = "delivered" => pc[j] = "delivered" /\ claim'[j] = claim[j]
    BY <1>9 DEF Settle, Idle, Leave, Goto, Shape, TypeOK
  <2>6. UNCHANGED delivered
    BY <1>9 DEF Settle
  <2> QED
    BY <2>3, <2>4, <2>5, <2>6
<1>10. ASSUME NEW s \in limbo, LateStatement(s) PROVE Truthful'
  <2>1. s \in Statement
    BY DEF Shape, TypeOK
  <2>2. \A c \in Contents : rows'[c].status = "synced" => c \in delivered
    BY <1>10, <2>1, OnlyCompleteSyncs DEF LateStatement
  <2> QED
    BY <1>10, <2>2 DEF LateStatement, instanceVars
<1> QED
  BY <1>1, <1>2, <1>3, <1>4, <1>5, <1>6, <1>7, <1>8, <1>9, <1>10 DEF Next, Batch, Delivery

(* An export that is reported as synced was accepted by the target, though *)
(* reports arrive late, twice or from an instance that has lost its claim. *)
THEOREM SyncedWasDeliveredHolds == Spec => []SyncedWasDelivered
<1>1. Init => Truthful
  BY ExportQueueAssumption DEF Init, Truthful, SyncedWasDelivered, Absent
<1>2. Shape /\ Truthful /\ [Next]_vars => Truthful'
  BY NextTruthful
<1>3. Truthful => SyncedWasDelivered
  BY DEF Truthful
<1> QED
  BY QueueShape, <1>1, <1>2, <1>3, PTL DEF Spec

-----------------------------------------------------------------------------
(* A process that has finished its stop has begun it.                      *)
Halting == StoppedIsQuiet /\ \A i \in Instances : stopped[i] # "no" => stopping[i]

LEMMA NextHalting ==
  ASSUME Shape, Halting, [Next]_vars
  PROVE  Halting'
<1> USE DEF Halting, StoppedIsQuiet, Operating
<1>1. CASE UNCHANGED vars
  BY <1>1 DEF vars
<1>2. ASSUME UNCHANGED instanceVars PROVE Halting'
  BY <1>2 DEF instanceVars
<1>3. CASE Tick
  BY <1>3 DEF Tick
<1>4. ASSUME NEW i \in Instances, Claim(i) \/ RenewClaim(i) PROVE Halting'
  BY <1>4 DEF Claim, RenewClaim, Idle, Leave, Goto, Shape, TypeOK
<1>5. ASSUME NEW i \in Instances, BeginOperation(i) PROVE Halting'
  BY <1>5 DEF BeginOperation, MayBegin, Leave, Goto, Shape, TypeOK
<1>6. ASSUME NEW i \in Instances, Heartbeat(i) \/ FailReads(i) \/ Settle(i) PROVE Halting'
  BY <1>6 DEF Heartbeat, FailReads, Settle, Idle, Leave, Goto, Shape, TypeOK
<1>7. ASSUME NEW i \in Instances, NEW ok \in BOOLEAN, DeliverReturns(i, ok) PROVE Halting'
  BY <1>7 DEF DeliverReturns, Verdict, Idle, Leave, Goto, Shape, TypeOK
<1>8. ASSUME NEW i \in Instances, Stop(i) PROVE Halting'
  BY <1>8 DEF Stop, Goto, Shape, TypeOK
<1>9. ASSUME NEW i \in Instances, StopReturns(i) PROVE Halting'
  BY <1>9 DEF StopReturns, Shape, TypeOK
<1>10. ASSUME NEW i \in Instances, End(i) \/ Restart(i) PROVE Halting'
  BY <1>10 DEF End, Restart, Leave, Goto, Shape, TypeOK
<1> QED
  BY <1>1, <1>2, <1>3, <1>4, <1>5, <1>6, <1>7, <1>8, <1>9, <1>10
     DEF Next, Batch, Delivery, StoreContents, RetryFallsDue, LateStatement

(* Once its stop has begun an instance begins no operation, and once it    *)
(* has returned without an error nothing is delivered.                     *)
THEOREM StoppedIsQuietHolds == Spec => []StoppedIsQuiet
<1>1. Init => Halting
  BY DEF Init, Halting, StoppedIsQuiet, Operating
<1>2. Shape /\ Halting /\ [Next]_vars => Halting'
  BY NextHalting
<1>3. Halting => StoppedIsQuiet
  BY DEF Halting
<1> QED
  BY QueueShape, <1>1, <1>2, <1>3, PTL DEF Spec

-----------------------------------------------------------------------------
(* An instance works on a claim until it has something to report about it. *)
(* Until then its token is its own, and no statement with it is late.      *)
Works(i) == pc[i] \in {"claimed", "renewed", "delivering"}
OwnToken ==
  /\ \A i, j \in Instances :
       HasClaim(i) /\ HasClaim(j) /\ claim[i].token = claim[j].token => i = j
  /\ \A i \in Instances : Works(i) => \A s \in limbo : s.token # claim[i].token

(* An instance that is prompt owns its row, and the lease that is left     *)
(* exceeds the time to its next heartbeat by what the lease had more at    *)
(* the last one: Lease - HeartbeatInterval, which is positive.             *)
LeaseCovers(i) ==
  /\ Owned(Row(i), claim[i].token)
  /\ pc[i] \in {"claimed", "renewed"} => Row(i).ttl = Lease
  /\ pc[i] = "delivering" =>
       beat[i] <= HeartbeatInterval /\ Row(i).ttl >= Lease - HeartbeatInterval + beat[i]
Covered == \A i \in Prompt : Works(i) => LeaseCovers(i)

Kept == OwnToken /\ Covered

LEMMA Interval == HeartbeatInterval \in Nat /\ HeartbeatInterval < Lease
BY ExportQueueAssumption DEF HeartbeatInterval

(* A claim that is covered cannot be taken by another.                     *)
LEMMA CoveredIsKept ==
  ASSUME Shape, NEW i \in Instances, Works(i), LeaseCovers(i)
  PROVE  /\ claim[i].content \in Contents /\ claim[i].token \in Tokens
         /\ Row(i) \in Row0 /\ Row(i) = rows[claim[i].content]
         /\ Row(i).ttl > 0 /\ ~Claimable(Row(i))
<1>1. /\ HasClaim(i) /\ Row(i) = rows[claim[i].content]
      /\ claim[i].content \in Contents /\ claim[i].token \in Tokens
  BY DEF Shape, ClaimIsHeld, HasClaim, Works, Row
<1>2. Row(i) \in Row0 /\ beat[i] \in Nat
  BY <1>1 DEF Shape, TypeOK
<1>3. Row(i).ttl > 0
  BY <1>2, Interval, ExportQueueAssumption DEF LeaseCovers, Works, Row0
<1> QED
  BY <1>1, <1>2, <1>3 DEF LeaseCovers, Owned, Claimable

(* A statement of one claim does nothing to the row of another.            *)
LEMMA ForeignStatement ==
  ASSUME NEW s \in Statement, NEW r, r.owner # s.token
  PROVE  Effect(s, r) = r
BY DEF Statement, Effect, RenewBy, CompleteBy, FailBy, Owned

(* A step that leaves i, its row and its time alone keeps i covered.       *)
LEMMA LeftAlone ==
  ASSUME NEW i, LeaseCovers(i), Row(i)' = Row(i), UNCHANGED <<claim[i], pc[i], beat[i]>>
  PROVE  LeaseCovers(i)'
BY DEF LeaseCovers

LEMMA OwnTokenKept ==
  ASSUME Shape, OwnToken, [Next]_vars
  PROVE  OwnToken'
<1> USE DEF OwnToken, Works, HasClaim
<1>1. CASE UNCHANGED vars
  BY <1>1 DEF vars
<1>2. ASSUME UNCHANGED <<claim, pc>>, limbo' \subseteq limbo PROVE OwnToken'
  BY <1>2
<1>3. ASSUME NEW i \in Instances, Claim(i) PROVE OwnToken'
  <2> DEFINE token == CHOOSE t \in FreshTokens(i) : TRUE
  <2>1. token \in FreshTokens(i)
    BY <1>3 DEF Claim
  <2>2. PICK c \in Contents :
          \/ claim' = [claim EXCEPT ![i] = [content |-> c, token |-> token]] /\ Goto(i, "claimed")
          \/ UNCHANGED <<claim, pc>>
    BY <1>3 DEF Claim
  <2> HIDE DEF token
  <2>3. /\ \A j \in Instances : claim[j].token # token
        /\ \A s \in limbo : s.token # token
    BY <2>1 DEF FreshTokens, UsedTokens
  <2>4. UNCHANGED limbo
    BY <1>3 DEF Claim
  <2> QED
    BY <2>2, <2>3, <2>4 DEF Goto, Shape, TypeOK
<1>4. ASSUME NEW i \in Instances,
             \A j \in Instances \ {i} : UNCHANGED <<claim[j], pc[j]>>,
             UNCHANGED claim[i] \/ claim'[i] = NoClaim,
             \/ limbo' = limbo /\ (Works(i)' => Works(i) /\ UNCHANGED claim[i])
             \/ /\ HasClaim(i) /\ ~Works(i)'
                /\ \E kind : limbo' = limbo \cup {Sent(i, kind)}
      PROVE  OwnToken'
  <2>1. ~(NoClaim \in [content : Contents, token : Tokens])
    BY ExportQueueAssumption DEF NoClaim
  <2>2. \A j \in Instances : HasClaim(j)' => HasClaim(j) /\ claim'[j] = claim[j]
    BY <1>4, <2>1
  <2>3. \A kind : Sent(i, kind).token = claim[i].token
    BY DEF Sent
  <2>4. \A j \in Instances : Works(j) => HasClaim(j)
    BY DEF Shape, ClaimIsHeld
  <2> QED
    BY <1>4, <2>2, <2>3, <2>4
<1>5. ASSUME NEW i \in Instances, RenewClaim(i) PROVE OwnToken'
  <2>1. HasClaim(i)
    BY <1>5 DEF RenewClaim, Shape, ClaimIsHeld
  <2> QED
    BY <1>4, <1>5, <2>1 DEF RenewClaim, Unanswered, Idle, Leave, Goto, Shape, TypeOK
<1>6. ASSUME NEW i \in Instances, BeginOperation(i) PROVE OwnToken'
  BY <1>4, <1>6 DEF BeginOperation, Leave, Goto, Shape, TypeOK
<1>7. ASSUME NEW i \in Instances, Heartbeat(i) PROVE OwnToken'
  <2>1. HasClaim(i)
    BY <1>7 DEF Heartbeat, Shape, ClaimIsHeld
  <2> QED
    BY <1>4, <1>7, <2>1 DEF Heartbeat, Unanswered, Goto, Shape, TypeOK
<1>8. ASSUME NEW i \in Instances, NEW ok \in BOOLEAN, DeliverReturns(i, ok) PROVE OwnToken'
  <2>1. HasClaim(i)
    BY <1>8 DEF DeliverReturns, Shape, ClaimIsHeld
  <2> QED
    BY <1>4, <1>8, <2>1 DEF DeliverReturns, MayCutRenewal, Unanswered, Verdict, Idle, Leave, Goto, Shape, TypeOK
<1>9. ASSUME NEW i \in Instances, FailReads(i) PROVE OwnToken'
  BY <1>4, <1>9 DEF FailReads, Idle, Leave, Goto, Shape, TypeOK
<1>10. ASSUME NEW i \in Instances, Settle(i) PROVE OwnToken'
  <2>1. HasClaim(i)
    BY <1>10 DEF Settle, Shape, ClaimIsHeld
  <2> QED
    BY <1>4, <1>10, <2>1 DEF Settle, Unanswered, Idle, Leave, Goto, Shape, TypeOK
<1>11. ASSUME NEW i \in Instances, Stop(i) PROVE OwnToken'
  <2>1. pc[i] = "delivering" => HasClaim(i)
    BY DEF Shape, ClaimIsHeld
  <2> QED
    BY <1>4, <1>11, <2>1 DEF Stop, MayCutRenewal, Unanswered, Goto, Shape, TypeOK
<1>12. ASSUME NEW i \in Instances, StopReturns(i) \/ End(i) \/ Restart(i) PROVE OwnToken'
  BY <1>4, <1>12 DEF StopReturns, End, Restart, Leave, Goto, Shape, TypeOK
<1> QED
  BY <1>1, <1>2, <1>3, <1>5, <1>6, <1>7, <1>8, <1>9, <1>10, <1>11, <1>12
     DEF Next, Batch, Delivery, StoreContents, RetryFallsDue, LateStatement, Tick, instanceVars

(* What another instance, or a late statement, does to the row of i.       *)
LEMMA OtherStatement ==
  ASSUME Shape, NEW i \in Instances, Works(i), LeaseCovers(i),
         NEW s \in Statement, s.token # claim[i].token, Execute(s) \/ UNCHANGED rows,
         UNCHANGED claim[i]
  PROVE  Row(i)' = Row(i)
<1>1. /\ claim[i].content \in Contents /\ Row(i) = rows[claim[i].content]
      /\ Row(i).owner = claim[i].token
  BY CoveredIsKept DEF LeaseCovers, Owned
<1>2. Effect(s, Row(i)) = Row(i)
  BY <1>1, ForeignStatement
<1>3. Row(i)' = rows'[claim[i].content]
  BY DEF Row
<1> QED
  BY <1>1, <1>2, <1>3 DEF Execute, Shape, TypeOK

(* The statement of i itself, if it is a renewal.                          *)
LEMMA OwnRenewal ==
  ASSUME Shape, NEW i \in Instances, Works(i), LeaseCovers(i),
         Execute(Sent(i, "renew")), UNCHANGED claim[i]
  PROVE  Owned(Row(i)', claim[i].token) /\ Row(i)'.ttl = Lease
<1>1. /\ claim[i].content \in Contents /\ Row(i) = rows[claim[i].content]
      /\ Row(i) \in Row0 /\ Owned(Row(i), claim[i].token)
  BY CoveredIsKept DEF LeaseCovers
<1>2. Row(i)' = rows'[claim[i].content]
  BY DEF Row
<1>3. rows'[claim[i].content] = Effect(Sent(i, "renew"), Row(i))
  BY <1>1 DEF Execute, Sent, Shape, TypeOK
<1>4. Effect(Sent(i, "renew"), Row(i)) = [Row(i) EXCEPT !.ttl = Lease]
  BY <1>1 DEF Effect, Sent, RenewBy
<1> QED
  BY <1>1, <1>2, <1>3, <1>4 DEF Owned, Row0

LEMMA CoveredKept ==
  ASSUME Shape, Kept, [Next]_vars
  PROVE  Covered'
<1> SUFFICES ASSUME NEW i \in Prompt, Works(i)' PROVE LeaseCovers(i)'
  BY DEF Covered
<1>0. i \in Instances /\ (Works(i) => LeaseCovers(i))
  BY ExportQueueAssumption DEF Kept, Covered
<1>1. CASE UNCHANGED vars
  BY <1>0, <1>1 DEF vars, Works, LeaseCovers, Row
<1>2. ASSUME NEW c \in Contents, StoreContents(c) \/ RetryFallsDue(c) PROVE LeaseCovers(i)'
  <2>1. Works(i) /\ LeaseCovers(i) /\ UNCHANGED <<claim, pc, beat>>
    BY <1>0, <1>2 DEF StoreContents, RetryFallsDue, instanceVars, Works
  <2>2. c # claim[i].content
    BY <1>0, <1>2, <2>1, CoveredIsKept DEF StoreContents, RetryFallsDue, Absent, LeaseCovers, Owned
  <2>3. Row(i)' = Row(i)
    BY <1>0, <1>2, <2>1, <2>2, CoveredIsKept DEF StoreContents, RetryFallsDue, Row, Shape, TypeOK
  <2> QED
    BY <2>1, <2>3, LeftAlone
<1>3. CASE Tick
  <2>1. Works(i) /\ LeaseCovers(i) /\ OnTime(i) /\ UNCHANGED <<claim, pc>>
    BY <1>0, <1>3 DEF Tick, Works
  <2>2. pc[i] = "delivering" /\ beat[i] > 0 /\ beat[i] \in Nat
    BY <1>0, <2>1 DEF OnTime, Works, Shape, TypeOK
  <2>3. /\ Row(i) \in Row0 /\ Row(i).ttl > 0 /\ Row(i).ttl \in Nat
        /\ Row(i)' = [Row(i) EXCEPT !.ttl = Earlier(@)]
    BY <1>0, <1>3, <2>1, CoveredIsKept DEF Tick, Row, Row0
  <2>4. beat'[i] = beat[i] - 1 /\ Row(i)'.ttl = Row(i).ttl - 1
    BY <1>0, <1>3, <2>2, <2>3 DEF Tick, Earlier, Row0
  <2>5. Owned(Row(i)', claim[i].token)
    BY <2>1, <2>3 DEF LeaseCovers, Owned, Row0
  <2> QED
    BY <2>1, <2>2, <2>3, <2>4, <2>5, Interval, ExportQueueAssumption DEF LeaseCovers
<1>4. ASSUME NEW j \in Instances, Claim(j) PROVE LeaseCovers(i)'
  <2> DEFINE token == CHOOSE t \in FreshTokens(j) : TRUE
  <2>1. PICK c \in Contents :
          /\ Claimable(rows[c])
          /\ rows' = [rows EXCEPT ![c] = ClaimBy(@, token)]
          /\ \/ claim' = [claim EXCEPT ![j] = [content |-> c, token |-> token]] /\ Goto(j, "claimed")
             \/ UNCHANGED <<claim, pc>>
    BY <1>4 DEF Claim
  <2> HIDE DEF token
  <2>2. CASE Works(i) /\ UNCHANGED <<claim[i], pc[i]>>
    <3>1. c # claim[i].content
      BY <1>0, <2>1, <2>2, CoveredIsKept
    <3>2. Row(i)' = Row(i)
      BY <1>0, <2>1, <2>2, <3>1, CoveredIsKept DEF Row, Shape, TypeOK
    <3> QED
      BY <1>0, <1>4, <2>2, <3>2, LeftAlone DEF Claim
  <2>3. CASE ~(Works(i) /\ UNCHANGED <<claim[i], pc[i]>>)
    <3>1. j = i /\ claim'[i] = [content |-> c, token |-> token] /\ pc'[i] = "claimed"
      BY <1>0, <1>4, <2>1, <2>3 DEF Claim, Works, Goto, Shape, TypeOK
    <3>2. Row(i)' = ClaimBy(rows[c], token)
      BY <2>1, <3>1 DEF Row, Shape, TypeOK
    <3>3. rows[c] \in Row0
      BY DEF Shape, TypeOK
    <3>4. Owned(Row(i)', token) /\ Row(i)'.ttl = Lease
      BY <3>2, <3>3 DEF ClaimBy, Owned, Row0
    <3> QED
      BY <3>1, <3>4 DEF LeaseCovers
  <2> QED
    BY <2>2, <2>3
<1>5. ASSUME NEW s \in limbo, LateStatement(s) PROVE LeaseCovers(i)'
  <2>1. Works(i) /\ LeaseCovers(i) /\ UNCHANGED <<claim, pc, beat>>
    BY <1>0, <1>5 DEF LateStatement, instanceVars, Works
  <2>2. s \in Statement /\ s.token # claim[i].token /\ Execute(s)
    BY <1>0, <1>5, <2>1 DEF LateStatement, Kept, OwnToken, Shape, TypeOK
  <2> QED
    BY <1>0, <2>1, <2>2, OtherStatement, LeftAlone
<1>6. ASSUME NEW j \in Instances \ {i}, UNCHANGED <<claim[i], pc[i], beat[i]>>,
             \/ UNCHANGED rows
             \/ HasClaim(j) /\ \E kind \in {"renew", "complete", "fail"} : Execute(Sent(j, kind))
      PROVE  LeaseCovers(i)'
  <2>1. Works(i) /\ LeaseCovers(i)
    BY <1>0, <1>6 DEF Works
  <2>2. CASE UNCHANGED rows
    BY <1>6, <2>1, <2>2, LeftAlone DEF Row
  <2>3. ASSUME HasClaim(j), NEW kind \in {"renew", "complete", "fail"}, Execute(Sent(j, kind))
        PROVE  LeaseCovers(i)'
    <3>1. HasClaim(i)
      BY <1>0, <2>1 DEF Shape, ClaimIsHeld, Works
    <3>2. Sent(j, kind) \in Statement /\ Sent(j, kind).token # claim[i].token
      BY <1>0, <2>3, <3>1, SentIsStatement DEF Sent, Kept, OwnToken
    <3> QED
      BY <1>0, <1>6, <2>1, <2>3, <3>2, OtherStatement, LeftAlone
  <2> QED
    BY <1>6, <2>2, <2>3
<1>7. ASSUME NEW j \in Instances \ {i},
             RenewClaim(j) \/ BeginOperation(j) \/ Heartbeat(j) \/ FailReads(j) \/ Settle(j)
      PROVE  LeaseCovers(i)'
  <2>1. UNCHANGED <<claim[i], pc[i], beat[i]>>
    BY <1>0, <1>7 DEF RenewClaim, BeginOperation, Heartbeat, FailReads, Settle, Idle, Leave, Goto, Shape, TypeOK
  <2>2. UNCHANGED rows \/ \E kind \in {"renew", "complete", "fail"} : Execute(Sent(j, kind))
    BY <1>7 DEF RenewClaim, BeginOperation, Heartbeat, FailReads, Settle, Unanswered
  <2>3. UNCHANGED rows \/ HasClaim(j)
    BY <1>7 DEF RenewClaim, BeginOperation, Heartbeat, FailReads, Settle, Shape, ClaimIsHeld
  <2> QED
    BY <1>6, <2>1, <2>2, <2>3
<1>8. ASSUME NEW j \in Instances \ {i}, NEW ok \in BOOLEAN,
             DeliverReturns(j, ok) \/ Stop(j) \/ StopReturns(j) \/ End(j) \/ Restart(j)
      PROVE  LeaseCovers(i)'
  <2>1. UNCHANGED <<claim[i], pc[i], beat[i]>>
    BY <1>0, <1>8 DEF DeliverReturns, Stop, StopReturns, End, Restart, Idle, Leave, Goto, Shape, TypeOK
  <2>2. UNCHANGED rows
    BY <1>8 DEF DeliverReturns, Stop, StopReturns, End, Restart, MayCutRenewal, Unanswered
  <2> QED
    BY <1>6, <2>1, <2>2
<1>9. CASE RenewClaim(i)
  <2>1. /\ Works(i) /\ LeaseCovers(i) /\ UNCHANGED claim[i]
        /\ Execute(Sent(i, "renew")) /\ pc'[i] = "renewed"
    BY <1>0, <1>9 DEF RenewClaim, Idle, Leave, Goto, Works, Shape, TypeOK
  <2> QED
    BY <1>0, <2>1, OwnRenewal DEF LeaseCovers
<1>10. CASE BeginOperation(i)
  <2>1. /\ Works(i) /\ LeaseCovers(i) /\ UNCHANGED <<claim, rows>>
        /\ pc[i] = "renewed" /\ pc'[i] = "delivering" /\ beat'[i] = HeartbeatInterval
    BY <1>0, <1>10 DEF BeginOperation, Leave, Goto, Works, Shape, TypeOK
  <2>2. Row(i)' = Row(i)
    BY <2>1 DEF Row
  <2> QED
    BY <2>1, <2>2, Interval, ExportQueueAssumption DEF LeaseCovers
<1>11. CASE Heartbeat(i)
  <2>1. /\ Works(i) /\ LeaseCovers(i) /\ UNCHANGED <<claim, pc>> /\ pc[i] = "delivering"
        /\ Execute(Sent(i, "renew")) /\ beat'[i] = HeartbeatInterval
    BY <1>0, <1>11 DEF Heartbeat, Goto, Works, Shape, TypeOK
  <2> QED
    BY <1>0, <2>1, OwnRenewal, Interval, ExportQueueAssumption DEF LeaseCovers
<1>12. ASSUME NEW ok \in BOOLEAN, DeliverReturns(i, ok) \/ FailReads(i) \/ Settle(i) \/ End(i) \/ Restart(i)
       PROVE  FALSE
  BY <1>0, <1>12 DEF DeliverReturns, FailReads, Settle, End, Restart, Verdict, Idle, Leave, Goto, Works, Shape, TypeOK
<1>13. CASE Stop(i) \/ StopReturns(i)
  <2>1. Works(i) /\ LeaseCovers(i) /\ UNCHANGED <<claim, pc[i], rows>>
    BY <1>0, <1>13 DEF Stop, StopReturns, MayCutRenewal, Unanswered, Goto, Works, Shape, TypeOK
  <2>2. pc[i] # "delivering" \/ UNCHANGED beat
    BY <1>0, <1>13, <2>1 DEF Stop, StopReturns, Goto, Shape, TypeOK
  <2> QED
    BY <2>1, <2>2 DEF LeaseCovers, Row
<1> QED
  BY <1>0, <1>1, <1>2, <1>3, <1>4, <1>5, <1>7, <1>8, <1>9, <1>10, <1>11, <1>12, <1>13
     DEF Next, Batch, Delivery

(* An instance that is prompt owns the row it delivers, for every lease,   *)
(* every number of instances that stall, and every late statement.         *)
THEOREM PromptKeepsClaimHolds == Spec => []PromptKeepsClaim
<1>1. Init => Kept
  <2>1. ASSUME Init PROVE \A i \in Instances : ~HasClaim(i) /\ ~Works(i)
    BY <2>1, ExportQueueAssumption DEF Init, HasClaim, NoClaim, Works
  <2> QED
    BY <2>1, ExportQueueAssumption DEF Kept, OwnToken, Covered
<1>2. Shape /\ Kept /\ [Next]_vars => Kept'
  BY OwnTokenKept, CoveredKept DEF Kept
<1>3. Kept => PromptKeepsClaim
  BY DEF Kept, Covered, LeaseCovers, Works, PromptKeepsClaim
<1> QED
  BY QueueShape, <1>1, <1>2, <1>3, PTL DEF Spec

-----------------------------------------------------------------------------
(* That the queue keeps its promise rests on one fact: the outcome of a    *)
(* claim is held by its instance or by one late statement, not by both.    *)
(* What is claimed has been stored.                                        *)
OneReport ==
  /\ \A i \in Instances : HasClaim(i) =>
       \A s \in limbo : s.kind # "renew" => s.token # claim[i].token
  /\ \A s, l \in limbo : s.kind # "renew" /\ l.kind # "renew" /\ s.token = l.token => s = l

ClaimedIsStored ==
  \A i \in Instances : HasClaim(i) => rows[claim[i].content].status # "none"

Reported == OwnToken /\ OneReport /\ ClaimedIsStored

Exports == [c \in Contents |-> ExportOf(rows[c])]

(* What is said of an export follows its statements: a renewal does not    *)
(* show, and an outcome shows if its claim is current.                     *)
LEMMA StatementMaps ==
  ASSUME NEW r \in Row0, NEW s \in Statement
  PROVE  \/ ExportOf(Effect(s, r)) = ExportOf(r)
         \/ /\ s.kind # "renew"
            /\ ExportOf(r).state = "open" /\ ExportOf(r).holder = s.token
            /\ ExportOf(Effect(s, r)) = Promise!Outcome(ExportOf(r), s.kind = "complete")
<1>1. CASE s.kind = "renew"
  BY <1>1 DEF Effect, RenewBy, ExportOf, Row0
<1>2. CASE s.kind = "complete"
  <2>1. CASE ~Owned(r, s.token)
    BY <1>2, <2>1 DEF Effect, CompleteBy
  <2>2. CASE Owned(r, s.token)
    <3>1. Effect(s, r) = [r EXCEPT !.status = "synced", !.owner = Nobody, !.ttl = 0]
      BY <1>2, <2>2 DEF Effect, CompleteBy
    <3>2. ExportOf(Effect(s, r)) = [state |-> "synced", attempts |-> r.attempts, holder |-> Nobody]
      BY <3>1 DEF ExportOf, Row0
    <3>3. ExportOf(r) = [state |-> "open", attempts |-> r.attempts, holder |-> s.token]
      BY <2>2 DEF ExportOf, Owned
    <3>4. Promise!Outcome(ExportOf(r), TRUE)
            = [state |-> "synced", attempts |-> r.attempts, holder |-> Nobody]
      BY <3>3 DEF Promise!Outcome
    <3>5. ExportOf(r).state = "open" /\ ExportOf(r).holder = s.token
      BY <3>3
    <3>6. (s.kind = "complete") = TRUE /\ s.kind # "renew"
      BY <1>2
    <3>7. ExportOf(Effect(s, r)) = Promise!Outcome(ExportOf(r), s.kind = "complete")
      BY <3>2, <3>4, <3>6
    <3> QED
      BY <3>5, <3>6, <3>7
  <2> QED
    BY <2>1, <2>2
<1>3. CASE s.kind = "fail"
  <2>1. CASE ~(Owned(r, s.token) /\ r.attempts = s.attempts)
    BY <1>3, <2>1 DEF Effect, FailBy
  <2>2. CASE Owned(r, s.token) /\ r.attempts = s.attempts
    <3> DEFINE status == IF Exhausted(r.attempts + 1) THEN "failed" ELSE "retry"
               state == IF r.attempts + 1 < MaxAttempts THEN "open" ELSE "failed"
    <3>1. Effect(s, r) = [r EXCEPT !.attempts = r.attempts + 1, !.status = status,
                                   !.due = FALSE, !.owner = Nobody, !.ttl = 0]
      BY <1>3, <2>2 DEF Effect, FailBy
    <3>2. state = IF status = "retry" THEN "open" ELSE status
      BY ExportQueueAssumption DEF Exhausted, Row0
    <3>3. ExportOf(Effect(s, r)) = [state |-> state, attempts |-> r.attempts + 1, holder |-> Nobody]
      <4>1. status \in {"failed", "retry"}
        OBVIOUS
      <4> HIDE DEF status, state
      <4> QED
        BY <3>1, <3>2, <4>1 DEF ExportOf, Row0
    <3>4. ExportOf(r) = [state |-> "open", attempts |-> r.attempts, holder |-> s.token]
      BY <2>2 DEF ExportOf, Owned
    <3>5. Promise!Outcome(ExportOf(r), FALSE)
            = [state |-> state, attempts |-> r.attempts + 1, holder |-> Nobody]
      BY <3>4 DEF Promise!Outcome
    <3> HIDE DEF status, state
    <3>6. ExportOf(r).state = "open" /\ ExportOf(r).holder = s.token
      BY <3>4
    <3>7. (s.kind = "complete") = FALSE /\ s.kind # "renew"
      BY <1>3
    <3>8. ExportOf(Effect(s, r)) = Promise!Outcome(ExportOf(r), s.kind = "complete")
      BY <3>3, <3>5, <3>7
    <3> QED
      BY <3>6, <3>7, <3>8
  <2> QED
    BY <2>1, <2>2
<1> QED
  BY <1>1, <1>2, <1>3 DEF Statement

LEMMA ExecuteMaps ==
  ASSUME Shape, NEW s \in Statement, Execute(s)
  PROVE  \/ Exports' = Exports
         \/ /\ s.kind # "renew"
            /\ Exports[s.content].state = "open" /\ Exports[s.content].holder = s.token
            /\ Exports' = [Exports EXCEPT ![s.content] = Promise!Outcome(@, s.kind = "complete")]
<1>1. s.content \in Contents /\ rows[s.content] \in Row0
  BY DEF Shape, TypeOK, Statement
<1>2. \A c \in Contents :
        Exports'[c] = IF c = s.content THEN ExportOf(Effect(s, rows[c])) ELSE Exports[c]
  BY <1>1 DEF Execute, Exports, Shape, TypeOK
<1>3. Exports[s.content] = ExportOf(rows[s.content])
  BY <1>1 DEF Exports
<1>4. /\ Exports = [c \in Contents |-> Exports[c]]
      /\ Exports' = [c \in Contents |-> Exports'[c]]
  BY DEF Exports
<1>5. CASE ExportOf(Effect(s, rows[s.content])) = ExportOf(rows[s.content])
  <2>1. \A c \in Contents : Exports'[c] = Exports[c]
    BY <1>2, <1>3, <1>5
  <2> QED
    BY <1>4, <2>1
<1>6. CASE /\ s.kind # "renew"
           /\ ExportOf(rows[s.content]).state = "open" /\ ExportOf(rows[s.content]).holder = s.token
           /\ ExportOf(Effect(s, rows[s.content]))
                = Promise!Outcome(ExportOf(rows[s.content]), s.kind = "complete")
  <2> DEFINE new == Promise!Outcome(Exports[s.content], s.kind = "complete")
  <2>1. \A c \in Contents : Exports'[c] = IF c = s.content THEN new ELSE Exports[c]
    BY <1>2, <1>3, <1>6
  <2>2. Exports' = [Exports EXCEPT ![s.content] = new]
    <3> HIDE DEF new
    <3> QED
      BY <1>1, <1>4, <2>1
  <2> QED
    BY <1>3, <1>6, <2>2
<1> QED
  BY <1>1, <1>5, <1>6, StatementMaps

(* The reports of one instance, of the others, and of late statements.     *)
Own(i) == IF Reporting(i) THEN {ReportOf(i)} ELSE {}
OfOthers(i) == {ReportOf(j) : j \in {k \in Instances \ {i} : Reporting(k)}}
Late == {LateReport(s) : s \in {l \in limbo : l.kind # "renew"}}

LEMMA ReportsSplit ==
  ASSUME NEW i \in Instances
  PROVE  Reports = Own(i) \cup OfOthers(i) \cup Late
BY DEF Reports, Own, OfOthers, Late

LEMMA OthersStay ==
  ASSUME NEW i \in Instances, \A j \in Instances \ {i} : UNCHANGED <<pc[j], claim[j]>>
  PROVE  OfOthers(i)' = OfOthers(i)
BY DEF OfOthers, ReportOf, Reporting

LEMMA LateStays ==
  ASSUME \A s : s.kind # "renew" => (s \in limbo' <=> s \in limbo)
  PROVE  Late' = Late
BY DEF Late, LateReport

(* The token of a claim is in no report but its own.                       *)
LEMMA OthersDiffer ==
  ASSUME Shape, Reported, NEW i \in Instances, HasClaim(i)
  PROVE  \A r \in OfOthers(i) \cup Late : r.token # claim[i].token
<1>1. \A j \in Instances \ {i} : Reporting(j) => claim[j].token # claim[i].token
  BY DEF Reported, OwnToken, Reporting, Shape, ClaimIsHeld
<1>2. \A r \in OfOthers(i) : r.token # claim[i].token
  BY <1>1 DEF OfOthers, ReportOf
<1>3. \A r \in Late : r.token # claim[i].token
  BY DEF Late, LateReport, Reported, OneReport
<1> QED
  BY <1>2, <1>3

-----------------------------------------------------------------------------
(* The steps of the promise, as the queue takes them.                      *)
Stutters == UNCHANGED <<Exports, Reports, delivered>>
Maps == [Promise!Next]_(Promise!vars)

LEMMA StutterMaps ==
  ASSUME Stutters PROVE Maps
BY DEF Stutters, Maps, Promise!vars, Exports

LEMMA DropMaps ==
  ASSUME NEW r \in Reports, Reports' = Reports \ {r}, UNCHANGED <<Exports, delivered>>
  PROVE  Maps
BY DEF Maps, Promise!Next, Promise!Drop, Exports

LEMMA SettleMaps ==
  ASSUME NEW r \in Reports, Reports' = Reports \ {r}, UNCHANGED delivered,
         Exports[r.content].state = "open", Exports[r.content].holder = r.token,
         Exports' = [Exports EXCEPT ![r.content] = Promise!Outcome(@, r.ok)]
  PROVE  Maps
BY DEF Maps, Promise!Next, Promise!Settle, Exports

LEMMA DeliverMaps ==
  ASSUME NEW c \in Contents, NEW token \in Tokens, NEW ok \in BOOLEAN,
         Exports[c].state # "none", UNCHANGED Exports,
         delivered' = IF ok THEN delivered \cup {c} ELSE delivered,
         \/ UNCHANGED Reports
         \/ /\ \A r \in Reports : r.token # token
            /\ Reports' = Reports \cup {[content |-> c, token |-> token, ok |-> ok]}
  PROVE  Maps
BY DEF Maps, Promise!Next, Promise!Deliver, Exports

(* Statuses that do not change, or only within those that are open, show   *)
(* as no change.                                                           *)
LEMMA RowsSame ==
  ASSUME \A c \in Contents : ExportOf(rows'[c]) = ExportOf(rows[c])
  PROVE  UNCHANGED Exports
BY DEF Exports

LEMMA StoreContentsMaps ==
  ASSUME Shape, Reported, NEW c \in Contents, StoreContents(c)
  PROVE  Maps
<1>1. rows[c] = Absent /\ rows' = [rows EXCEPT ![c] = Stored]
      /\ UNCHANGED <<pc, claim, limbo, delivered>>
  BY DEF StoreContents, instanceVars
<1>2. UNCHANGED Reports
  BY <1>1 DEF Reports, Reporting, ReportOf, LateReport
<1>3. /\ ExportOf(Absent) = [state |-> "none", attempts |-> 0, holder |-> Nobody]
      /\ ExportOf(Stored) = [state |-> "open", attempts |-> 0, holder |-> Nobody]
  BY DEF ExportOf, Absent, Stored
<1>4. Exports[c].state = "none" /\ Exports' = [Exports EXCEPT ![c].state = "open"]
  <2>1. \A d \in Contents : Exports'[d] = IF d = c THEN ExportOf(Stored) ELSE Exports[d]
    BY <1>1 DEF Exports, Shape, TypeOK
  <2>2. Exports[c] = ExportOf(Absent)
    BY <1>1 DEF Exports
  <2>3. Exports = [d \in Contents |-> Exports[d]] /\ Exports' = [d \in Contents |-> Exports'[d]]
    BY DEF Exports
  <2>4. [Exports[c] EXCEPT !.state = "open"] = ExportOf(Stored)
    BY <1>3, <2>2
  <2> QED
    BY <1>3, <2>1, <2>2, <2>3, <2>4
<1>5. Promise!Store(c)
  BY <1>1, <1>2, <1>4 DEF Promise!Store, Exports
<1> QED
  BY <1>5 DEF Maps, Promise!Next

LEMMA TimeMaps ==
  ASSUME Shape, Tick \/ \E c \in Contents : RetryFallsDue(c)
  PROVE  Maps
<1>1. UNCHANGED <<pc, claim, limbo, delivered>>
  BY DEF Tick, RetryFallsDue, instanceVars
<1>2. \A c \in Contents : rows[c] \in Row0
  BY DEF Shape, TypeOK
<1>3. \A c \in Contents : ExportOf(rows'[c]) = ExportOf(rows[c])
  <2>1. \A c \in Contents : /\ rows'[c].status = rows[c].status
                            /\ rows'[c].attempts = rows[c].attempts
                            /\ rows'[c].owner = rows[c].owner
    BY <1>2 DEF Tick, RetryFallsDue, Shape, TypeOK, Row0
  <2> QED
    BY <2>1 DEF ExportOf
<1>4. UNCHANGED Reports
  BY <1>1 DEF Reports, Reporting, ReportOf, LateReport
<1> QED
  BY <1>1, <1>3, <1>4, RowsSame, StutterMaps DEF Stutters

LEMMA ClaimMaps ==
  ASSUME Shape, Reported, NEW i \in Instances, Claim(i)
  PROVE  Maps
<1> DEFINE token == CHOOSE t \in FreshTokens(i) : TRUE
<1>1. token \in FreshTokens(i) /\ pc[i] = "idle" /\ UNCHANGED <<limbo, delivered>>
  BY DEF Claim
<1>2. PICK c \in Contents : Claimable(rows[c]) /\ rows' = [rows EXCEPT ![c] = ClaimBy(@, token)]
  BY DEF Claim
<1>3. /\ \A j \in Instances \ {i} : UNCHANGED <<pc[j], claim[j]>>
      /\ ~Reporting(i) /\ ~Reporting(i)'
  BY DEF Claim, Goto, Reporting, Shape, TypeOK
<1> HIDE DEF token
<1>4. UNCHANGED Reports
  <2>1. Late' = Late
    BY <1>1, LateStays
  <2>2. Own(i) = {} /\ Own(i)' = {}
    BY <1>3 DEF Own
  <2>3. Reports' = Own(i)' \cup OfOthers(i)' \cup Late'
    BY DEF Reports, Own, OfOthers, Late
  <2> QED
    BY <1>3, <2>1, <2>2, <2>3, OthersStay, ReportsSplit
<1>5. /\ token \in Tokens
      /\ \A d \in Contents : rows[d].owner # token
      /\ \A j \in Instances : claim[j].token # token
      /\ \A s \in limbo : s.token # token
  BY <1>1 DEF FreshTokens, UsedTokens
<1>6. \A r \in Reports : r.token # token
  BY <1>5 DEF Reports, ReportOf, LateReport
<1>7. \A d \in Contents : Exports[d].holder # token
  BY <1>5 DEF Exports, ExportOf
<1>8. Exports[c].state = "open" /\ Exports' = [Exports EXCEPT ![c].holder = token]
  <2>1. rows[c].status \in {"pending", "retry", "processing"} /\ rows[c] \in Row0
    BY <1>2 DEF Claimable, Shape, TypeOK
  <2>2. /\ ExportOf(rows[c]).state = "open"
        /\ ExportOf(ClaimBy(rows[c], token)) = [ExportOf(rows[c]) EXCEPT !.holder = token]
    BY <2>1 DEF ExportOf, ClaimBy, Row0
  <2>3. \A d \in Contents :
          Exports'[d] = IF d = c THEN ExportOf(ClaimBy(rows[c], token)) ELSE Exports[d]
    BY <1>2 DEF Exports, Shape, TypeOK
  <2>4. Exports[c] = ExportOf(rows[c])
    BY DEF Exports
  <2>5. Exports = [d \in Contents |-> Exports[d]] /\ Exports' = [d \in Contents |-> Exports'[d]]
    BY DEF Exports
  <2> QED
    BY <2>2, <2>3, <2>4, <2>5
<1>9. Promise!Take(c, token)
  BY <1>1, <1>4, <1>6, <1>7, <1>8 DEF Promise!Take, Exports
<1> QED
  BY <1>5, <1>9 DEF Maps, Promise!Next

-----------------------------------------------------------------------------
(* The steps of an instance.                                               *)
Alone(i) == \A j \in Instances \ {i} : UNCHANGED <<pc[j], claim[j]>>
OnlyRenewals == \A s : s.kind # "renew" => (s \in limbo' <=> s \in limbo)
RowsRenewed == UNCHANGED rows \/ \E s \in Statement : s.kind = "renew" /\ Execute(s)

LEMMA ReportsNext ==
  ASSUME NEW i \in Instances, Alone(i), OnlyRenewals
  PROVE  Reports' = Own(i)' \cup OfOthers(i) \cup Late
<1>1. Reports' = Own(i)' \cup OfOthers(i)' \cup Late'
  BY DEF Reports, Own, OfOthers, Late
<1> QED
  BY <1>1, OthersStay, LateStays DEF Alone, OnlyRenewals

LEMMA RenewalsDoNotShow ==
  ASSUME Shape, RowsRenewed
  PROVE  UNCHANGED Exports
BY ExecuteMaps DEF RowsRenewed, Exports

(* A step of an instance that neither ends a delivery nor settles one.     *)
LEMMA QuietMaps ==
  ASSUME Shape, NEW i \in Instances, Alone(i), OnlyRenewals, RowsRenewed,
         Own(i)' = Own(i), UNCHANGED delivered
  PROVE  Maps
BY ReportsNext, ReportsSplit, RenewalsDoNotShow, StutterMaps DEF Stutters

(* One that gives its report up.                                           *)
LEMMA ForgetMaps ==
  ASSUME Shape, Reported, NEW i \in Instances, Reporting(i), Alone(i), OnlyRenewals,
         UNCHANGED <<rows, delivered>>, ~Reporting(i)'
  PROVE  Maps
<1>1. HasClaim(i)
  BY DEF Reporting, Shape, ClaimIsHeld
<1>2. ReportOf(i).token = claim[i].token
  BY DEF ReportOf
<1>3. Own(i) = {ReportOf(i)} /\ Own(i)' = {}
  BY DEF Own
<1>4. Reports' = Reports \ {ReportOf(i)} /\ ReportOf(i) \in Reports
  BY <1>1, <1>2, <1>3, ReportsNext, ReportsSplit, OthersDiffer
<1> QED
  BY <1>4, DropMaps DEF Exports

LEMMA RenewalIsSent ==
  ASSUME Shape, NEW i \in Instances, pc[i] \in {"claimed", "delivering"}
  PROVE  Sent(i, "renew") \in Statement /\ Sent(i, "renew").kind = "renew"
<1>1. HasClaim(i)
  BY DEF Shape, ClaimIsHeld
<1> QED
  BY <1>1, SentIsStatement DEF Shape, Sent

LEMMA RenewClaimMaps ==
  ASSUME Shape, NEW i \in Instances, RenewClaim(i)
  PROVE  Maps
<1>1. pc[i] = "claimed" /\ UNCHANGED delivered
  BY DEF RenewClaim
<1>2. Alone(i) /\ ~Reporting(i) /\ ~Reporting(i)'
  BY DEF RenewClaim, Alone, Reporting, Idle, Leave, Goto, Shape, TypeOK
<1>3. OnlyRenewals /\ RowsRenewed
  BY <1>1, RenewalIsSent DEF RenewClaim, Unanswered, OnlyRenewals, RowsRenewed
<1> QED
  BY <1>1, <1>2, <1>3, QuietMaps DEF Own

LEMMA HeartbeatMaps ==
  ASSUME Shape, NEW i \in Instances, Heartbeat(i)
  PROVE  Maps
<1>1. pc[i] = "delivering" /\ UNCHANGED delivered
  BY DEF Heartbeat
<1>2. Alone(i) /\ ~Reporting(i) /\ ~Reporting(i)'
  BY DEF Heartbeat, Alone, Reporting, Goto, Shape, TypeOK
<1>3. OnlyRenewals /\ RowsRenewed
  BY <1>1, RenewalIsSent DEF Heartbeat, Unanswered, OnlyRenewals, RowsRenewed
<1> QED
  BY <1>1, <1>2, <1>3, QuietMaps DEF Own

LEMMA ProcessMaps ==
  ASSUME Shape, Reported, NEW i \in Instances,
         BeginOperation(i) \/ Stop(i) \/ StopReturns(i) \/ End(i) \/ Restart(i)
  PROVE  Maps
<1>1. CASE BeginOperation(i) \/ Restart(i)
  <2>1. /\ Alone(i) /\ ~Reporting(i) /\ ~Reporting(i)'
        /\ UNCHANGED <<rows, limbo, delivered>>
    BY <1>1 DEF BeginOperation, Restart, Alone, Reporting, Leave, Goto, Shape, TypeOK
  <2> QED
    BY <2>1, QuietMaps DEF Own, OnlyRenewals, RowsRenewed
<1>2. CASE Stop(i)
  <2>1. Alone(i) /\ UNCHANGED <<claim, rows, delivered>>
    BY <1>2 DEF Stop, Alone, MayCutRenewal, Unanswered, Goto, Shape, TypeOK
  <2>2. Own(i)' = Own(i)
    BY <1>2, <2>1 DEF Stop, Own, Reporting, ReportOf, Goto, Shape, TypeOK
  <2>3. OnlyRenewals
    BY <1>2, RenewalIsSent DEF Stop, MayCutRenewal, Unanswered, OnlyRenewals
  <2> QED
    BY <2>1, <2>2, <2>3, QuietMaps DEF RowsRenewed
<1>3. CASE StopReturns(i)
  <2>1. Alone(i) /\ UNCHANGED <<pc, claim, rows, limbo, delivered>>
    BY <1>3 DEF StopReturns, Alone
  <2>2. Own(i)' = Own(i)
    BY <2>1 DEF Own, Reporting, ReportOf
  <2> QED
    BY <2>1, <2>2, QuietMaps DEF OnlyRenewals, RowsRenewed
<1>4. CASE End(i)
  <2>1. Alone(i) /\ ~Reporting(i)' /\ UNCHANGED <<rows, limbo, delivered>>
    BY <1>4 DEF End, Alone, Reporting, Leave, Goto, Shape, TypeOK
  <2>2. CASE Reporting(i)
    BY <2>1, <2>2, ForgetMaps DEF OnlyRenewals
  <2>3. CASE ~Reporting(i)
    BY <2>1, <2>3, QuietMaps DEF Own, OnlyRenewals, RowsRenewed
  <2> QED
    BY <2>2, <2>3
<1> QED
  BY <1>1, <1>2, <1>3, <1>4

LEMMA FailReadsMaps ==
  ASSUME Shape, Reported, NEW i \in Instances, FailReads(i)
  PROVE  Maps
<1>1. /\ pc[i] = "undelivered" /\ Reporting(i)
      /\ Alone(i) /\ UNCHANGED <<rows, limbo, delivered>>
  BY DEF FailReads, Alone, Reporting, Idle, Leave, Goto, Shape, TypeOK
<1>2. \/ Goto(i, "failing") /\ UNCHANGED claim
      \/ Idle(i)
  BY DEF FailReads
<1>3. CASE Goto(i, "failing") /\ UNCHANGED claim
  <2>1. Own(i)' = Own(i)
    BY <1>1, <1>3 DEF Own, Reporting, ReportOf, Goto, Shape, TypeOK
  <2> QED
    BY <1>1, <2>1, QuietMaps DEF OnlyRenewals, RowsRenewed
<1>4. CASE Idle(i)
  <2>1. ~Reporting(i)'
    BY <1>4 DEF Reporting, Idle, Leave, Goto, Shape, TypeOK
  <2> QED
    BY <1>1, <2>1, ForgetMaps DEF OnlyRenewals
<1> QED
  BY <1>2, <1>3, <1>4

(* The end of a delivery: its outcome becomes a report, unless the claim   *)
(* is lost.                                                                *)
LEMMA DeliverReturnsMaps ==
  ASSUME Shape, Reported, NEW i \in Instances, NEW ok \in BOOLEAN, DeliverReturns(i, ok)
  PROVE  Maps
<1>1. /\ pc[i] \in {"delivering", "cancelled", "lost"} /\ HasClaim(i) /\ ~Reporting(i)
      /\ claim[i].content \in Contents /\ claim[i].token \in Tokens
      /\ delivered' = IF ok THEN delivered \cup {claim[i].content} ELSE delivered
  BY DEF DeliverReturns, Shape, ClaimIsHeld, HasClaim, Reporting
<1>2. Alone(i) /\ UNCHANGED rows
  BY DEF DeliverReturns, MayCutRenewal, Unanswered, Alone, Idle, Leave, Goto, Shape, TypeOK
<1>3. OnlyRenewals
  BY RenewalIsSent DEF DeliverReturns, MayCutRenewal, Unanswered, OnlyRenewals
<1>4. Exports[claim[i].content].state # "none" /\ UNCHANGED Exports
  <2>1. rows[claim[i].content].status # "none"
    BY <1>1 DEF Reported, ClaimedIsStored
  <2> QED
    BY <1>1, <1>2, <2>1 DEF Exports, ExportOf
<1>5. Reports = {} \cup OfOthers(i) \cup Late
  BY <1>1, ReportsSplit DEF Own
<1>6. CASE pc[i] = "lost"
  <2>1. ~Reporting(i)'
    BY <1>6 DEF DeliverReturns, Reporting, Idle, Leave, Goto, Shape, TypeOK
  <2>2. UNCHANGED Reports
    BY <1>2, <1>3, <1>5, <2>1, ReportsNext DEF Own
  <2> QED
    BY <1>1, <1>4, <2>2, DeliverMaps
<1>7. CASE pc[i] # "lost"
  <2>1. UNCHANGED claim /\ pc'[i] = Verdict(ok, pc[i])
    BY <1>7 DEF DeliverReturns, Goto, Shape, TypeOK
  <2>2. Own(i)' = {[content |-> claim[i].content, token |-> claim[i].token, ok |-> ok]}
    BY <2>1 DEF Own, Reporting, ReportOf, Verdict
  <2>3. Reports' = Reports \cup {[content |-> claim[i].content, token |-> claim[i].token, ok |-> ok]}
    BY <1>2, <1>3, <1>5, <2>2, ReportsNext
  <2>4. \A r \in Reports : r.token # claim[i].token
    BY <1>1, <1>5, OthersDiffer
  <2> QED
    BY <1>1, <1>4, <2>3, <2>4, DeliverMaps
<1> QED
  BY <1>6, <1>7

(* A statement for a report, executed.                                     *)
LEMMA OutcomeMaps ==
  ASSUME Shape, NEW s \in Statement, s.kind # "renew", Execute(s), LateReport(s) \in Reports,
         Reports' = Reports \ {LateReport(s)}, UNCHANGED delivered
  PROVE  Maps
<1>1. LateReport(s).content = s.content /\ LateReport(s).token = s.token
      /\ LateReport(s).ok = (s.kind = "complete")
  BY DEF LateReport
<1>2. CASE UNCHANGED Exports
  BY <1>2, DropMaps
<1>3. CASE /\ Exports[s.content].state = "open" /\ Exports[s.content].holder = s.token
           /\ Exports' = [Exports EXCEPT ![s.content] = Promise!Outcome(@, s.kind = "complete")]
  BY <1>1, <1>3, SettleMaps
<1> QED
  BY <1>2, <1>3, ExecuteMaps

LEMMA SettlingMaps ==
  ASSUME Shape, Reported, NEW i \in Instances, Settle(i)
  PROVE  Maps
<1> DEFINE s == Sent(i, IF pc[i] = "delivered" THEN "complete" ELSE "fail")
<1>1. /\ pc[i] \in {"delivered", "failing"} /\ Reporting(i) /\ HasClaim(i)
      /\ Idle(i) /\ UNCHANGED delivered
      /\ (Execute(s) /\ UNCHANGED limbo) \/ (UNCHANGED rows /\ limbo' = limbo \cup {s})
  BY DEF Settle, Unanswered, Reporting, Shape, ClaimIsHeld
<1>2. s \in Statement /\ s.kind # "renew"
  <2>1. Sent(i, "complete") \in Statement /\ Sent(i, "fail") \in Statement
    BY <1>1, SentIsStatement DEF Shape
  <2> QED
    BY <2>1 DEF Sent
<1>3. LateReport(s) = ReportOf(i) /\ ReportOf(i).token = claim[i].token
  BY DEF LateReport, ReportOf, Sent
<1> HIDE DEF s
<1>4. Alone(i) /\ ~Reporting(i)'
  BY <1>1 DEF Alone, Reporting, Idle, Leave, Goto, Shape, TypeOK
<1>5. Own(i) = {ReportOf(i)} /\ Own(i)' = {}
  BY <1>1, <1>4 DEF Own
<1>6. CASE Execute(s) /\ UNCHANGED limbo
  <2>1. Reports' = Reports \ {ReportOf(i)} /\ ReportOf(i) \in Reports
    BY <1>1, <1>3, <1>4, <1>5, <1>6, ReportsNext, ReportsSplit, OthersDiffer DEF OnlyRenewals
  <2> QED
    BY <1>1, <1>2, <1>3, <1>6, <2>1, OutcomeMaps
<1>7. CASE UNCHANGED rows /\ limbo' = limbo \cup {s}
  <2>1. Late' = Late \cup {ReportOf(i)}
    BY <1>2, <1>3, <1>7 DEF Late, LateReport
  <2>2. Reports' = Own(i)' \cup OfOthers(i)' \cup Late'
    BY DEF Reports, Own, OfOthers, Late
  <2>3. UNCHANGED Reports
    BY <1>4, <1>5, <2>1, <2>2, OthersStay, ReportsSplit DEF Alone
  <2> QED
    BY <1>1, <1>7, <2>3, StutterMaps DEF Stutters, Exports
<1> QED
  BY <1>1, <1>6, <1>7

LEMMA LateStatementMaps ==
  ASSUME Shape, Reported, NEW s \in limbo, LateStatement(s)
  PROVE  Maps
<1>1. /\ s \in Statement /\ Execute(s) /\ limbo' = limbo \ {s}
      /\ UNCHANGED <<pc, claim, delivered>>
  BY DEF LateStatement, instanceVars, Shape, TypeOK
<1> DEFINE Held == {ReportOf(i) : i \in {j \in Instances : Reporting(j)}}
<1>2. Reports = Held \cup Late /\ Reports' = Held' \cup Late' /\ Held' = Held
  BY <1>1 DEF Reports, Late, Reporting, ReportOf
<1>3. CASE s.kind = "renew"
  <2>1. Late' = Late
    BY <1>1, <1>3, LateStays
  <2>2. UNCHANGED Exports
    BY <1>1, <1>3, RenewalsDoNotShow DEF RowsRenewed
  <2> QED
    BY <1>1, <1>2, <2>1, <2>2, StutterMaps DEF Stutters
<1>4. CASE s.kind # "renew"
  <2>1. LateReport(s).token = s.token /\ LateReport(s) \in Late
    BY <1>4 DEF LateReport, Late
  <2>2. \A r \in Held : r.token # s.token
    <3>1. \A i \in Instances : Reporting(i) => s.token # claim[i].token
      BY <1>4 DEF Reported, OneReport, Reporting, Shape, ClaimIsHeld
    <3> QED
      BY <3>1 DEF ReportOf
  <2>3. Late' = Late \ {LateReport(s)}
    <3>1. \A l \in limbo : l.kind # "renew" /\ LateReport(l) = LateReport(s) => l = s
      BY <1>4 DEF LateReport, Reported, OneReport
    <3> QED
      BY <1>1, <1>4, <3>1 DEF Late, LateReport
  <2> HIDE DEF Held
  <2>4. Reports' = Reports \ {LateReport(s)} /\ LateReport(s) \in Reports
    BY <1>2, <2>1, <2>2, <2>3
  <2> QED
    BY <1>1, <1>4, <2>4, OutcomeMaps
<1> QED
  BY <1>3, <1>4

LEMMA NextMaps ==
  ASSUME Shape, Reported, [Next]_vars
  PROVE  Maps
<1>1. CASE UNCHANGED vars
  BY <1>1, StutterMaps DEF vars, Stutters, Exports, Reports, Reporting, ReportOf, LateReport
<1> QED
  BY <1>1, StoreContentsMaps, TimeMaps, ClaimMaps, RenewClaimMaps, HeartbeatMaps, ProcessMaps,
     FailReadsMaps, DeliverReturnsMaps, SettlingMaps, LateStatementMaps
     DEF Next, Batch, Delivery

-----------------------------------------------------------------------------
(* A claim is new, or it was there before.                                 *)
LEMMA ClaimsNext ==
  ASSUME Shape, [Next]_vars, NEW j \in Instances, HasClaim(j)'
  PROVE  \/ HasClaim(j) /\ claim'[j] = claim[j]
         \/ /\ limbo' = limbo /\ \A s \in limbo : s.token # claim'[j].token
            /\ rows[claim'[j].content].status # "none"
<1> USE DEF HasClaim
<1> DEFINE Old == HasClaim(j) /\ claim'[j] = claim[j]
           New == /\ limbo' = limbo /\ \A s \in limbo : s.token # claim'[j].token
                  /\ rows[claim'[j].content].status # "none"
<1>1. CASE UNCHANGED claim
  BY <1>1
<1>2. ASSUME NEW i \in Instances, Claim(i), ~UNCHANGED claim PROVE Old \/ New
  <2> DEFINE token == CHOOSE t \in FreshTokens(i) : TRUE
  <2>1. token \in FreshTokens(i) /\ limbo' = limbo
    BY <1>2 DEF Claim
  <2>2. PICK c \in Contents :
          Claimable(rows[c]) /\ claim' = [claim EXCEPT ![i] = [content |-> c, token |-> token]]
    BY <1>2 DEF Claim
  <2> HIDE DEF token
  <2>3. \A s \in limbo : s.token # token
    BY <2>1 DEF FreshTokens, UsedTokens
  <2>4. rows[c].status # "none"
    BY <2>2 DEF Claimable
  <2> QED
    BY <2>1, <2>2, <2>3, <2>4 DEF Shape, TypeOK
<1>3. ASSUME NEW i \in Instances, claim' = [claim EXCEPT ![i] = NoClaim] PROVE Old \/ New
  <2>1. NoClaim \notin [content : Contents, token : Tokens]
    BY ExportQueueAssumption DEF NoClaim
  <2> QED
    BY <1>3, <2>1 DEF Shape, TypeOK
<1>4. UNCHANGED claim \/ \E i \in Instances : Claim(i) \/ claim' = [claim EXCEPT ![i] = NoClaim]
  <2>1. CASE Next
    BY <2>1 DEF Next, Batch, Delivery, StoreContents, RetryFallsDue, LateStatement, Tick, instanceVars,
       RenewClaim, BeginOperation, Heartbeat, DeliverReturns, FailReads, Settle, Stop, StopReturns, End,
       Restart, Idle, Leave
  <2> QED
    BY <2>1 DEF vars
<1> QED
  BY <1>1, <1>2, <1>3, <1>4

(* An outcome that has become late is that of a claim given up with it.    *)
LEMMA LimboNext ==
  ASSUME Shape, [Next]_vars, NEW s \in limbo', s.kind # "renew"
  PROVE  \/ s \in limbo
         \/ \E i \in Instances : /\ HasClaim(i) /\ ~HasClaim(i)'
                                 /\ s.token = claim[i].token /\ limbo' = limbo \cup {s}
<1> DEFINE GivenUp(i) == /\ HasClaim(i) /\ ~HasClaim(i)'
                         /\ s.token = claim[i].token /\ limbo' = limbo \cup {s}
<1>1. ASSUME NEW i \in Instances, Settle(i) PROVE s \in limbo \/ GivenUp(i)
  <2>1. HasClaim(i) /\ ~HasClaim(i)'
    <3>1. NoClaim \notin [content : Contents, token : Tokens]
      BY ExportQueueAssumption DEF NoClaim
    <3> QED
      BY <1>1, <3>1 DEF Settle, Shape, ClaimIsHeld, HasClaim, Idle, Leave, Goto, TypeOK
  <2>2. UNCHANGED limbo \/ \E kind : limbo' = limbo \cup {Sent(i, kind)}
    BY <1>1 DEF Settle, Unanswered
  <2> QED
    BY <2>1, <2>2 DEF Sent
<1>2. CASE limbo' \subseteq limbo
  BY <1>2
<1>3. ASSUME NEW i \in Instances, limbo' = limbo \cup {Sent(i, "renew")} PROVE s \in limbo
  BY <1>3 DEF Sent
<1>4. \/ limbo' \subseteq limbo
      \/ \E i \in Instances : Settle(i) \/ limbo' = limbo \cup {Sent(i, "renew")}
  <2>1. CASE Next
    BY <2>1 DEF Next, Batch, Delivery, StoreContents, RetryFallsDue, LateStatement, Tick, Claim,
       RenewClaim, BeginOperation, Heartbeat, DeliverReturns, FailReads, Stop, StopReturns, End,
       Restart, MayCutRenewal, Unanswered
  <2> QED
    BY <2>1 DEF vars
<1> QED
  BY <1>1, <1>2, <1>3, <1>4

LEMMA OneReportKept ==
  ASSUME Shape, Reported, [Next]_vars
  PROVE  OneReport'
<1>1. ASSUME NEW j \in Instances, HasClaim(j)', NEW s \in limbo', s.kind # "renew"
      PROVE  s.token # claim'[j].token
  <2>1. CASE s \in limbo
    BY <1>1, <2>1, ClaimsNext DEF Reported, OneReport
  <2>2. ASSUME NEW i \in Instances, HasClaim(i), ~HasClaim(i)', s.token = claim[i].token,
               limbo' = limbo \cup {s}
        PROVE  s.token # claim'[j].token
    BY <1>1, <2>1, <2>2, ClaimsNext DEF Reported, OwnToken
  <2> QED
    BY <1>1, <2>1, <2>2, LimboNext
<1>2. ASSUME NEW s \in limbo', NEW l \in limbo', s.kind # "renew", l.kind # "renew", s.token = l.token
      PROVE  s = l
  <2>1. ASSUME NEW x, NEW y \in limbo, y.kind # "renew", x.token = y.token, NEW i \in Instances,
               HasClaim(i), x.token = claim[i].token
        PROVE  FALSE
    BY <2>1 DEF Reported, OneReport
  <2>2. CASE s \in limbo /\ l \in limbo
    BY <1>2, <2>2 DEF Reported, OneReport
  <2> QED
    BY <1>2, <2>1, <2>2, LimboNext
<1> QED
  BY <1>1, <1>2 DEF OneReport

(* What has been stored stays so: the promise says that much already.      *)
LEMMA StoredStays ==
  ASSUME Maps, NEW c \in Contents, rows[c].status # "none"
  PROVE  rows'[c].status # "none"
<1>1. Exports[c].state # "none"
  BY DEF Exports, ExportOf
<1>2. Exports = [d \in Contents |-> ExportOf(rows[d])]
  BY DEF Exports
<1>3. Exports'[c].state # "none"
  <2>1. CASE UNCHANGED Exports
    BY <1>1, <2>1
  <2>2. ASSUME NEW d \in Contents, Exports' = [Exports EXCEPT ![d].state = "open"] PROVE Exports'[c].state # "none"
    BY <1>1, <1>2, <2>2 DEF ExportOf
  <2>3. ASSUME NEW d \in Contents, NEW token, Exports' = [Exports EXCEPT ![d].holder = token] PROVE Exports'[c].state # "none"
    BY <1>1, <1>2, <2>3 DEF ExportOf
  <2>4. ASSUME NEW d, NEW e, NEW ok, Exports' = [Exports EXCEPT ![d] = Promise!Outcome(e, ok)] PROVE Exports'[c].state # "none"
    BY <1>1, <1>2, <2>4 DEF Promise!Outcome
  <2>5. ASSUME NEW d \in Contents, Promise!Store(d) PROVE Exports'[c].state # "none"
    BY <2>2, <2>5 DEF Promise!Store, Exports
  <2>6. ASSUME NEW d \in Contents, NEW t \in Tokens, Promise!Take(d, t)
        PROVE  Exports'[c].state # "none"
    BY <2>3, <2>6 DEF Promise!Take, Exports
  <2>7. ASSUME NEW d \in Contents, NEW ok \in BOOLEAN, Promise!Deliver(d, ok)
        PROVE  Exports'[c].state # "none"
    BY <2>1, <2>7 DEF Promise!Deliver, Exports
  <2>8. ASSUME NEW r \in Reports, Promise!Settle(r) \/ Promise!Drop(r)
        PROVE  Exports'[c].state # "none"
    BY <2>1, <2>4, <2>8 DEF Promise!Settle, Promise!Drop, Exports
  <2>9. CASE UNCHANGED Promise!vars
    BY <2>1, <2>9 DEF Promise!vars, Exports
  <2> QED
    BY <2>5, <2>6, <2>7, <2>8, <2>9 DEF Maps, Promise!Next
<1>4. Exports'[c].state = "none" <=> rows'[c].status = "none"
  BY DEF Exports, ExportOf
<1> QED
  BY <1>3, <1>4

LEMMA NextReported ==
  ASSUME Shape, Shape', Reported, [Next]_vars
  PROVE  Reported'
<1>1. ASSUME NEW j \in Instances, HasClaim(j)' PROVE rows'[claim'[j].content].status # "none"
  <2>1. claim'[j].content \in Contents
    BY <1>1 DEF HasClaim
  <2>2. rows[claim'[j].content].status # "none"
    BY <1>1, ClaimsNext DEF Reported, ClaimedIsStored
  <2> QED
    BY <2>1, <2>2, NextMaps, StoredStays
<1> QED
  BY <1>1, OneReportKept, OwnTokenKept DEF Reported, ClaimedIsStored

(* What the exporter does with leases, heartbeats, several instances and   *)
(* statements that arrive late is what ExportPromise allows: an outcome is *)
(* recorded once and under the current claim, it is final, a synced        *)
(* content has been delivered, and a failed delivery costs at most one     *)
(* attempt.                                                                *)
THEOREM ExportsAsPromisedHolds == Spec => ExportsAsPromised
<1>1. Init => Reported
  <2>1. ASSUME Init PROVE \A i \in Instances : ~HasClaim(i)
    BY <2>1, ExportQueueAssumption DEF Init, HasClaim, NoClaim
  <2>2. ASSUME Init PROVE limbo = {} /\ \A i \in Instances : ~Works(i)
    BY <2>2 DEF Init, Works
  <2> QED
    BY <2>1, <2>2 DEF Reported, OwnToken, OneReport, ClaimedIsStored
<1>2. Init => Promise!Init
  <2>1. ExportOf(Absent) = [state |-> "none", attempts |-> 0, holder |-> Nobody]
    BY DEF ExportOf, Absent
  <2> QED
    BY <2>1 DEF Init, Promise!Init, Reports, Reporting
<1>3. Shape /\ Shape' /\ Reported /\ [Next]_vars => Reported'
  BY NextReported
<1>4. Shape /\ Reported /\ [Next]_vars => [Promise!Next]_(Promise!vars)
  BY NextMaps DEF Maps
<1> QED
  BY QueueShape, <1>1, <1>2, <1>3, <1>4, PTL DEF Spec, ExportsAsPromised, Promise!Spec

=============================================================================
