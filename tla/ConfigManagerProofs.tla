------------------------ MODULE ConfigManagerProofs ------------------------
(***************************************************************************)
(* Proofs about ConfigManager, for any finite set of files, any            *)
(* definitions and any number of changes of the directory.  The rounds of  *)
(* resolveDuplicateConflicts are the core: a file that has its last good   *)
(* definition never loses again, so each file moves at most once.          *)
(***************************************************************************)
EXTENDS ConfigManager, FiniteSetTheorems, WellFoundedInduction, TLAPS

-----------------------------------------------------------------------------
(* Small sets.                                                             *)
LEMMA Counts ==
  ASSUME NEW S, IsFiniteSet(S)
  PROVE  /\ Cardinality(S) \in Nat
         /\ Cardinality(S) > 0 <=> S # {}
         /\ Cardinality(S) = 1 <=> \E p \in S : S = {p}
         /\ Cardinality(S) > 1 <=> \E p, q \in S : p # q
<1>1. Cardinality(S) \in Nat /\ (Cardinality(S) = 0 <=> S = {})
  BY FS_CardinalityType, FS_EmptySet
<1>2. Cardinality(S) = 1 <=> \E p \in S : S = {p}
  BY FS_Singleton
<1>3. Cardinality(S) > 1 => \E p, q \in S : p # q
  BY <1>1, <1>2
<1>4. ASSUME NEW p \in S, NEW q \in S, p # q PROVE Cardinality(S) > 1
  BY <1>1, <1>2, <1>4
<1> QED
  BY <1>1, <1>2, <1>3, <1>4

(* Induction over the numbers, for a set of them.                          *)
LEMMA EveryNumber ==
  ASSUME NEW S, 0 \in S, \A n \in Nat : n \in S => n + 1 \in S
  PROVE  Nat \subseteq S
<1> SUFFICES ASSUME Nat \ S # {} PROVE FALSE
  OBVIOUS
<1>1. IsWellFoundedOn(OpToRel(<, Nat), Nat)
  BY NatLessThanWellFounded
<1>2. PICK n \in Nat \ S : \A m \in Nat \ S : <<m, n>> \notin OpToRel(<, Nat)
  BY <1>1, WFMin
<1>3. \A m \in Nat \ S : ~(m < n)
  BY <1>2 DEF OpToRel
<1>4. n - 1 \in Nat /\ n - 1 < n /\ (n - 1) + 1 = n
  OBVIOUS
<1> QED
  BY <1>3, <1>4

-----------------------------------------------------------------------------
(* What the hash of the definitions tells about them.                      *)
At(f, s) == {p \in Paths : f[p] = s}

LEMMA AtIsFinite == \A f, s : IsFiniteSet(At(f, s)) /\ Cardinality(At(f, s)) \in 0 .. Cardinality(Paths)
<1> SUFFICES ASSUME NEW f, NEW s
             PROVE  IsFiniteSet(At(f, s)) /\ Cardinality(At(f, s)) \in 0 .. Cardinality(Paths)
  OBVIOUS
<1>1. At(f, s) \in SUBSET Paths
  BY DEF At
<1> QED
  BY <1>1, ConfigManagerAssumption, FS_Subset, FS_CardinalityType

LEMMA SnapshotIsCount ==
  /\ \A f : Snapshot(f) = [s \in Scrapers |-> Cardinality(At(f, s))]
  /\ \A f : Snapshot(f) \in [Scrapers -> 0 .. Cardinality(Paths)]
  /\ \A f : Snapshot(f) # Nothing
<1>1. \A f : Snapshot(f) = [s \in Scrapers |-> Cardinality(At(f, s))]
  BY DEF Snapshot, At
<1>2. \A f : Snapshot(f) \in [Scrapers -> 0 .. Cardinality(Paths)]
  BY <1>1, AtIsFinite
<1>3. \A f : Snapshot(f) \in [Scrapers -> Nat]
  BY <1>2
<1> QED
  BY <1>1, <1>2, <1>3, ConfigManagerAssumption

LEMMA SameSnapshot ==
  ASSUME NEW f, NEW g, Snapshot(f) = Snapshot(g), NEW s \in Scrapers
  PROVE  /\ At(f, s) # {} <=> At(g, s) # {}
         /\ (\E p, q \in At(f, s) : p # q) <=> (\E p, q \in At(g, s) : p # q)
<1>1. Cardinality(At(f, s)) = Cardinality(At(g, s))
  BY SnapshotIsCount
<1>2. IsFiniteSet(At(f, s)) /\ IsFiniteSet(At(g, s))
  BY AtIsFinite
<1> QED
  BY <1>1, <1>2, Counts

(* Definitions with the hash of valid ones are valid, so that nothing has  *)
(* to be validated when only paths have changed.                           *)
LEMMA SameIsValid ==
  ASSUME NEW f \in Definitions, NEW g \in Definitions,
         Snapshot(f) = Snapshot(g), Validates(g)
  PROVE  Validates(f)
<1>0. \A p \in Holding(f) : f[p] \in Scrapers /\ p \in Paths
  BY DEF Holding, Definitions
<1>1. \A s \in Scrapers : s # Nothing
  BY ConfigManagerAssumption
<1>2. ASSUME NEW p \in Holding(f) PROVE \E q \in Holding(g) : g[q] = f[p]
  <2>1. f[p] \in Scrapers /\ p \in At(f, f[p])
    BY <1>0 DEF At
  <2>2. PICK q \in At(g, f[p]) : TRUE
    BY <2>1, SameSnapshot
  <2> QED
    BY <1>1, <2>1, <2>2 DEF At, Holding
<1>3. ASSUME NEW p \in Holding(f), NEW q \in Holding(f), p # q,
             f[p].id = f[q].id \/ f[p].name = f[q].name
      PROVE  FALSE
  <2>1. CASE f[p] = f[q]
    <3>1. f[p] \in Scrapers /\ p \in At(f, f[p]) /\ q \in At(f, f[p])
      BY <1>0, <2>1 DEF At
    <3>2. PICK u \in At(g, f[p]), v \in At(g, f[p]) : u # v
      BY <1>3, <3>1, SameSnapshot
    <3>3. u \in Holding(g) /\ v \in Holding(g) /\ g[u] = g[v]
      BY <1>1, <3>1, <3>2 DEF At, Holding
    <3> QED
      BY <3>2, <3>3 DEF Validates, Unique
  <2>2. CASE f[p] # f[q]
    <3>1. PICK u \in Holding(g) : g[u] = f[p]
      BY <1>2
    <3>2. PICK v \in Holding(g) : g[v] = f[q]
      BY <1>2
    <3> QED
      BY <1>3, <2>2, <3>1, <3>2 DEF Validates, Unique
  <2> QED
    BY <2>1, <2>2
<1>4. ASSUME NEW p \in Paths, f[p] \in Unbuildable PROVE FALSE
  <2>1. p \in Holding(f)
    BY <1>1, <1>4, ConfigManagerAssumption DEF Holding
  <2>2. PICK q \in Holding(g) : g[q] = f[p]
    BY <1>2, <2>1
  <2> QED
    BY <1>4, <2>2 DEF Validates, Holding
<1> QED
  BY <1>3, <1>4 DEF Validates, Unique

(* Nothing but the empty directory has the hash of no definitions.         *)
LEMMA SameIsEmpty ==
  ASSUME NEW f \in Definitions, Snapshot(f) = Snapshot(Empty)
  PROVE  f = Empty
<1>1. ASSUME NEW p \in Paths, f[p] # Nothing PROVE FALSE
  <2>1. f[p] \in Scrapers /\ p \in At(f, f[p])
    BY <1>1 DEF Definitions, At
  <2>2. PICK q \in At(Empty, f[p]) : TRUE
    BY <2>1, SameSnapshot
  <2> QED
    BY <1>1, <2>2 DEF At, Empty
<1> QED
  BY <1>1 DEF Definitions, Empty

-----------------------------------------------------------------------------
(* One pass over a field.                                                  *)
Peers(cand, p, field) == {q \in Paths : Same(cand[q], cand[p], field)}

LEMMA LosersAre ==
  ASSUME NEW cand, NEW last, NEW field
  PROVE  Losers(cand, last, field) =
           {p \in Holding(cand) :
              /\ Cardinality(Peers(cand, p, field)) > 1
              /\ p \notin Owner(Peers(cand, p, field), cand[p], field, last)}
BY DEF Losers, Peers

LEMMA PeersAreFinite == \A cand, p, field : IsFiniteSet(Peers(cand, p, field))
<1> SUFFICES ASSUME NEW cand, NEW p, NEW field PROVE IsFiniteSet(Peers(cand, p, field))
  OBVIOUS
<1>1. Peers(cand, p, field) \in SUBSET Paths
  BY DEF Peers
<1> QED
  BY <1>1, ConfigManagerAssumption, FS_Subset

(* A file that has its last good definition keeps it: it owns its ID and   *)
(* its name, as no other file had them.                                    *)
LEMMA LastIsNoLoser ==
  ASSUME NEW last, Unique(last), NEW cand, NEW field \in {"id", "name"},
         NEW p \in Holding(cand), cand[p] = last[p]
  PROVE  p \notin Losers(cand, last, field)
<1> DEFINE prior == {q \in Peers(cand, p, field) : Same(last[q], cand[p], field)}
<1>1. p \in Paths /\ cand[p] # Nothing
  BY DEF Holding
<1>2. p \in prior
  BY <1>1 DEF Peers, Same
<1>3. ASSUME NEW q \in prior PROVE q = p
  <2>1. q \in Holding(last) /\ p \in Holding(last)
    BY <1>1 DEF Peers, Same, Holding
  <2>2. Field(last[q], field) = Field(last[p], field)
    BY DEF Same
  <2> QED
    BY <2>1, <2>2 DEF Unique, Field
<1>4. prior = {p}
  BY <1>2, <1>3
<1>5. Owner(Peers(cand, p, field), cand[p], field, last) = {p}
  BY <1>4, FS_Singleton DEF Owner
<1> QED
  BY <1>5, LosersAre

(* The files that may still move.                                          *)
Open(cand, last) == {p \in Paths : cand[p] # Nothing /\ cand[p] # last[p]}

(* Every loser moves, to where it stays.                                   *)
LEMMA ResolveMoves ==
  ASSUME NEW last \in Definitions, Unique(last), NEW changed,
         NEW state \in Resolutions, NEW field \in {"id", "name"},
         NEW after, after = Resolve(state, changed, last, field),
         NEW losers, losers = Losers(state.cand, last, field)
  PROVE  /\ after \in Resolutions
         /\ losers \subseteq Open(state.cand, last)
         /\ Open(after.cand, last) = Open(state.cand, last) \ losers
         /\ \A p \in Paths \ losers : after.cand[p] = state.cand[p]
         /\ \A p \in losers : after.cand[p] = IF p \in changed THEN last[p] ELSE Nothing
<1>0. /\ state.cand \in Definitions /\ state.errs \subseteq Paths
      /\ losers \subseteq Holding(state.cand) /\ Holding(state.cand) \subseteq Paths
  BY LosersAre DEF Resolutions, Holding
<1>1. /\ after.cand = [p \in Paths |-> IF p \in losers THEN Fallback(p, changed, last)
                                                       ELSE state.cand[p]]
      /\ after.errs = state.errs \cup losers
      /\ after = [cand |-> after.cand, errs |-> after.errs]
  BY DEF Resolve
<1>2. after.cand \in Definitions
  BY <1>0, <1>1 DEF Fallback, Definitions
<1>3. after \in Resolutions
  BY <1>0, <1>1, <1>2 DEF Resolutions
<1>4. ASSUME NEW p \in losers PROVE p \in Open(state.cand, last)
  BY <1>0, LastIsNoLoser DEF Open, Holding
<1>5. \A p \in losers : after.cand[p] = IF p \in changed THEN last[p] ELSE Nothing
  BY <1>0, <1>1 DEF Fallback
<1>6. \A p \in Paths \ losers : after.cand[p] = state.cand[p]
  BY <1>1
<1>7. Open(after.cand, last) = Open(state.cand, last) \ losers
  BY <1>0, <1>5, <1>6 DEF Open
<1> QED
  BY <1>3, <1>4, <1>5, <1>6, <1>7

(* Without losers there is no conflict.                                    *)
LEMMA NoLosers ==
  ASSUME NEW cand, NEW last,
         \A field \in {"id", "name"} : Losers(cand, last, field) = {}
  PROVE  Unique(cand)
<1> SUFFICES ASSUME NEW p \in Holding(cand), NEW q \in Holding(cand), NEW field \in {"id", "name"},
                    Field(cand[p], field) = Field(cand[q], field), p # q
             PROVE  FALSE
  BY DEF Unique, Field
<1>1. p \in Paths /\ q \in Paths /\ cand[p] # Nothing /\ cand[q] # Nothing
  BY DEF Holding
<1>2. /\ Peers(cand, p, field) = Peers(cand, q, field)
      /\ p \in Peers(cand, p, field) /\ q \in Peers(cand, p, field)
  BY <1>1 DEF Peers, Same
<1>3. Cardinality(Peers(cand, p, field)) > 1
  BY <1>2, PeersAreFinite, Counts
<1>4. /\ p \in Owner(Peers(cand, p, field), cand[p], field, last)
      /\ q \in Owner(Peers(cand, p, field), cand[q], field, last)
  BY <1>2, <1>3, LosersAre
<1> DEFINE prior == {r \in Peers(cand, p, field) : Same(last[r], cand[p], field)}
<1>5. prior = {r \in Peers(cand, p, field) : Same(last[r], cand[q], field)}
  BY <1>1 DEF Same
<1>6. Cardinality(prior) = 1 /\ p \in prior /\ q \in prior
  BY <1>4, <1>5 DEF Owner
<1>7. IsFiniteSet(prior)
  <2>1. prior \in SUBSET Peers(cand, p, field)
    OBVIOUS
  <2> QED
    BY <2>1, PeersAreFinite, FS_Subset
<1> HIDE DEF prior
<1> QED
  BY <1>6, <1>7, Counts

(* A pass, IDs and then names, leaves fewer files that may still move, or  *)
(* nothing has moved and there is no conflict.                             *)
LEMMA PassMoves ==
  ASSUME NEW last \in Definitions, Unique(last), NEW changed,
         NEW state \in Resolutions, NEW after, after = Pass(state, changed, last)
  PROVE  /\ after \in Resolutions
         /\ Open(after.cand, last) \subseteq Open(state.cand, last)
         /\ Open(after.cand, last) = Open(state.cand, last)
              => after.cand = state.cand /\ Unique(after.cand)
<1> DEFINE mid == Resolve(state, changed, last, "id")
           ids == Losers(state.cand, last, "id")
           names == Losers(mid.cand, last, "name")
<1>1. /\ mid \in Resolutions
      /\ ids \subseteq Open(state.cand, last)
      /\ Open(mid.cand, last) = Open(state.cand, last) \ ids
      /\ \A p \in Paths \ ids : mid.cand[p] = state.cand[p]
  BY ResolveMoves
<1>2. /\ after \in Resolutions
      /\ names \subseteq Open(mid.cand, last)
      /\ Open(after.cand, last) = Open(mid.cand, last) \ names
      /\ \A p \in Paths \ names : after.cand[p] = mid.cand[p]
  BY <1>1, ResolveMoves DEF Pass
<1>3. ASSUME Open(after.cand, last) = Open(state.cand, last)
      PROVE  after.cand = state.cand /\ Unique(after.cand)
  <2>1. ids = {} /\ names = {}
    BY <1>1, <1>2, <1>3
  <2>2. mid.cand = state.cand /\ after.cand = mid.cand
    <3>1. state.cand \in Definitions /\ mid.cand \in Definitions /\ after.cand \in Definitions
      BY <1>1, <1>2 DEF Resolutions
    <3> HIDE DEF mid, ids, names
    <3> QED
      BY <1>1, <1>2, <2>1, <3>1 DEF Definitions
  <2> QED
    BY <2>1, <2>2, NoLosers
<1> QED
  BY <1>1, <1>2, <1>3

(* What the loop does, with so many passes left.                           *)
Settled(settle, left, state, changed, last) ==
  LET after == Pass(state, changed, last)
  IN CASE left = 0 -> state
       [] left > 0 /\ after.cand = state.cand -> after
       [] OTHER -> settle[<<left - 1, after>>]

IsSettle(g, n, changed, last) ==
  g = [at \in (0 .. n) \X Resolutions |-> Settled(g, at[1], at[2], changed, last)]

LEMMA SettleApplied ==
  ASSUME NEW g, NEW n \in Nat, NEW changed, NEW last, IsSettle(g, n, changed, last),
         NEW k \in 0 .. n, NEW s \in Resolutions
  PROVE  g[<<k, s>>] = Settled(g, k, s, changed, last)
BY DEF IsSettle

(* There is such a function, for any number of passes: the recursion ends. *)
LEMMA SettleExists ==
  ASSUME NEW last \in Definitions, Unique(last), NEW changed, NEW n \in Nat
  PROVE  \E g : IsSettle(g, n, changed, last)
<1> DEFINE S == {k \in Nat : \E g : IsSettle(g, k, changed, last)}
<1>1. 0 \in S
  <2> DEFINE g == [at \in (0 .. 0) \X Resolutions |-> at[2]]
  <2>1. \A at \in (0 .. 0) \X Resolutions : Settled(g, at[1], at[2], changed, last) = at[2]
    BY DEF Settled
  <2>2. IsSettle(g, 0, changed, last)
    BY <2>1 DEF IsSettle
  <2> QED
    BY <2>2
<1>2. ASSUME NEW k \in Nat, k \in S PROVE k + 1 \in S
  <2>1. PICK g : IsSettle(g, k, changed, last)
    BY <1>2
  <2> DEFINE h == [at \in (0 .. k + 1) \X Resolutions |->
                     IF at[1] = k + 1 THEN Settled(g, k + 1, at[2], changed, last) ELSE g[at]]
  <2>2. \A at \in (0 .. k + 1) \X Resolutions :
          h[at] = IF at[1] = k + 1 THEN Settled(g, k + 1, at[2], changed, last) ELSE g[at]
    OBVIOUS
  <2>3. ASSUME NEW l \in 0 .. k + 1, NEW s \in Resolutions
        PROVE  h[<<l, s>>] = Settled(h, l, s, changed, last)
    <3> DEFINE after == Pass(s, changed, last)
    <3>1. after \in Resolutions
      BY PassMoves
    <3>2. h[<<l, s>>] = Settled(g, l, s, changed, last)
      <4>1. CASE l = k + 1
        BY <2>2, <4>1
      <4>2. CASE l # k + 1
        <5>1. l \in 0 .. k /\ h[<<l, s>>] = g[<<l, s>>]
          BY <2>2, <4>2
        <5> QED
          BY <2>1, <5>1, SettleApplied
      <4> QED
        BY <4>1, <4>2
    <3>3. l # 0 => h[<<l - 1, after>>] = g[<<l - 1, after>>]
      <4>1. l # 0 => l - 1 \in 0 .. k + 1 /\ l - 1 # k + 1
        OBVIOUS
      <4> HIDE DEF h, after
      <4> QED
        BY <2>2, <3>1, <4>1
    <3> HIDE DEF h
    <3> QED
      BY <3>2, <3>3 DEF Settled
  <2>4. IsSettle(h, k + 1, changed, last)
    <3>1. \A at \in (0 .. k + 1) \X Resolutions : h[at] = Settled(h, at[1], at[2], changed, last)
      <4> HIDE DEF h
      <4> QED BY <2>3
    <3>2. h = [at \in (0 .. k + 1) \X Resolutions |-> h[at]]
      OBVIOUS
    <3> HIDE DEF h
    <3> QED
      BY <3>1, <3>2 DEF IsSettle
  <2> HIDE DEF h
  <2> QED
    BY <2>4
<1>3. n \in S
  <2> HIDE DEF S
  <2> QED BY <1>1, <1>2, EveryNumber
<1> QED
  BY <1>3

(* A file that was there keeps a definition, and its last one if it has    *)
(* not changed.                                                            *)
Keeps(cand, there, changed, last) ==
  \A p \in there \cap Holding(last) :
    cand[p] # Nothing /\ (p \notin changed => cand[p] = last[p])

LEMMA ResolveKeeps ==
  ASSUME NEW last \in Definitions, Unique(last), NEW changed, NEW there,
         NEW state \in Resolutions, Keeps(state.cand, there, changed, last),
         NEW field \in {"id", "name"}
  PROVE  Keeps(Resolve(state, changed, last, field).cand, there, changed, last)
<1> DEFINE after == Resolve(state, changed, last, field)
           losers == Losers(state.cand, last, field)
<1> SUFFICES ASSUME NEW p \in there, p \in Holding(last)
             PROVE  after.cand[p] # Nothing /\ (p \notin changed => after.cand[p] = last[p])
  BY DEF Keeps
<1>1. p \in Paths /\ last[p] # Nothing
  BY DEF Holding
<1>2. /\ \A q \in Paths \ losers : after.cand[q] = state.cand[q]
      /\ \A q \in losers : after.cand[q] = IF q \in changed THEN last[q] ELSE Nothing
  BY ResolveMoves
<1>3. state.cand[p] # Nothing /\ (p \notin changed => state.cand[p] = last[p])
  BY DEF Keeps
<1>4. p \in losers => p \in changed
  BY <1>1, <1>3, LastIsNoLoser DEF Holding
<1> HIDE DEF after, losers
<1> QED
  BY <1>1, <1>2, <1>3, <1>4

(* What the loop ends with.                                                *)
LEMMA SettleResult ==
  ASSUME NEW last \in Definitions, Unique(last), NEW changed, NEW there, NEW n \in Nat,
         NEW g, IsSettle(g, n, changed, last)
  PROVE  \A k \in 0 .. n, s \in Resolutions :
           /\ g[<<k, s>>] \in Resolutions
           /\ Keeps(s.cand, there, changed, last) => Keeps(g[<<k, s>>].cand, there, changed, last)
           /\ Cardinality(Open(s.cand, last)) < k => Unique(g[<<k, s>>].cand)
<1> DEFINE R(k, s) ==
      /\ g[<<k, s>>] \in Resolutions
      /\ Keeps(s.cand, there, changed, last) => Keeps(g[<<k, s>>].cand, there, changed, last)
      /\ Cardinality(Open(s.cand, last)) < k => Unique(g[<<k, s>>].cand)
    S == {k \in Nat : k \in 0 .. n => \A s \in Resolutions : R(k, s)}
<1>0. ASSUME NEW s \in Resolutions
      PROVE  IsFiniteSet(Open(s.cand, last)) /\ Cardinality(Open(s.cand, last)) \in Nat
  <2>1. Open(s.cand, last) \in SUBSET Paths
    BY DEF Open
  <2> QED
    BY <2>1, ConfigManagerAssumption, FS_Subset, FS_CardinalityType
<1>1. 0 \in S
  <2> SUFFICES ASSUME NEW s \in Resolutions PROVE R(0, s)
    OBVIOUS
  <2>1. g[<<0, s>>] = s
    <3>1. g[<<0, s>>] = Settled(g, 0, s, changed, last)
      BY SettleApplied
    <3> QED
      BY <3>1 DEF Settled
  <2>2. ~(Cardinality(Open(s.cand, last)) < 0)
    BY <1>0
  <2> QED
    BY <2>1, <2>2
<1>2. ASSUME NEW k \in Nat, k \in S PROVE k + 1 \in S
  <2> SUFFICES ASSUME k + 1 \in 0 .. n, NEW s \in Resolutions PROVE R(k + 1, s)
    OBVIOUS
  <2>0. k \in 0 .. n /\ \A t \in Resolutions : R(k, t)
    BY <1>2
  <2> DEFINE after == Pass(s, changed, last)
  <2>1. /\ after \in Resolutions
        /\ Open(after.cand, last) \subseteq Open(s.cand, last)
        /\ Open(after.cand, last) = Open(s.cand, last) => after.cand = s.cand /\ Unique(after.cand)
    BY PassMoves
  <2>2. Keeps(s.cand, there, changed, last) => Keeps(after.cand, there, changed, last)
    <3>1. Resolve(s, changed, last, "id") \in Resolutions
      BY ResolveMoves
    <3> QED
      BY <3>1, ResolveKeeps DEF Pass
  <2>3. g[<<k + 1, s>>] = IF after.cand = s.cand THEN after ELSE g[<<k, after>>]
    <3>1. g[<<k + 1, s>>] = Settled(g, k + 1, s, changed, last)
      BY SettleApplied
    <3>2. k + 1 # 0 /\ k + 1 > 0 /\ (k + 1) - 1 = k
      OBVIOUS
    <3> QED
      BY <3>1, <3>2 DEF Settled
  <2>4. CASE after.cand = s.cand
    <3>1. Unique(after.cand)
      BY <2>1, <2>4
    <3> QED
      BY <2>1, <2>2, <2>3, <2>4, <3>1
  <2>5. CASE after.cand # s.cand
    <3>1. Cardinality(Open(after.cand, last)) < Cardinality(Open(s.cand, last))
      BY <1>0, <2>1, <2>5, FS_Subset
    <3>2. Cardinality(Open(s.cand, last)) < k + 1 => Cardinality(Open(after.cand, last)) < k
      BY <1>0, <2>1, <3>1
    <3>3. R(k, after)
      BY <2>0, <2>1
    <3> QED
      BY <2>2, <2>3, <2>5, <3>2, <3>3
  <2> QED
    BY <2>4, <2>5
<1>3. Nat \subseteq S
  <2> HIDE DEF S
  <2> QED BY <1>1, <1>2, EveryNumber
<1>4. \A k \in 0 .. n : k \in S
  <2> HIDE DEF S
  <2> QED BY <1>3
<1>5. \A k \in 0 .. n, s \in Resolutions : R(k, s)
  <2> HIDE DEF R
  <2> QED BY <1>4
<1> QED
  BY <1>5

(* The passes that resolveDuplicateConflicts allows are enough.            *)
LEMMA ConflictsSettle ==
  ASSUME NEW last \in Definitions, Unique(last), NEW changed, NEW there,
         NEW start \in Resolutions, Keeps(start.cand, there, changed, last),
         NEW end, end = ResolveConflicts(start, changed, last)
  PROVE  end \in Resolutions /\ Keeps(end.cand, there, changed, last) /\ Unique(end.cand)
<1> DEFINE n == Passes(start.cand)
           g == CHOOSE f : IsSettle(f, n, changed, last)
<1>1. end = g[<<n, start>>]
  BY DEF ResolveConflicts, IsSettle, Settled
<1>2. n \in Nat /\ Cardinality(Open(start.cand, last)) < n
  <2>1. Open(start.cand, last) \in SUBSET Holding(start.cand) /\ Holding(start.cand) \in SUBSET Paths
    BY DEF Open, Holding
  <2>2. IsFiniteSet(Holding(start.cand))
    BY <2>1, ConfigManagerAssumption, FS_Subset
  <2>3. /\ Cardinality(Holding(start.cand)) \in Nat /\ Cardinality(Open(start.cand, last)) \in Nat
        /\ Cardinality(Open(start.cand, last)) <= Cardinality(Holding(start.cand))
    BY <2>1, <2>2, FS_Subset, FS_CardinalityType
  <2> QED
    BY <2>3 DEF Passes
<1>3. IsSettle(g, n, changed, last)
  <2> HIDE DEF n
  <2> QED BY <1>2, SettleExists
<1>4. n \in 0 .. n
  BY <1>2
<1> HIDE DEF n, g
<1> QED
  BY <1>1, <1>2, <1>3, <1>4, SettleResult

-----------------------------------------------------------------------------
(* What a refresh builds: definitions without a conflict, in which no file *)
(* that is still there has lost the one it had.                            *)
LEMMA CandidateIs ==
  ASSUME NEW scanned \in Directory, NEW found \in Directory, NEW digests \in Directory,
         NEW last \in Definitions, Unique(last),
         NEW built, built = Candidate(scanned, found, last, digests)
  PROVE  /\ built \in Resolutions
         /\ Unique(built.cand)
         /\ \A p \in Holding(last) : scanned[p] # Nothing => p \in Holding(built.cand)
<1> DEFINE changed == {p \in Holding(scanned) : digests[p] # scanned[p]}
           kept == {p \in Holding(scanned) \ changed : last[p] # Nothing}
           loads == {p \in Holding(scanned) \ kept : scanned[p] # Oversize /\ Loads(found[p])}
           failed == Holding(scanned) \ (kept \cup loads)
           cand == [p \in Paths |-> CASE p \in loads -> found[p]
                                       [] p \in kept \cup failed -> last[p]
                                       [] OTHER -> Nothing]
           start == [cand |-> cand, errs |-> failed]
<1>1. built = ResolveConflicts(start, changed, last)
  BY DEF Candidate
<1>2. Holding(scanned) \subseteq Paths
  BY DEF Holding
<1>3. \A p \in Paths : /\ (p \in loads => cand[p] = found[p])
                        /\ (p \notin loads /\ p \in kept \cup failed => cand[p] = last[p])
                        /\ (p \notin loads /\ p \notin kept \cup failed => cand[p] = Nothing)
  OBVIOUS
<1>4. \A p \in loads : found[p] \in Scrapers /\ found[p] # Nothing
  BY ConfigManagerAssumption DEF Loads
<1>5. \A p \in Holding(scanned) \cap Holding(last) : p \notin changed => p \in kept
  BY DEF Holding
<1>6. kept \cap loads = {} /\ failed \subseteq Paths /\ Holding(scanned) = kept \cup loads \cup failed
  BY <1>2
<1>7. cand \in Definitions
  <2>1. \A p \in Paths : cand[p] \in Scrapers \cup {Nothing}
    <3> SUFFICES ASSUME NEW p \in Paths PROVE cand[p] \in Scrapers \cup {Nothing}
      OBVIOUS
    <3> HIDE DEF cand, loads, kept, failed
    <3>1. CASE p \in loads
      BY <1>3, <1>4, <3>1
    <3>2. CASE p \notin loads /\ p \in kept \cup failed
      <4>1. cand[p] = last[p]
        BY <1>3, <3>2
      <4> QED
        BY <4>1 DEF Definitions
    <3>3. CASE p \notin loads /\ p \notin kept \cup failed
      BY <1>3, <3>3
    <3> QED
      BY <3>1, <3>2, <3>3
  <2>2. cand = [p \in Paths |-> cand[p]]
    OBVIOUS
  <2> HIDE DEF cand
  <2> QED
    BY <2>1, <2>2 DEF Definitions
<1> HIDE DEF cand, changed, kept, loads, failed
<1>8. start \in Resolutions /\ start.cand = cand
  BY <1>6, <1>7 DEF Resolutions
<1>9. Keeps(cand, Holding(scanned), changed, last)
  <2> SUFFICES ASSUME NEW p \in Holding(scanned), p \in Holding(last)
               PROVE  cand[p] # Nothing /\ (p \notin changed => cand[p] = last[p])
    BY DEF Keeps
  <2>1. last[p] # Nothing /\ p \in Paths
    BY DEF Holding
  <2>2. CASE p \in loads
    <3>1. p \in changed
      BY <1>5, <1>6, <2>2
    <3> QED
      BY <1>3, <1>4, <2>1, <2>2, <3>1
  <2>3. CASE p \notin loads
    <3>1. p \in kept \cup failed
      BY <1>6, <2>3
    <3>2. cand[p] = last[p]
      BY <1>3, <2>1, <2>3, <3>1
    <3> QED
      BY <2>1, <3>2
  <2> QED
    BY <2>2, <2>3
<1> HIDE DEF start
<1>10. built \in Resolutions /\ Keeps(built.cand, Holding(scanned), changed, last) /\ Unique(built.cand)
  BY <1>1, <1>8, <1>9, ConflictsSettle
<1>11. ASSUME NEW p \in Holding(last), scanned[p] # Nothing PROVE p \in Holding(built.cand)
  <2>1. p \in Paths /\ p \in Holding(scanned)
    BY <1>11 DEF Holding
  <2> QED
    BY <1>10, <2>1 DEF Keeps, Holding
<1> QED
  BY <1>10, <1>11

-----------------------------------------------------------------------------
(* What holds of every state: its shape, and that what is served was       *)
(* vetted, which is what the resolution of conflicts starts from.          *)
CInv == TypeOK /\ ServedIsVetted

LEMMA EmptyIs == Empty \in Definitions /\ Empty \in Directory /\ Unique(Empty)
BY DEF Empty, Definitions, Directory, Contents, Unique, Holding

(* A refresh in progress builds definitions without a conflict.            *)
LEMMA RefreshBuilds ==
  ASSUME CInv, scan # Nothing,
         NEW built, built = Candidate(scan, disk, accepted, hashes)
  PROVE  /\ built \in Resolutions
         /\ built.cand \in Definitions /\ built.errs \subseteq Paths
         /\ Unique(built.cand)
         /\ \A p \in Holding(accepted) : scan[p] # Nothing => p \in Holding(built.cand)
<1>1. scan \in Directory /\ disk \in Directory /\ hashes \in Directory
      /\ accepted \in Definitions /\ Unique(accepted)
  BY DEF CInv, TypeOK, ServedIsVetted, Validates
<1>2. /\ built \in Resolutions
      /\ Unique(built.cand)
      /\ \A p \in Holding(accepted) : scan[p] # Nothing => p \in Holding(built.cand)
  BY <1>1, CandidateIs
<1> QED
  BY <1>2 DEF Resolutions

LEMMA InitConfig == Init => CInv
<1> SUFFICES ASSUME Init PROVE CInv
  OBVIOUS
<1> DEFINE built == Candidate(disk, disk, Empty, Empty)
<1>1. /\ disk \in Directory /\ Validates(built.cand)
      /\ accepted = built.cand /\ errors = built.errs
      /\ version = IF built.cand = Empty THEN Nothing ELSE Snapshot(built.cand)
  BY DEF Init
<1>2. built \in Resolutions
  BY <1>1, EmptyIs, CandidateIs
<1>3. built.cand \in Definitions /\ built.errs \subseteq Paths
  BY <1>2 DEF Resolutions
<1> HIDE DEF built
<1>4. version = Nothing \/ version \in [Scrapers -> 0 .. Cardinality(Paths)]
  BY <1>1, SnapshotIsCount
<1>5. disk # Nothing /\ MaxEdits \in Nat
  BY <1>1, ConfigManagerAssumption DEF Directory
<1>6. TypeOK
  <2>1. /\ hashes = disk /\ applied = disk /\ pending = Nothing /\ ripe = FALSE
        /\ healthy = TRUE /\ scan = Nothing /\ edits = 0
    BY DEF Init
  <2>2. edits \in 0 .. MaxEdits /\ applied # pending
    BY <1>5, <2>1
  <2> QED
    BY <1>1, <1>3, <1>4, <2>1, <2>2 DEF TypeOK
<1>7. ServedIsVetted
  BY <1>1, SnapshotIsCount DEF ServedIsVetted
<1> QED
  BY <1>6, <1>7 DEF CInv

LEMMA FinishKeeps ==
  ASSUME CInv, FinishRefresh
  PROVE  CInv'
<1> DEFINE built == Candidate(scan, disk, accepted, hashes)
           same == Snapshot(built.cand) = Snapshot(accepted)
<1>1. /\ scan # Nothing /\ scan' = Nothing /\ UNCHANGED <<disk, edits>>
      /\ \/ /\ same \/ Validates(built.cand)
            /\ accepted' = built.cand /\ hashes' = scan /\ applied' = scan
            /\ errors' = built.errs /\ pending' = Nothing /\ ripe' = FALSE /\ healthy' = TRUE
            /\ version' = IF same THEN version ELSE Snapshot(built.cand)
         \/ /\ accepted' = accepted
            /\ healthy' = FALSE
            /\ UNCHANGED <<hashes, errors, version, applied, pending, ripe>>
  BY DEF FinishRefresh, Taken, Rollback
<1>2. built.cand \in Definitions /\ built.errs \subseteq Paths
  BY <1>1, RefreshBuilds
<1> HIDE DEF built
<1>3. CASE UNCHANGED <<accepted, version>>
           /\ UNCHANGED <<hashes, errors, applied, pending, ripe>> /\ healthy' = FALSE
  <2>1. TypeOK'
    BY <1>1, <1>3 DEF CInv, TypeOK
  <2>2. ServedIsVetted'
    BY <1>3 DEF CInv, ServedIsVetted, Validates, Unique, Holding, Snapshot
  <2> QED
    BY <2>1, <2>2 DEF CInv
<1>4. CASE /\ same \/ Validates(built.cand)
           /\ accepted' = built.cand /\ hashes' = scan /\ applied' = scan
           /\ errors' = built.errs /\ pending' = Nothing /\ ripe' = FALSE /\ healthy' = TRUE
           /\ version' = IF same THEN version ELSE Snapshot(built.cand)
  <2>1. scan \in Directory /\ accepted \in Definitions
    BY <1>1 DEF CInv, TypeOK
  <2>2. version' = Nothing \/ version' \in [Scrapers -> 0 .. Cardinality(Paths)]
    BY <1>4, SnapshotIsCount DEF CInv, TypeOK
  <2>3. TypeOK'
    BY <1>1, <1>2, <1>4, <2>1, <2>2 DEF CInv, TypeOK
  <2>4. Validates(built.cand)
    BY <1>2, <1>4, <2>1, SameIsValid DEF CInv, ServedIsVetted
  <2>5. IF version' = Nothing THEN built.cand = Empty ELSE version' = Snapshot(built.cand)
    <3>1. CASE same
      BY <1>2, <1>4, <3>1, SameIsEmpty DEF CInv, ServedIsVetted
    <3>2. CASE ~same
      BY <1>4, <3>2, SnapshotIsCount
    <3> QED
      BY <3>1, <3>2
  <2>6. ServedIsVetted'
    <3>1. Validates(accepted')
      BY <1>4, <2>4
    <3>2. IF version' = Nothing THEN accepted' = Empty ELSE version' = Snapshot(accepted')
      BY <1>4, <2>5
    <3> QED
      BY <3>1, <3>2 DEF ServedIsVetted, Validates, Unique, Holding, Snapshot, Empty
  <2> QED
    BY <2>3, <2>6 DEF CInv
<1> QED
  BY <1>1, <1>3, <1>4

LEMMA NextConfig == CInv /\ [Next]_vars => CInv'
<1> SUFFICES ASSUME CInv, [Next]_vars PROVE CInv'
  OBVIOUS
<1>1. ASSUME UNCHANGED <<accepted, version>> PROVE ServedIsVetted'
  BY <1>1 DEF CInv, ServedIsVetted, Validates, Unique, Holding, Snapshot
<1>2. CASE UNCHANGED vars
  BY <1>1, <1>2 DEF CInv, TypeOK, vars
<1>3. ASSUME NEW p \in Paths, NEW content \in Contents, Edit(p, content) PROVE CInv'
  <2>1. edits' \in 0 .. MaxEdits
    BY <1>3, ConfigManagerAssumption DEF Edit, CInv, TypeOK
  <2>2. disk' \in Directory
    BY <1>3 DEF Edit, CInv, TypeOK, Directory
  <2> QED
    BY <1>1, <1>3, <2>1, <2>2 DEF Edit, CInv, TypeOK
<1>4. CASE DebounceElapses \/ ScanFails \/ Unchanged \/ BeginLoading
  BY <1>1, <1>4 DEF DebounceElapses, ScanFails, Unchanged, BeginLoading, CInv, TypeOK
<1>5. CASE PollNotices
  BY <1>1, <1>5 DEF PollNotices, NewlySeen, CInv, TypeOK
<1>6. CASE FinishRefresh
  BY <1>6, FinishKeeps
<1> QED
  BY <1>2, <1>3, <1>4, <1>5, <1>6 DEF Next, Poll, PollScans, ReloadScans

(* The invariant of the whole module.                                      *)
THEOREM ConfigInvariant == Spec => []CInv
BY InitConfig, NextConfig, PTL DEF Spec

(* The state always has the shape that it is modelled with; the applied    *)
(* fingerprint is never one that is still pending.                         *)
THEOREM ConfigTypeCorrect == Spec => []TypeOK
<1>1. CInv => TypeOK
  BY DEF CInv
<1> QED
  BY ConfigInvariant, <1>1, PTL

(* What is served passes the validator as a whole, also when a refresh     *)
(* takes over definitions without validating them as their hash is that of *)
(* the served ones, and the version on display is the one that is served.  *)
THEOREM ServedIsVettedHolds == Spec => []ServedIsVetted
<1>1. CInv => ServedIsVetted
  BY DEF CInv
<1> QED
  BY ConfigInvariant, <1>1, PTL

(* The passes of resolveDuplicateConflicts are enough for any number of    *)
(* files: what a refresh builds has no conflict left, however edits, moves *)
(* and fallbacks collide.                                                  *)
THEOREM ConflictsAreResolvedHolds == Spec => []ConflictsAreResolved
<1>1. CInv => ConflictsAreResolved
  BY RefreshBuilds DEF ConflictsAreResolved
<1> QED
  BY ConfigInvariant, <1>1, PTL

(* No refresh takes the definition of a file that is still there: not for  *)
(* an invalid edit, not for a conflict, not for a chain of fallbacks.      *)
THEOREM LastGoodIsKeptHolds == Spec => LastGoodIsKept
<1> DEFINE Kept == \A p \in Holding(accepted) : scan # Nothing /\ scan[p] # Nothing
                     => p \in Holding(accepted')
<1>1. ASSUME CInv, Next PROVE Kept
  <2>1. CASE FinishRefresh
    <3> DEFINE built == Candidate(scan, disk, accepted, hashes)
    <3>1. accepted' = built.cand \/ accepted' = accepted
      BY <2>1 DEF FinishRefresh, Rollback
    <3> HIDE DEF built
    <3>2. scan # Nothing => \A p \in Holding(accepted) : scan[p] # Nothing => p \in Holding(built.cand)
      BY <1>1, RefreshBuilds DEF built
    <3> QED
      BY <3>1, <3>2
  <2>2. ~FinishRefresh => UNCHANGED accepted
    BY <1>1 DEF Next, Edit, DebounceElapses, Poll, ScanFails, PollNotices, Unchanged, PollScans,
       ReloadScans, BeginLoading
  <2> QED
    BY <2>1, <2>2
<1>2. CInv /\ [Next]_vars => [Kept]_vars
  BY <1>1
<1> QED
  BY ConfigInvariant, <1>2, PTL DEF Spec, LastGoodIsKept
=============================================================================
