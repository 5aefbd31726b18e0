--------------------------- MODULE ConfigManager ---------------------------
(***************************************************************************)
(* Hot reload of scraper definitions: a directory of YAML files, polled by *)
(* content fingerprint with a debounce, reloaded on request, merged file   *)
(* by file with the last good definitions, and vetted as a whole before it *)
(* is served (src/internal/config/manager.go).                             *)
(*                                                                         *)
(* refresh holds the manager's lock from its scan of the directory to its  *)
(* end, but nothing keeps the files from changing in between.              *)
(*                                                                         *)
(* An operator whose name starts with Bug is a plausible mistake in the    *)
(* definition that follows it; no specification uses it.                   *)
(***************************************************************************)
EXTENDS Integers, FiniteSets

CONSTANTS
  Paths,       \* names of configuration files
  Scrapers,    \* definitions a file may hold: records with id and name
  Unbuildable, \* those that load, but whose fetcher or processor is refused
  Oversize,    \* a file larger than MaxConfigFileBytes
  Garbage,     \* a file the loader rejects
  Nothing,     \* no file, no definition, no digest
  MaxEdits     \* bound: changes of the directory

Contents == Scrapers \cup {Oversize, Garbage, Nothing}

ASSUME ConfigManagerAssumption ==
  /\ IsFiniteSet(Paths)
  /\ Unbuildable \subseteq Scrapers
  /\ Cardinality({Oversize, Garbage, Nothing}) = 3
  /\ {Oversize, Garbage, Nothing} \cap Scrapers = {}
  /\ Nothing \notin [Paths -> Contents] \cup [Scrapers -> Nat]
  /\ MaxEdits \in Nat

VARIABLES
  disk,      \* the directory
  accepted,  \* acceptedByPath
  hashes,    \* fileHashes; a digest stands for the content it was taken of
  errors,    \* paths with an entry in fileErrors
  version,   \* the definitions currentVersion was made of, or Nothing
  applied,   \* appliedFingerprint
  pending,   \* pendingFingerprint, or Nothing
  ripe,      \* the debounce has elapsed since pendingSince
  healthy,
  scan,      \* what the refresh in progress has scanned, or Nothing
  edits

vars == <<disk, accepted, hashes, errors, version, applied, pending, ripe,
          healthy, scan, edits>>

-----------------------------------------------------------------------------
Directory == [Paths -> Contents]
Definitions == [Paths -> Scrapers \cup {Nothing}]
Resolutions == [cand : Definitions, errs : SUBSET Paths]
Empty == [p \in Paths |-> Nothing]
Holding(f) == {p \in Paths : f[p] # Nothing}

(* configHash of the sorted definitions: how often each of them occurs.    *)
Snapshot(f) == [s \in Scrapers |-> Cardinality({p \in Paths : f[p] = s})]

(* The callback of bootstrap.run: no ID and no name occurs twice, and      *)
(* every definition can be built.                                          *)
Unique(f) ==
  \A p, q \in Holding(f) : f[p].id = f[q].id \/ f[p].name = f[q].name => p = q
Validates(f) == Unique(f) /\ \A p \in Paths : f[p] \notin Unbuildable

(* One pass of resolveDuplicates over the definitions in cand: of those    *)
(* that share the field, one that had the value before keeps it; the       *)
(* others fall back to what was accepted of them, or are dropped.          *)
Field(s, field) == IF field = "id" THEN s.id ELSE s.name
Same(s, t, field) == s # Nothing /\ t # Nothing /\ Field(s, field) = Field(t, field)
Owner(peers, value, field, last) ==
  LET prior == {p \in peers : Same(last[p], value, field)}
  IN IF Cardinality(prior) = 1 THEN prior ELSE {}

Losers(cand, last, field) ==
  {p \in Holding(cand) :
     LET peers == {q \in Paths : Same(cand[q], cand[p], field)}
     IN Cardinality(peers) > 1 /\ p \notin Owner(peers, cand[p], field, last)}
BugFallback(p, changed, last) == Nothing
Fallback(p, changed, last) == IF p \in changed THEN last[p] ELSE Nothing

Resolve(state, changed, last, field) ==
  LET losers == Losers(state.cand, last, field)
  IN [cand |-> [p \in Paths |-> IF p \in losers THEN Fallback(p, changed, last)
                                                ELSE state.cand[p]],
      errs |-> state.errs \cup losers]

(* resolveDuplicateConflicts: IDs and names in turn, until nothing moves.  *)
BugPasses(cand) == 1
Passes(cand) == 2 * Cardinality(Holding(cand)) + 2
Pass(state, changed, last) ==
  Resolve(Resolve(state, changed, last, "id"), changed, last, "name")
ResolveConflicts(start, changed, last) ==
  LET settle[at \in (0 .. Passes(start.cand)) \X Resolutions] ==
        LET left == at[1]
            state == at[2]
            after == Pass(state, changed, last)
        IN CASE left = 0 -> state
             [] left > 0 /\ after.cand = state.cand -> after
             [] OTHER -> settle[<<left - 1, after>>]
  IN settle[<<Passes(start.cand), start>>]

(* The loader reads, parses and validates one file.                        *)
Loads(content) == content \in Scrapers

(* buildCandidate: digests as scanned, file contents as they are found now.*)
Candidate(scanned, found, last, digests) ==
  LET changed == {p \in Holding(scanned) : digests[p] # scanned[p]}
      kept == {p \in Holding(scanned) \ changed : last[p] # Nothing}
      loads == {p \in Holding(scanned) \ kept :
                  scanned[p] # Oversize /\ Loads(found[p])}
      failed == Holding(scanned) \ (kept \cup loads)
  IN ResolveConflicts(
       [cand |-> [p \in Paths |-> CASE p \in loads -> found[p]
                                    [] p \in kept \cup failed -> last[p]
                                    [] OTHER -> Nothing],
        errs |-> failed],
       changed, last)

-----------------------------------------------------------------------------
(* LoadInitial with a validated result; otherwise the service does not     *)
(* start.                                                                  *)
Init ==
  /\ disk \in Directory
  /\ LET built == Candidate(disk, disk, Empty, Empty) IN
     /\ Validates(built.cand)
     /\ accepted = built.cand
     /\ errors = built.errs
     /\ version = IF built.cand = Empty THEN Nothing ELSE Snapshot(built.cand)
  /\ hashes = disk
  /\ applied = disk
  /\ pending = Nothing
  /\ ripe = FALSE
  /\ healthy = TRUE
  /\ scan = Nothing
  /\ edits = 0

(* A file is written, replaced or removed.                                 *)
Edit(p, content) ==
  /\ edits < MaxEdits
  /\ content # disk[p]
  /\ disk' = [disk EXCEPT ![p] = content]
  /\ edits' = edits + 1
  /\ UNCHANGED <<accepted, hashes, errors, version, applied, pending, ripe,
                 healthy, scan>>

DebounceElapses ==
  /\ pending # Nothing
  /\ ~ripe
  /\ ripe' = TRUE
  /\ UNCHANGED <<disk, accepted, hashes, errors, version, applied, pending,
                 healthy, scan, edits>>

-----------------------------------------------------------------------------
(* The scan fails, as a whole.                                             *)
ScanFails ==
  /\ scan = Nothing
  /\ healthy' = FALSE
  /\ UNCHANGED <<disk, accepted, hashes, errors, version, applied, pending,
                 ripe, scan, edits>>

(* A poll meets a fingerprint for the first time.                          *)
BugNewlySeen == disk # applied
NewlySeen == disk # applied /\ disk # pending
PollNotices ==
  /\ scan = Nothing
  /\ NewlySeen
  /\ pending' = disk
  /\ ripe' = FALSE
  /\ UNCHANGED <<disk, accepted, hashes, errors, version, applied, healthy,
                 scan, edits>>

Unchanged ==
  /\ scan = Nothing
  /\ disk = applied
  /\ healthy' = TRUE
  /\ UNCHANGED <<disk, accepted, hashes, errors, version, applied, pending,
                 ripe, scan, edits>>

(* A poll whose debounce is over, or a reload on request, goes on to load. *)
BeginLoading ==
  /\ scan = Nothing
  /\ disk # applied
  /\ scan' = disk
  /\ UNCHANGED <<disk, accepted, hashes, errors, version, applied, pending,
                 ripe, healthy, edits>>
PollScans == disk = pending /\ ripe /\ BeginLoading
ReloadScans == BeginLoading

(* The end of refresh: the same definitions as before are taken over, new  *)
(* ones are served if they validate, and otherwise nothing has happened.   *)
Taken == hashes' = scan /\ applied' = scan
BugRollback(built) == accepted' = built.cand
Rollback(built) == accepted' = accepted
FinishRefresh ==
  LET built == Candidate(scan, disk, accepted, hashes)
      same == Snapshot(built.cand) = Snapshot(accepted)
  IN
  /\ scan # Nothing
  /\ scan' = Nothing
  /\ \/ /\ same \/ Validates(built.cand)
        /\ accepted' = built.cand
        /\ Taken
        /\ errors' = built.errs
        /\ pending' = Nothing
        /\ ripe' = FALSE
        /\ healthy' = TRUE
        /\ version' = IF same THEN version ELSE Snapshot(built.cand)
     \/ /\ ~same
        /\ ~Validates(built.cand)
        /\ Rollback(built)
        /\ healthy' = FALSE
        /\ UNCHANGED <<hashes, errors, version, applied, pending, ripe>>
  /\ UNCHANGED <<disk, edits>>

-----------------------------------------------------------------------------
Poll == ScanFails \/ PollNotices \/ Unchanged \/ PollScans

Next ==
  \/ \E p \in Paths, content \in Contents : Edit(p, content)
  \/ DebounceElapses
  \/ Poll \/ ReloadScans \/ FinishRefresh

Spec == Init /\ [][Next]_vars

(* Watch polls for as long as the service runs, a refresh that has begun   *)
(* comes to its end, and time passes.                                      *)
FairSpec ==
  /\ Spec
  /\ WF_vars(PollNotices) /\ WF_vars(PollScans) /\ WF_vars(DebounceElapses)
  /\ []<>(scan = Nothing)

-----------------------------------------------------------------------------
(* The shape of the state; the applied fingerprint is that of the digests  *)
(* the next refresh compares with, and never one that is still pending.    *)
TypeOK ==
  /\ disk \in Directory
  /\ accepted \in Definitions
  /\ hashes \in Directory
  /\ errors \subseteq Paths
  /\ version = Nothing \/ version \in [Scrapers -> 0 .. Cardinality(Paths)]
  /\ applied = hashes /\ applied # pending
  /\ pending = Nothing \/ pending \in Directory
  /\ ripe \in BOOLEAN
  /\ healthy \in BOOLEAN
  /\ scan = Nothing \/ scan \in Directory
  /\ edits \in 0 .. MaxEdits

(* Conflicts are always resolved, however edits, moves and fallbacks to    *)
(* earlier definitions collide in IDs and names: what a refresh builds has *)
(* none left when its passes are over, so that a conflict between two      *)
(* files never gets the whole directory refused.                           *)
ConflictsAreResolved ==
  scan # Nothing => Unique(Candidate(scan, disk, accepted, hashes).cand)

(* What is served passes the validator as a whole, whatever was edited,    *)
(* fell back or was moved between files, and the version on display is the *)
(* one that is served.                                                     *)
ServedIsVetted ==
  /\ Validates(accepted)
  /\ IF version = Nothing THEN accepted = Empty ELSE version = Snapshot(accepted)

(* A file that is still there never loses its definition: not by an        *)
(* invalid edit, not by a conflict with other files, not by a chain of     *)
(* fallbacks.                                                              *)
LastGoodIsKept ==
  [][\A p \in Holding(accepted) : scan # Nothing /\ scan[p] # Nothing
       => p \in Holding(accepted')]_vars

(* A directory that stays as it is becomes the applied one, unless the     *)
(* validator refuses what is in it.                                        *)
DirectoryIsApplied ==
  <>[](applied = disk \/ \E p \in Paths : disk[p] \in Unbuildable)

(* Only an invalid file is replaced by its last valid definition, as       *)
(* documented: once a directory of valid files without a conflict is       *)
(* applied, its definitions are the ones that are served.                  *)
ValidFilesAreServed ==
  scan = Nothing /\ applied = disk /\ disk \in Definitions /\ Unique(disk)
    => accepted = disk
=============================================================================
