--------------------------- MODULE ScrapeExecution ---------------------------
(***************************************************************************)
(* One scrape task from the fetch of its feed to the commit of its         *)
(* contents (Executor.Execute in src/internal/app/runtime.go).  Its        *)
(* context may be cancelled between any two steps, by the task's timeout,  *)
(* by Cancel or by the service's stop, and every call may fail.            *)
(***************************************************************************)
EXTENDS ContentProcessing

CONSTANTS
  Jobs,     \* [definition, feed] for each position of a sequence
  Replies,  \* for each processor, what a page or model request can yield
  Before    \* for each job, IDs that are stored when it begins

ASSUME ScrapeExecutionAssumption ==
  /\ \A j \in DOMAIN Jobs :
       IsDocument(Jobs[j].definition) /\ IsFeed(Jobs[j].feed)
  /\ \A name \in Supported : \A reply \in Replies[name] : IsReply(name, reply)

VARIABLES
  job,       \* the position of the task's job
  stage,     \* where Execute is
  at,        \* the processor that is processing
  out,       \* the contents it has processed
  contents,  \* the contents it has still to process
  ctx,       \* the task's context: "live", "done", or "late" if it is
             \* done only since StoreContents has begun
  outcome,   \* what Execute has returned
  stored     \* the contents of the database, by ID

execVars == <<job, stage, at, out, contents, ctx, outcome, stored>>

-----------------------------------------------------------------------------
Definition == Jobs[job].definition
Processors == Pipeline(Definition)
Processor == Processors[at]
DefaultKeywords == Definition.default_keywords.value

Stages == {"idle", "fetching", "looking", "creating", "processing", "storing", "committing"}
Executing == stage # "idle"

(* A stored content.  One that was there before has no fields.             *)
Existing == [from |-> "before"]
Fresh(c) == [from |-> "task", summary |-> c.summary, body |-> c.body, tags |-> c.tags, keywords |-> c.keywords]

(* There are tasks only of the definitions that the service has accepted.  *)
ExecInit ==
  /\ job \in {j \in DOMAIN Jobs : Accepted(Jobs[j].definition)}
  /\ stage = "idle" /\ at = 1 /\ out = <<>> /\ contents = <<>>
  /\ ctx = "live"
  /\ outcome = "none"
  /\ stored = [id \in Before[job] |-> Existing]

-----------------------------------------------------------------------------
Returns(result) ==
  /\ stage' = "idle"
  /\ outcome' = result
  /\ at' = 1 /\ out' = <<>> /\ contents' = <<>>
  /\ UNCHANGED <<job, ctx, stored>>

Goto(where) ==
  /\ stage' = where
  /\ UNCHANGED <<job, at, out, ctx, outcome, stored>>

(* A worker takes the task.                                                *)
Begin ==
  /\ stage = "idle" /\ outcome = "none"
  /\ Goto("fetching")
  /\ UNCHANGED contents

(* The context of the attempt times out or is cancelled.                   *)
ContextEnds ==
  /\ Executing
  /\ ctx = "live"
  /\ ctx' = IF stage = "committing" THEN "late" ELSE "done"
  /\ UNCHANGED <<job, stage, at, out, contents, outcome, stored>>

(* The route has to be a URL reference, which nobody has checked before.   *)
RouteIsURL(definition) == definition.route.value # "unparsable"

FetchIsRefused ==
  /\ stage = "fetching" /\ ~RouteIsURL(Definition)
  /\ Returns("misconfigured")

(* The feed cannot be fetched or parsed.                                   *)
FetchFails ==
  /\ stage = "fetching" /\ RouteIsURL(Definition)
  /\ Returns("failed")

Fetch ==
  /\ stage = "fetching" /\ RouteIsURL(Definition)
  /\ ctx = "live"
  /\ IF FilterIsValid(Definition)
     THEN /\ contents' = FilterQuality(Fetched(Jobs[job].feed, Definition))
          /\ Goto("looking")
     ELSE Returns("misconfigured")

LookupFails == stage = "looking" /\ Returns("failed")

(* ExistingContentIDs: what is stored is dropped before it is processed.   *)
Unknown(items) == At(items, {i \in DOMAIN items : items[i].id \notin DOMAIN stored})

Lookup ==
  /\ stage = "looking"
  /\ ctx = "live"
  /\ contents' = Unknown(contents)
  /\ Goto("creating")

CreatePipeline ==
  /\ stage = "creating"
  /\ IF PipelineIsCreatable(Definition)
     THEN Goto("processing") /\ UNCHANGED contents
     ELSE Returns("misconfigured")

-----------------------------------------------------------------------------
(* A request is tried again, but not with a context that is done.          *)
ReplyTo(name) ==
  IF ctx = "done" THEN {r \in Replies[name] : ~r.ok} ELSE Replies[name]

BugKept(result) == IF result.ok THEN <<result.item>> ELSE <<>>
Kept(result) == <<result.item>>

(* A processor's next content.  A failure is logged and the content stays  *)
(* as it is, unless the processor fails fast.                              *)
ProcessItem ==
  /\ stage = "processing" /\ at \in DOMAIN Processors /\ contents # <<>>
  /\ \E reply \in ReplyTo(Processor.name) :
       LET result == ProcessOne(Processor, Head(contents), reply) IN
       IF ~result.ok /\ FailsFast(Processor)
       THEN Returns("failed")
       ELSE /\ out' = out \o Kept(result)
            /\ contents' = Tail(contents)
            /\ UNCHANGED <<job, stage, at, ctx, outcome, stored>>

NextProcessor ==
  /\ stage = "processing" /\ at \in DOMAIN Processors /\ contents = <<>>
  /\ at' = at + 1
  /\ contents' = out
  /\ out' = <<>>
  /\ UNCHANGED <<job, stage, ctx, outcome, stored>>

Merge ==
  /\ stage = "processing" /\ at \notin DOMAIN Processors
  /\ contents' = [i \in DOMAIN contents |->
       [contents[i] EXCEPT !.keywords = MergeKeywords(DefaultKeywords, contents[i])]]
  /\ Goto("storing")

-----------------------------------------------------------------------------
(* StoreContents, which needs no transaction for an empty batch and whose  *)
(* Begin fails if the context is done.                                     *)
BeginStore ==
  /\ stage = "storing"
  /\ IF contents = <<>> THEN Returns("success")
     ELSE ctx = "live" /\ Goto("committing") /\ UNCHANGED contents

StoreFails ==
  /\ \/ stage = "storing" /\ contents # <<>>
     \/ stage = "committing"
  /\ Returns("failed")

WithBatch ==
  LET ids == {contents[i].id : i \in DOMAIN contents}
      Of(id) == CHOOSE c \in ToSet(contents) : c.id = id IN
  [id \in DOMAIN stored \cup ids |-> IF id \in DOMAIN stored THEN stored[id] ELSE Fresh(Of(id))]

(* The commit, whose reply may get lost.                                   *)
Commit ==
  /\ stage = "committing"
  /\ stored' = WithBatch
  /\ stage' = "idle"
  /\ outcome' \in {"success", "failed"}
  /\ at' = 1 /\ out' = <<>> /\ contents' = <<>>
  /\ UNCHANGED <<job, ctx>>

ExecStep ==
  \/ FetchIsRefused \/ FetchFails \/ Fetch \/ LookupFails \/ Lookup \/ CreatePipeline
  \/ ProcessItem \/ NextProcessor \/ Merge
  \/ BeginStore \/ StoreFails \/ Commit

-----------------------------------------------------------------------------
Candidates == Fetched(Jobs[job].feed, Definition)
OfThisTask == {id \in DOMAIN stored : stored[id].from = "task"}

(* What Execute returns is what has happened.  If it says success, each    *)
(* entry of the feed that passes the filters is in the database, whatever  *)
(* processors and models have answered; if its context ended before the    *)
(* transaction began, nothing was stored, although the fallbacks hide the  *)
(* cancellation from the processors.                                       *)
ResultIsTrue ==
  /\ outcome = "success" => \A i \in DOMAIN Candidates : Candidates[i].id \in DOMAIN stored
  /\ ctx = "done" => OfThisTask = {}
  /\ \A id \in OfThisTask : \E i \in DOMAIN Candidates : Candidates[i].id = id

ProcessorNamed(name) == {p \in ToSet(Processors) : p.name = name}

(* A stored content obeys the options of the scraper's processors, by      *)
(* whichever way its fields came about, a model's reply or a fallback:     *)
(* tags are of the allowed list and spelled as in it, and at most max_tags *)
(* if no category repeats one; keywords are the scraper's own and at most  *)
(* the configured number of suitable ones.  A summary has at most          *)
(* max_summary_length words if it is the model's answer, in every style,   *)
(* or a fallback of another style than bullet_points; the fallback's three *)
(* bullets have at least 8 words each to use, and may exceed it.  Without  *)
(* either, for lack of the processor or because it has failed, a content   *)
(* keeps the feed's summary, of at most the fetcher's length in runes.     *)
StoredIsNormalized ==
  \A id \in OfThisTask :
    LET c == stored[id]
        keywords == ToSet(c.keywords) \ ToSet(DefaultKeywords) IN
    /\ \A p \in ProcessorNamed("llm_tags") :
         LET cfg == p.config IN
         /\ cfg.availableTags # <<>> /\ ~cfg.allowNewTags =>
              \A i \in DOMAIN c.tags : c.tags[i].tag \in ToSet(cfg.availableTags)
         /\ Cardinality({Word(c.tags[i].tag) : i \in DOMAIN c.tags}) <= cfg.maxTags
    /\ \A p \in ProcessorNamed("llm_keywords") :
         /\ \A k \in keywords : Suitable(p.config, k)
         /\ Cardinality(keywords) <= Limit(p.config)
    /\ c.summary.by = "feed" => c.summary.size <= SummaryMaxLength
    /\ \A p \in ProcessorNamed("llm_summary") :
         LET limit == p.config.maxSummaryLength IN
         /\ c.summary.by = "model" => c.summary.size <= limit
         /\ c.summary.by = "fallback" =>
              c.summary.size <= IF p.config.summaryStyle = "bullet_points"
                                THEN 3 * (1 + Greater(8, limit \div 3)) ELSE limit

(* A scraper that the loader and the validator have accepted never fails   *)
(* for its configuration, but for two values that nobody validates, the    *)
(* route, which need not be a URL reference, and filter_time: its          *)
(* processors can be created, and each has time to work, at least one      *)
(* attempt and limits that let something through.                          *)
AcceptedRuns ==
  /\ outcome = "misconfigured" => ~RouteIsURL(Definition) \/ ~FilterIsValid(Definition)
  /\ Executing => \A p \in ToSet(Processors) :
       LET base == p.config.base IN
       /\ base.timeout > 0
       /\ p.name = "html_content" => base.browserTimeout > 0
       /\ p.name # "html_content" => base.retryTimes >= 1
       /\ p.name = "llm_keywords" => Limit(p.config) >= 1
       /\ p.name = "llm_tags" => p.config.maxTags >= 1
=============================================================================
