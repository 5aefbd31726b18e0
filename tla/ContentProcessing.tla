-------------------------- MODULE ContentProcessing --------------------------
(***************************************************************************)
(* From the entries of a feed to what a scraper stores: the fetchers' and  *)
(* the executor's functions on contents, and those of the four processors  *)
(* (src/internal/fetcher/fetchers.go, src/internal/processor and           *)
(* src/internal/app/runtime.go).                                           *)
(*                                                                         *)
(* A term, a tag or a keyword, is <<word, spelling>>: terms of the same    *)
(* word differ in case only.  A text is its length in runes, its number of *)
(* words, the number of words of each sentence, and the terms in it.  An   *)
(* ID is what its SHA-256 is computed from, taken to be injective.         *)
(***************************************************************************)
EXTENDS ScraperDefinition

CONSTANTS
  TermOrder,        \* all terms, in the order of their bytes
  Runes,            \* the length of each word
  SummaryMaxLength, \* runes of a summary taken from a feed
  Numerals,         \* texts that read as a number, with its tenths
  Now               \* when a feed is filtered

ASSUME ContentProcessingAssumption ==
  /\ IsList(TermOrder) /\ IsInjective(TermOrder)
  /\ \A i \in DOMAIN TermOrder : Runes[TermOrder[i][1]] \in Nat \ {0}
  /\ SummaryMaxLength \in Nat \ {0}
  /\ \A text \in DOMAIN Numerals : Numerals[text] \in Int

Terms == ToSet(TermOrder)
Texts == [runes : Nat, words : Nat, sentences : Seq(Nat), terms : Seq(Terms)]
Blank == [runes |-> 0, words |-> 0, sentences |-> <<>>, terms |-> <<>>]
NoSummary == [by |-> "none", size |-> 0]

-----------------------------------------------------------------------------
Lesser(m, n) == IF m < n THEN m ELSE n
Greater(m, n) == IF m > n THEN m ELSE n

(* The elements at the positions I, and the first n of them.               *)
At(seq, I) == InOrder(seq, [i \in I |-> {j \in I : j < i}])
First(seq, n) == SubSeq(seq, 1, Lesser(n, Len(seq)))

(* A stable sort, the highest score first.                                 *)
ByScore(seq, score) ==
  InOrder(seq, [i \in DOMAIN seq |->
    {j \in DOMAIN seq : \/ score[seq[j]] > score[seq[i]]
                        \/ score[seq[j]] = score[seq[i]] /\ j < i}])

Word(term) == term[1]
Words(terms) == {Word(t) : t \in ToSet(terms)}

(* dedupeCaseInsensitive.                                                  *)
Deduped(terms) ==
  At(terms, {i \in DOMAIN terms : \A j \in 1 .. i - 1 : Word(terms[j]) # Word(terms[i])})

FirstNonBlank(texts) ==
  LET given == {i \in DOMAIN texts : texts[i].runes > 0} IN
  IF given = {} THEN Blank ELSE texts[Min(given)]

-----------------------------------------------------------------------------
(* What a feed's parser yields, as far as it matters here.                 *)
IsFeed(feed) ==
  /\ IsList(feed.entries)
  /\ \A i \in DOMAIN feed.entries :
       LET entry == feed.entries[i] IN
       /\ entry.title \in Seq(Terms)
       /\ {entry.description, entry.content, entry.custom} \subseteq Texts

(* The fetchers.  A published text is 0 if blank, -1 if it is no date.     *)
PublishedText(type, entry) ==
  IF type = "atom" /\ entry.published = entry.updated THEN 0 ELSE entry.published

StableContentID(entry, published) == <<entry.link.page, published, entry.guid>>

TruncateSummary(text) ==
  IF text.runes = 0 THEN NoSummary
  ELSE [by |-> "feed", size |-> Lesser(text.runes, SummaryMaxLength)]

BestEffortContent(entry) ==
  FirstNonBlank(<<entry.content, entry.description, entry.custom>>)

BuildContents(feed) ==
  [i \in DOMAIN feed.entries |->
     LET entry == feed.entries[i]
         published == PublishedText(feed.type, entry) IN
     [id |-> StableContentID(entry, published),
      title |-> entry.title,
      page |-> entry.link.page,
      summary |-> TruncateSummary(entry.description),
      body |-> BestEffortContent(entry),
      published |-> published,
      tags |-> <<>>,
      keywords |-> <<>>]]

(* filter_time of a direct_rss scraper: absent, false, zero or empty turns *)
(* it off; otherwise it has to be a number of seconds, or text that reads  *)
(* as one, above zero and not too large for a duration.                    *)
FilterTime(definition) ==
  LET params == definition.fetch_params IN
  IF "filter_time" \in ToSet(params.keys) THEN params.value["filter_time"]
  ELSE [kind |-> "null", value |-> 0]

FilterIsOff(definition) ==
  \/ definition.fetcher.value = "rsshub"
  \/ LET t == FilterTime(definition) IN
     \/ t.kind = "null"
     \/ t.kind = "boolean" /\ ~t.value
     \/ t.kind \in {"integer", "number"} /\ t.value = 0
     \/ t.kind = "string" /\ t.value = ""

(* Its tenths of a second, 0 if it is no number.                           *)
FilterTenths(definition) ==
  LET t == FilterTime(definition) IN
  CASE t.kind = "integer" -> 10 * t.value
    [] t.kind = "number" -> t.value
    [] t.kind = "string" /\ t.value \in DOMAIN Numerals -> Numerals[t.value]
    [] OTHER -> 0

FilterIsValid(definition) ==
  \/ FilterIsOff(definition)
  \/ FilterTenths(definition) > 0 /\ Second * FilterTenths(definition) <= 10 * MaxDuration

FilterByTimeRange(contents, definition) ==
  IF FilterIsOff(definition) THEN contents
  ELSE At(contents, {i \in DOMAIN contents :
                       /\ contents[i].published > 0
                       /\ 10 * contents[i].published >= 10 * Now - FilterTenths(definition)})

(* FilterQualityContents, which the executor's filterQuality repeats.      *)
Complete(c) == c.title # <<>> /\ c.page # "" /\ (c.summary.size > 0 \/ c.body.runes > 0)

FilterQuality(contents) ==
  At(contents, {i \in DOMAIN contents :
                  /\ Complete(contents[i])
                  /\ ~\E j \in 1 .. i - 1 :
                        contents[j].id = contents[i].id /\ Complete(contents[j])})

Fetched(feed, definition) == FilterQuality(FilterByTimeRange(BuildContents(feed), definition))

-----------------------------------------------------------------------------
(* The processors.  Each returns [ok, item]: a failure returns the item as *)
(* it was.  A reply of a server or of a model is [ok] or [ok, ...].        *)
Failed(item) == [ok |-> FALSE, item |-> item]
Done(item) == [ok |-> TRUE, item |-> item]

IsReply(name, reply) ==
  CASE name = "html_content" -> {reply.browser, reply.http} \subseteq Seq(Texts)
    [] name = "llm_summary" -> reply.ok => reply.words \in Nat
    [] name = "llm_tags" -> reply.ok =>
         IsList(reply.tags) /\ \A t \in DOMAIN reply.confidence : reply.confidence[t] \in Int
    [] name = "llm_keywords" -> reply.ok =>
         /\ IsList(reply.keywords) /\ IsList(reply.phrases)
         /\ \A k \in DOMAIN reply.scores : reply.scores[k] \in Int

(* html_content: the browser's page, or else one fetched over HTTP; its    *)
(* article, main part, body, or all of it, none of which is markup alone.  *)
Page(cfg, reply) ==
  IF cfg.useBrowser /\ cfg.browserlessURL # "" /\ FirstNonBlank(reply.browser).runes > 0
  THEN reply.browser ELSE reply.http

ProcessHTML(cfg, item, reply) ==
  LET body == FirstNonBlank(Page(cfg, reply)) IN
  IF body.runes = 0 THEN Failed(item) ELSE Done([item EXCEPT !.body = body])

-----------------------------------------------------------------------------
(* llm_summary.  Sizes are in words, 0 that of an empty summary.           *)
Sum(numbers) ==
  LET total[n \in 0 .. Len(numbers)] == IF n = 0 THEN 0 ELSE total[n - 1] + numbers[n] IN
  total[Len(numbers)]

FallbackSummary(cfg, item) ==
  LET sentences == IF item.body.sentences # <<>> THEN First(item.body.sentences, 3)
                   ELSE IF item.title # <<>> THEN <<Len(item.title)>> ELSE <<>>
      limit == cfg.maxSummaryLength IN
  CASE cfg.summaryStyle = "bullet_points" ->
         Sum([i \in DOMAIN sentences |-> 1 + Lesser(sentences[i], Greater(8, limit \div 3))])
    [] cfg.summaryStyle = "detailed" -> Lesser(Sum(sentences), limit)
    [] cfg.summaryStyle = "executive" -> Lesser(Sum(First(sentences, 2)), limit)
    [] OTHER -> Lesser(Sum(First(sentences, 1)), limit)

Summarized(item, by, size) == Done([item EXCEPT !.summary = [by |-> by, size |-> size]])

(* A fallback for a request that fails is taken as it is; the model's      *)
(* answer, or the fallback in the place of an empty one, is truncated.     *)
ProcessSummary(cfg, item, reply) ==
  LET limit == cfg.maxSummaryLength
      fallback == FallbackSummary(cfg, item) IN
  IF item.body.words \notin 50 .. 5000
  THEN IF fallback = 0 THEN Failed(item) ELSE Summarized(item, "fallback", fallback)
  ELSE IF reply.ok /\ reply.words > 0 THEN Summarized(item, "model", Lesser(reply.words, limit))
  ELSE IF ~cfg.base.enableFallback THEN Failed(item)
  ELSE IF ~reply.ok THEN Summarized(item, "fallback", fallback)
  ELSE IF fallback = 0 THEN Failed(item)
  ELSE Summarized(item, "model", Lesser(fallback, limit))

-----------------------------------------------------------------------------
(* llm_tags.  A reply has tags, and the confidence in some of them.        *)
Mentioned(item) == Words(item.title) \cup Words(item.body.terms)

Canonical(cfg, tag) ==
  LET same == {i \in DOMAIN cfg.availableTags : Word(cfg.availableTags[i]) = Word(tag)} IN
  IF same = {} THEN tag ELSE cfg.availableTags[Max(same)]

BugAllowed(cfg, tag) == TRUE
Allowed(cfg, tag) ==
  cfg.allowNewTags \/ cfg.availableTags = <<>> \/ Word(tag) \in Words(cfg.availableTags)

(* The confidence in the tag as it is spelled, or in its canonical form.   *)
Confidence(cfg, reply, tag) ==
  LET Of(t) == IF t \in DOMAIN reply.confidence THEN reply.confidence[t] ELSE 0 IN
  IF Of(tag) # 0 THEN Of(tag) ELSE Of(Canonical(cfg, tag))

NormalizeTags(cfg, reply) ==
  LET scored == DOMAIN reply.confidence # {}
      kept == At(reply.tags, {i \in DOMAIN reply.tags :
                /\ Runes[Word(reply.tags[i])] <= 50
                /\ Allowed(cfg, reply.tags[i])
                /\ scored => Confidence(cfg, reply, reply.tags[i]) >= cfg.confidenceThreshold})
      cleaned == [i \in DOMAIN kept |-> Canonical(cfg, kept[i])]
      score == [t \in ToSet(cleaned) |->
                  LET last == Max({i \in DOMAIN cleaned : cleaned[i] = t}) IN
                  Confidence(cfg, reply, kept[last])]
      tags == Deduped(cleaned) IN
  First(IF scored THEN ByScore(tags, score) ELSE tags, cfg.maxTags)

(* Each category with its tags, then the tags that have none.              *)
Categorize(cfg, tags) ==
  LET Under(i, j) == Word(tags[j]) \in cfg.categories[i].keywords
      Name(i) == IF cfg.categories[i].name = "general" THEN "" ELSE cfg.categories[i].name
      pairs == {p \in (DOMAIN cfg.categories) \X (DOMAIN tags) : Under(p[1], p[2])}
      found == [p \in pairs |-> [category |-> Name(p[1]), tag |-> tags[p[2]]]]
      rest == At(tags, {j \in DOMAIN tags : \A i \in DOMAIN cfg.categories : ~Under(i, j)}) IN
  InOrder(found, [p \in pairs |-> {q \in pairs : q[1] < p[1] \/ (q[1] = p[1] /\ q[2] < p[2])}])
    \o [i \in DOMAIN rest |-> [category |-> "", tag |-> rest[i]]]

(* The first words of each topic stand for all of its keywords.            *)
Heuristics == <<
  [tag |-> <<"technology", 1>>, keywords |-> {"software", "ai"}],
  [tag |-> <<"science", 1>>, keywords |-> {"research", "data"}]>>

FallbackTags(cfg, item) ==
  LET available == At(cfg.availableTags, {i \in DOMAIN cfg.availableTags :
                                            Word(cfg.availableTags[i]) \in Mentioned(item)})
      topics == At(Heuristics, {i \in DOMAIN Heuristics :
                                  Heuristics[i].keywords \cap Mentioned(item) # {}})
      general == IF topics = <<>> THEN <<<<"general", 1>>>>
                 ELSE [i \in DOMAIN topics |-> topics[i].tag] IN
  First(Deduped(IF cfg.availableTags # <<>> THEN available ELSE general), cfg.maxTags)

ProcessTags(cfg, item, reply) ==
  LET tags == IF reply.ok THEN NormalizeTags(cfg, reply) ELSE <<>>
      fallback == FallbackTags(cfg, item) IN
  IF item.body.runes < 10 THEN Done(item)
  ELSE IF tags # <<>> THEN Done([item EXCEPT !.tags = Categorize(cfg, tags)])
  ELSE IF cfg.base.enableFallback /\ fallback # <<>>
  THEN Done([item EXCEPT !.tags = [i \in DOMAIN fallback |-> [category |-> "", tag |-> fallback[i]]]])
  ELSE Failed(item)

-----------------------------------------------------------------------------
(* llm_keywords.  A reply has keywords, phrases, and scores of some.       *)
Suitable(cfg, keyword) ==
  /\ Runes[Word(keyword)] \in cfg.minKeywordLength .. cfg.maxKeywordLength
  /\ cfg.excludeCommonWords => Word(keyword) \notin cfg.stopWords
  /\ Word(keyword) \notin cfg.excluded

Limit(cfg) == Lesser(cfg.keywordsCount, cfg.maxKeywords)

NormalizeKeywords(cfg, reply) ==
  LET candidates == reply.keywords \o IF cfg.includePhrases THEN reply.phrases ELSE <<>>
      scored == DOMAIN reply.scores # {}
      score == [k \in ToSet(candidates) |-> IF k \in DOMAIN reply.scores THEN reply.scores[k] ELSE 0]
      kept == Deduped(At(candidates, {i \in DOMAIN candidates :
                /\ Suitable(cfg, candidates[i])
                /\ scored => score[candidates[i]] >= cfg.minImportanceScore})) IN
  First(IF scored THEN ByScore(kept, score) ELSE kept, Limit(cfg))

(* The most frequent terms of title and body, in the order of their bytes  *)
(* where they are equally frequent.                                        *)
FallbackKeywords(cfg, item) ==
  LET text == item.title \o item.body.terms
      found == At(TermOrder, {i \in DOMAIN TermOrder :
                                TermOrder[i] \in ToSet(text) /\ Suitable(cfg, TermOrder[i])})
      count == [t \in ToSet(found) |-> Cardinality({i \in DOMAIN text : text[i] = t})] IN
  Deduped(First(ByScore(found, count), Limit(cfg)))

ProcessKeywords(cfg, item, reply) ==
  LET keywords == IF reply.ok THEN NormalizeKeywords(cfg, reply) ELSE <<>>
      fallback == FallbackKeywords(cfg, item) IN
  IF item.body.runes < 20 THEN Done(item)
  ELSE IF keywords # <<>> THEN Done([item EXCEPT !.keywords = keywords])
  ELSE IF cfg.base.enableFallback /\ fallback # <<>> THEN Done([item EXCEPT !.keywords = fallback])
  ELSE Failed(item)

-----------------------------------------------------------------------------
ProcessOne(processor, item, reply) ==
  LET cfg == processor.config IN
  CASE processor.name = "html_content" -> ProcessHTML(cfg.base, item, reply)
    [] processor.name = "llm_summary" -> ProcessSummary(cfg, item, reply)
    [] processor.name = "llm_tags" -> ProcessTags(cfg, item, reply)
    [] processor.name = "llm_keywords" -> ProcessKeywords(cfg, item, reply)

FailsFast(processor) == processor.name # "html_content" /\ processor.config.base.failFast

(* The scraper's own keywords first; only equal ones are the same here.    *)
MergeKeywords(defaults, item) ==
  LET all == defaults \o item.keywords IN
  At(all, {i \in DOMAIN all : \A j \in 1 .. i - 1 : all[j] # all[i]})
=============================================================================
