-------------------------- MODULE ScraperDefinition --------------------------
(***************************************************************************)
(* What a scraper's YAML document means: the loader's checks, the          *)
(* validator's, which creates the fetcher and every processor, and the     *)
(* parsing of a processor's options (src/internal/config/yaml_loader.go,   *)
(* app/config_validator.go, processor/config.go and registry.go,           *)
(* fetcher/fetchers.go).                                                   *)
(*                                                                         *)
(* A decoded value is [kind, value]; a mapping also has its keys in the    *)
(* order of the document, and is there even if the document leaves it to   *)
(* its default.  Fractions are in tenths, text that only has to be an      *)
(* absolute URL is "http" or "ws" if it is one, "unparsable" is text that  *)
(* is neither a URL nor a pattern, and a pattern or a category's keyword   *)
(* stands for the words that contain it.                                   *)
(***************************************************************************)
EXTENDS Integers, Sequences, FiniteSets, SequencesExt

CONSTANTS Width \* bits of a time.Duration, which counts milliseconds here

ASSUME ScraperDefinitionAssumption == Width \in Nat \ {0}

MaxDuration == 2^(Width - 1) - 1
Millisecond == 1
Second == 1000

IsList(s) == s \in Seq(ToSet(s))

(* What a decoder makes of a document: a value is of the kind it says.     *)
Decoded(v) ==
  /\ v.kind \in {"integer", "number"} => v.value \in Int
  /\ v.kind = "list" => IsList(v.value)
  /\ v.kind = "mapping" => IsList(v.keys)

(* The elements of a sequence, or of any function, at the positions of     *)
(* ahead, which gives those that are ahead of each in a total order.       *)
InOrder(seq, ahead) ==
  [k \in 1 .. Cardinality(DOMAIN ahead) |->
     seq[CHOOSE i \in DOMAIN ahead : Cardinality(ahead[i]) = k - 1]]

-----------------------------------------------------------------------------
Kinds(kind) ==
  CASE kind = "number" -> {"number", "integer"}
    [] kind = "string or null" -> {"string", "null"}
    [] kind = "list or null" -> {"list", "null"}
    [] OTHER -> {kind}

(* A field that is given has its kind.                                     *)
ValidateConfigFields(raw, specs) ==
  \A key \in DOMAIN specs \cap DOMAIN raw : raw[key].kind \in Kinds(specs[key])

(* getString, getBool, getInt, getStringSlice: the first of the keys that  *)
(* has a value of the kind.                                                *)
Get(raw, kind, fallback, keys) ==
  LET given == {i \in DOMAIN keys : keys[i] \in DOMAIN raw /\ raw[keys[i]].kind = kind} IN
  IF given = {} THEN fallback ELSE raw[keys[Min(given)]].value

GetFloat(raw, fallback, key) ==
  Get(raw, "number", 10 * Get(raw, "integer", fallback \div 10, <<key>>), <<key>>)

-----------------------------------------------------------------------------
(* An int64 product.                                                       *)
Wrapped(n) == ((n + MaxDuration + 1) % (2 * (MaxDuration + 1))) - MaxDuration - 1

BugTooLong(value, unit) == FALSE
TooLong(value, unit) == value > MaxDuration \div unit

(* The options of a page request and of a model request, and of a browser. *)
Timeout(raw) == Get(raw, "integer", 30, <<"timeout_seconds", "timeout">>)
BrowserTimeout(raw) == Get(raw, "integer", 60000, <<"browser_timeout_ms", "browser_timeout">>)
ValidDuration(value, unit) == value > 0 /\ ~TooLong(value, unit)

-----------------------------------------------------------------------------
HTMLFields == [
  priority |-> "integer", timeout_seconds |-> "integer", timeout |-> "integer",
  user_agent |-> "string", browserless_url |-> "string", browser_url |-> "string",
  cdp_url |-> "string", use_browser |-> "boolean", browser_timeout_ms |-> "integer",
  browser_timeout |-> "integer"]

ParseHTMLConfig(raw) == [
  priority |-> Get(raw, "integer", 100, <<"priority">>),
  timeout |-> Wrapped(Second * Timeout(raw)),
  browserTimeout |-> Wrapped(Millisecond * BrowserTimeout(raw)),
  browserlessURL |-> Get(raw, "string", "", <<"browserless_url", "browser_url", "cdp_url">>),
  useBrowser |-> Get(raw, "boolean", TRUE, <<"use_browser">>)]

ValidHTMLConfig(raw) ==
  LET cfg == ParseHTMLConfig(raw) IN
  /\ ValidateConfigFields(raw, HTMLFields)
  /\ ValidDuration(Timeout(raw), Second)
  /\ ValidDuration(BrowserTimeout(raw), Millisecond)
  /\ cfg.priority >= 0
  /\ cfg.useBrowser => cfg.browserlessURL \in {"", "http", "ws"}

BaseLLMFields == [
  priority |-> "integer", llm_provider |-> "string", model_name |-> "string", model |-> "string",
  max_tokens |-> "integer", temperature |-> "number", timeout_seconds |-> "integer",
  timeout |-> "integer", retry_times |-> "integer", api_key |-> "string or null",
  api_base |-> "string or null", base_url |-> "string or null", fail_fast |-> "boolean",
  enable_fallback |-> "boolean"]

(* base_url, or else api_base, or else the default, an HTTP URL.           *)
BaseURL(raw) ==
  LET first == Get(raw, "string", "", <<"base_url">>)
      second == Get(raw, "string", "http", <<"api_base">>) IN
  IF first # "" THEN first ELSE IF second # "" THEN second ELSE "http"

ParseBaseLLMConfig(raw) == [
  priority |-> Get(raw, "integer", 100, <<"priority">>),
  timeout |-> Wrapped(Second * Timeout(raw)),
  retryTimes |-> Get(raw, "integer", 3, <<"retry_times">>),
  failFast |-> Get(raw, "boolean", FALSE, <<"fail_fast">>),
  enableFallback |-> Get(raw, "boolean", TRUE, <<"enable_fallback">>)]

ValidBaseLLMConfig(raw) ==
  LET cfg == ParseBaseLLMConfig(raw) IN
  /\ ValidateConfigFields(raw, BaseLLMFields)
  /\ ValidDuration(Timeout(raw), Second)
  /\ cfg.priority >= 0
  /\ Get(raw, "string", "openai", <<"llm_provider">>) = "openai"
  /\ Get(raw, "string", "gpt", <<"model_name", "model">>) # ""
  /\ Get(raw, "integer", 1000, <<"max_tokens">>) > 0
  /\ GetFloat(raw, 7, "temperature") \in 0 .. 20
  /\ cfg.retryTimes > 0
  /\ BaseURL(raw) = "http"

SummaryFields == [
  max_summary_length |-> "integer", summary_style |-> "string",
  preserve_structure |-> "boolean", include_key_points |-> "boolean"]

ParseSummaryConfig(raw) == [
  base |-> ParseBaseLLMConfig(raw),
  maxSummaryLength |-> Get(raw, "integer", 200, <<"max_summary_length">>),
  summaryStyle |-> Get(raw, "string", "concise", <<"summary_style">>)]

ValidSummaryConfig(raw) ==
  LET cfg == ParseSummaryConfig(raw) IN
  /\ ValidateConfigFields(raw, SummaryFields)
  /\ ValidBaseLLMConfig(raw)
  /\ cfg.maxSummaryLength > 0
  /\ cfg.summaryStyle \in {"concise", "detailed", "bullet_points", "executive"}

KeywordsFields == [
  keywords_count |-> "integer", max_keywords |-> "integer", min_keyword_length |-> "integer",
  max_keyword_length |-> "integer", exclude_common_words |-> "boolean",
  include_phrases |-> "boolean", language_preference |-> "string",
  exclude_patterns |-> "list or null", custom_stop_words |-> "list or null",
  min_importance_score |-> "number"]

ParseKeywordsConfig(raw) == [
  base |-> ParseBaseLLMConfig(raw),
  keywordsCount |-> Get(raw, "integer", 3, <<"keywords_count">>),
  maxKeywords |-> Get(raw, "integer", 10, <<"max_keywords">>),
  minKeywordLength |-> Get(raw, "integer", 2, <<"min_keyword_length">>),
  maxKeywordLength |-> Get(raw, "integer", 20, <<"max_keyword_length">>),
  excludeCommonWords |-> Get(raw, "boolean", TRUE, <<"exclude_common_words">>),
  includePhrases |-> Get(raw, "boolean", TRUE, <<"include_phrases">>),
  stopWords |-> ToSet(Get(raw, "list", <<>>, <<"custom_stop_words">>)) \cup {"the", "and"},
  excluded |-> ToSet(Get(raw, "list", <<>>, <<"exclude_patterns">>)),
  minImportanceScore |-> GetFloat(raw, 0, "min_importance_score")]

ValidKeywordsConfig(raw) ==
  LET cfg == ParseKeywordsConfig(raw) IN
  /\ ValidateConfigFields(raw, KeywordsFields)
  /\ ValidBaseLLMConfig(raw)
  /\ cfg.maxKeywords > 0 /\ cfg.keywordsCount > 0
  /\ 0 < cfg.minKeywordLength /\ cfg.minKeywordLength <= cfg.maxKeywordLength
  /\ Get(raw, "string", "mixed", <<"language_preference">>) \in {"en", "zh", "mixed"}
  /\ cfg.minImportanceScore \in 0 .. 10
  /\ "unparsable" \notin cfg.excluded

TagsFields == [
  available_tags |-> "list", max_tags |-> "integer", max_tags_count |-> "integer",
  allow_new_tags |-> "boolean", confidence_threshold |-> "number",
  custom_categories |-> "mapping"]

(* The categories, and their names in the order of the document, which the *)
(* executor hands to the processor (SetCustomCategoryOrder).               *)
Categories(raw) ==
  IF "custom_categories" \notin DOMAIN raw THEN <<>>
  ELSE LET c == raw["custom_categories"] IN
       [i \in DOMAIN c.keys |-> [name |-> c.keys[i], keywords |-> ToSet(c.value[c.keys[i]])]]

ParseTagsConfig(raw) == [
  base |-> ParseBaseLLMConfig(raw),
  availableTags |-> Get(raw, "list", <<>>, <<"available_tags">>),
  categories |-> Categories(raw),
  maxTags |-> Get(raw, "integer", 5, <<"max_tags">>),
  allowNewTags |-> Get(raw, "boolean", TRUE, <<"allow_new_tags">>),
  confidenceThreshold |-> GetFloat(raw, 5, "confidence_threshold")]

ValidTagsConfig(raw) ==
  LET cfg == ParseTagsConfig(raw) IN
  /\ ValidateConfigFields(raw, TagsFields)
  /\ ValidBaseLLMConfig(raw)
  /\ cfg.maxTags > 0
  /\ Get(raw, "integer", 5, <<"max_tags_count">>) > 0
  /\ cfg.confidenceThreshold \in 0 .. 10

-----------------------------------------------------------------------------
Supported == {"html_content", "llm_summary", "llm_keywords", "llm_tags"}

Creatable(name, raw) ==
  CASE name = "html_content" -> ValidHTMLConfig(raw)
    [] name = "llm_summary" -> ValidSummaryConfig(raw)
    [] name = "llm_keywords" -> ValidKeywordsConfig(raw)
    [] name = "llm_tags" -> ValidTagsConfig(raw)
    [] OTHER -> FALSE

Created(name, raw) == [
  name |-> name,
  config |-> CASE name = "html_content" -> [base |-> ParseHTMLConfig(raw)]
               [] name = "llm_summary" -> ParseSummaryConfig(raw)
               [] name = "llm_keywords" -> ParseKeywordsConfig(raw)
               [] name = "llm_tags" -> ParseTagsConfig(raw)]

(* The priorities that the pipeline is sorted by.                          *)
Priority(processor) == processor.config.base.priority

-----------------------------------------------------------------------------
(* The order of the document, which has every name, then by priority.      *)
OrderedProcessorNames(definition) == definition.content_processor_configs.keys

Pipeline(definition) ==
  LET names == OrderedProcessorNames(definition)
      made == [i \in DOMAIN names |->
                 Created(names[i], definition.content_processor_configs.value[names[i]])] IN
  InOrder(made, [i \in DOMAIN names |->
    {j \in DOMAIN names : \/ Priority(made[j]) < Priority(made[i])
                          \/ Priority(made[j]) = Priority(made[i]) /\ j < i}])

PipelineIsCreatable(definition) ==
  \A name \in ToSet(OrderedProcessorNames(definition)) :
    Creatable(name, definition.content_processor_configs.value[name])

(* The query of an RSSHub request can be built from these.                 *)
QueryKinds == {"string", "boolean", "integer", "number", "list"}

FetcherIsCreatable(definition) ==
  /\ definition.hub_root.value # "" /\ definition.route.value # ""
  /\ CASE definition.fetcher.value = "rsshub" ->
            \A key \in ToSet(definition.fetch_params.keys) :
              definition.fetch_params.value[key].kind \in QueryKinds
       [] definition.fetcher.value = "direct_rss" -> TRUE
       [] OTHER -> FALSE

Required(definition, field) ==
  /\ field \in DOMAIN definition
  /\ definition[field].kind = "string" /\ definition[field].value # ""

Fields == {"id", "name", "enabled", "fetcher", "hub_root", "route", "fetch_params", "priority",
           "content_processor_configs", "default_keywords"}

(* validateScraperConfig.                                                  *)
Loadable(definition) ==
  /\ DOMAIN definition \subseteq Fields
  /\ \A field \in {"id", "name", "fetcher", "hub_root", "route"} : Required(definition, field)
  /\ definition.fetcher.value \in {"rsshub", "direct_rss"}
  /\ definition.hub_root.value = "http"
  /\ definition.priority.kind = "integer" /\ definition.priority.value \in 1 .. 10
  /\ definition.enabled.kind = "boolean"
  /\ definition.fetch_params.kind = "mapping"
  /\ definition.default_keywords.kind = "list"
  /\ definition.content_processor_configs.kind = "mapping"
  /\ ToSet(definition.content_processor_configs.keys) \subseteq Supported

(* What the decoder has made of a whole document.                          *)
IsDocument(definition) ==
  LET processors == definition.content_processor_configs IN
  /\ Decoded(definition.default_keywords) /\ Decoded(processors)
  /\ \A name \in ToSet(processors.keys) :
       \A key \in DOMAIN processors.value[name] : Decoded(processors.value[name][key])

(* What the service serves.                                                *)
Accepted(definition) ==
  Loadable(definition) /\ FetcherIsCreatable(definition) /\ PipelineIsCreatable(definition)
=============================================================================
