-------------------------- MODULE MCServiceRuntime ---------------------------
(***************************************************************************)
(* TLC instance of ServiceRuntime.  The service accepts the documents of   *)
(* all jobs but the last two.                                              *)
(***************************************************************************)
EXTENDS ServiceRuntime

Str(s) == [kind |-> "string", value |-> s]
Num(n) == [kind |-> "integer", value |-> n]
Bool(b) == [kind |-> "boolean", value |-> b]
List(s) == [kind |-> "list", value |-> s]
Map(keys, f) == [kind |-> "mapping", value |-> f, keys |-> keys]
None == Map(<<>>, <<>>)

Source(fetcher, params, processors, defaults) == [
  id |-> Str("s"), name |-> Str("n"), enabled |-> Bool(TRUE), fetcher |-> Str(fetcher),
  hub_root |-> Str("http"), route |-> Str("/r"), priority |-> Num(5), fetch_params |-> params,
  content_processor_configs |-> processors, default_keywords |-> List(defaults)]

AI == <<"ai", 0>>
ai == <<"ai", 1>>
data == <<"data", 1>>
news == <<"news", 1>>
the == <<"the", 1>>

MCTermOrder == <<AI, ai, data, news, the>>
MCRunes == [ai |-> 2, data |-> 4, news |-> 4, the |-> 3, technology |-> 10, science |-> 7,
            general |-> 7]

Text(runes, sentences, terms) ==
  [runes |-> runes, words |-> Sum(sentences), sentences |-> sentences, terms |-> terms]
Brief == Text(30, <<4, 3>>, <<ai, the, data>>)
Long == Text(300, <<25, 20, 15>>, <<AI, data, data, news, the>>)

Entry(page, published, updated, text) == [
  link |-> [page |-> page], published |-> published, updated |-> updated, guid |-> "",
  title |-> <<AI, news>>, description |-> text, content |-> text, custom |-> Blank]

RSS(entries) == [type |-> "rss", entries |-> entries]
Atom(entries) == [type |-> "atom", entries |-> entries]

Plain == RSS(<<Entry("p", 5, 5, Brief)>>)
Twice == RSS(<<Entry("p", 5, 5, Long), Entry("p", 5, 5, Brief), Entry("q", 5, 5, Brief),
               Entry("", 5, 5, Brief)>>)
Dated == Atom(<<Entry("p", 5, 5, Long), Entry("q", 5, 6, Long), Entry("r", 1, 6, Long)>>)

Keywords == [keywords_count |-> Num(2), min_keyword_length |-> Num(3)]
Tags == [max_tags |-> Num(2), available_tags |-> List(<<AI, data>>), allow_new_tags |-> Bool(FALSE),
         priority |-> Num(50)]
Topics == [max_tags |-> Num(1), fail_fast |-> Bool(TRUE), enable_fallback |-> Bool(FALSE),
           custom_categories |-> Map(<<"general", "code">>,
             [general |-> <<"news">>, code |-> <<"ai", "data">>])]
Summary(style) == [max_summary_length |-> Num(9), summary_style |-> Str(style)]
Pages == [browserless_url |-> Str("http")]
Slow == [timeout_seconds |-> Num(2000)]

Only(name, raw) == Map(<<name>>, [n \in {name} |-> raw])

MCNumerals == [text \in {"2.5"} |-> 25]

MCJobs == <<
  [definition |-> Source("rsshub", None, Only("llm_keywords", Keywords), <<ai>>), feed |-> Plain],
  [definition |-> Source("rsshub", None,
     Map(<<"llm_summary", "llm_keywords", "llm_tags">>,
         [llm_summary |-> Summary("concise"), llm_keywords |-> Keywords, llm_tags |-> Tags]),
     <<data>>), feed |-> Twice],
  [definition |-> Source("direct_rss", Map(<<"filter_time">>, [filter_time |-> Str("2.5")]),
     Map(<<"html_content", "llm_summary">>,
         [html_content |-> Pages, llm_summary |-> Summary("bullet_points")]), <<>>),
   feed |-> Dated],
  [definition |-> Source("direct_rss", Map(<<"filter_time">>, [filter_time |-> Str("1h")]),
     None, <<>>), feed |-> Plain],
  [definition |-> [Source("rsshub", None, None, <<>>) EXCEPT !.route = Str("unparsable")],
   feed |-> Plain],
  [definition |-> Source("rsshub", None, Only("llm_tags", Topics), <<>>), feed |-> Twice],
  [definition |-> Source("rsshub", None, Only("llm_tags", Topics @@ Slow), <<>>), feed |-> Plain],
  [definition |-> Source("rsshub", None, Only("html_content", Slow), <<>>), feed |-> Plain]>>

MCBefore == [j \in DOMAIN MCJobs |-> IF j = 2 THEN {<<"q", 5, "">>} ELSE {}]

NoScore == [t \in {} |-> 0]
Refused == [ok |-> FALSE]
MCReplies == [
  html_content |-> {
    [ok |-> FALSE, browser |-> <<>>, http |-> <<>>],
    [ok |-> TRUE, browser |-> <<Blank>>, http |-> <<Blank, Brief>>],
    [ok |-> TRUE, browser |-> <<Long>>, http |-> <<>>]},
  llm_summary |-> {Refused, [ok |-> TRUE, words |-> 0], [ok |-> TRUE, words |-> 40]},
  llm_keywords |-> {
    Refused,
    [ok |-> TRUE, keywords |-> <<the, AI, data, news>>, phrases |-> <<>>, scores |-> NoScore],
    [ok |-> TRUE, keywords |-> <<the>>, phrases |-> <<data, news>>,
     scores |-> [t \in {data, news} |-> IF t = news THEN 8 ELSE 6]]},
  llm_tags |-> {
    Refused,
    [ok |-> TRUE, tags |-> <<ai, news, AI, data>>, confidence |-> NoScore],
    [ok |-> TRUE, tags |-> <<ai, data>>,
     confidence |-> [t \in {AI, data} |-> IF t = AI THEN 6 ELSE 9]]}]

MCAlone == DOMAIN MCJobs \ {1}
=============================================================================
