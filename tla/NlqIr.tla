------------------------------- MODULE NlqIr -------------------------------
(***************************************************************************)
(* The intermediate representation (IR) of a natural-language query:      *)
(* how an LLM answer, a pasted IR and the shorthand syntax become an IR,   *)
(* and how an IR is merged with the page's own and scoped to a service     *)
(* (services/query-api/src/llm_adapter.rs, libs/domain-core/src/nlq.rs).   *)
(*                                                                         *)
(* Names are abstract: a metric name is the sequence of its `_`-separated  *)
(* words, a free-text term is a sequence of words, <<>> and "" stand for   *)
(* an absent value.  `shape` stands for the fields that every operator     *)
(* below treats alike: window, resolution, visualization_hint,             *)
(* percentiles and limit.                                                  *)
(***************************************************************************)
EXTENDS Integers, FiniteSets, SequencesExt

Signals == {"metrics", "traces", "logs"}

\* The operations a raw "type" may be promoted to; inventory is not one.
PromotedOps == {"timeseries", "rate", "irate", "increase", "histogram",
                "topk", "table", "distribution", "catalog"}

Operations == PromotedOps \union {"inventory"}

FilterOps == {"=", "!=", "=~", "!~", ">", ">=", "<", "<="}

\* The names and values of queries: STRING, with the literals that occur
\* below named, because no prover knows a literal to be a STRING.
Names ==
  STRING \union Signals \union Operations \union FilterOps
    \union {"", "service_name", "absent", "now-1h", "now-24h"}

Filter(field, op, value) == [field |-> field, op |-> op, value |-> value]

Filters == [field : Names, op : Names, value : Names]

\* The elements of s at the positions in keep, in their order: a SelectSeq
\* that the proofs can reason about.
Kept(s, keep) ==
  LET kept[n \in 0 .. Len(s)] ==
        IF n = 0 THEN <<>>
        ELSE IF n \in keep THEN Append(kept[n - 1], s[n]) ELSE kept[n - 1]
  IN  kept[Len(s)]

\* to_lowercase on the names of the model: the capitalised spellings are the
\* only ones that differ from their lower-case form.
Lower(name) ==
  CASE name = "Service_Name" -> "service_name"
    [] name = "Latency" -> "latency"
    [] name = "Request" -> "request"
    [] OTHER -> name

----------------------------------------------------------------------------
(* Reading an LLM answer.                                                  *)

\* A raw IR as JSON: `object` says whether it is an object (null becomes
\* one), `fits` whether the parts not modelled here deserialise; from is
\* "absent" (no time_range) or "null" where the LLM left it out.
RawIr(op, sigs, metric, filters, from, fits) ==
  [present |-> TRUE, object |-> TRUE, operation |-> op, signals |-> sigs, metric |-> metric,
   filters |-> filters, from |-> from, fits |-> fits]

NoRaw == RawIr("", <<>>, <<>>, <<>>, "absent", FALSE)

Missing == [NoRaw EXCEPT !.present = FALSE]

\* A string, a number or a list where an IR should be.
NoObject == [NoRaw EXCEPT !.object = FALSE]

RawIrs ==
  [present : BOOLEAN, object : BOOLEAN, operation : Names, signals : Seq(Names), metric : Seq(Names),
   filters : Seq(Filters), from : Names, fits : BOOLEAN]

\* What is left of an answer once it has been read.
Parsed(kind, ir) == [kind |-> kind, ir |-> ir]

NoIr ==
  [operation |-> "", signals |-> <<>>, catalog_field |-> "", metric |-> <<>>,
   filters |-> <<>>, from |-> "", query |-> <<>>, group_by |-> <<>>,
   shape |-> ""]

Irs ==
  [operation : Names, signals : Seq(Names), catalog_field : Names, metric : Seq(Names),
   filters : Seq(Filters), from : Names, query : Seq(Seq(Names)), group_by : Seq(Names),
   shape : Names]

normalize_nlq_signals(sigs) ==
  IF sigs = <<>> THEN <<"metrics">>
  ELSE [i \in DOMAIN sigs |-> IF sigs[i] \in Signals THEN sigs[i] ELSE "metrics"]

patch_null_time_range(from) == IF from = "null" THEN "now-24h" ELSE from

\* Of an object only: writing a field into any other value panics.
normalize_nlq_ir(raw) ==
  [raw EXCEPT
     !.signals = normalize_nlq_signals(@),
     !.filters = Kept(@, {i \in DOMAIN @ : @[i].op \in FilterOps}),
     !.from    = IF @ = "absent" THEN "now-24h" ELSE patch_null_time_range(@)]

\* serde: an unknown or absent operation fails, and so does an unknown
\* filter operator or a null bound that was not normalised away.
Deserialize(raw) ==
  IF /\ raw.object
     /\ raw.operation \in Operations
     /\ raw.fits
     /\ raw.from \notin {"absent", "null"}
     /\ Range(raw.signals) \subseteq Signals
     /\ \A i \in DOMAIN raw.filters : raw.filters[i].op \in FilterOps
  THEN Parsed("ir", [NoIr EXCEPT !.operation = raw.operation,
                                 !.signals = raw.signals,
                                 !.metric = raw.metric,
                                 !.filters = raw.filters,
                                 !.from = raw.from])
  ELSE Parsed("invalid", NoIr)

\* The "type" of the answer becomes the operation of an IR that has none.
Promote(raw, type) ==
  [raw EXCEPT !.operation = IF @ = "" /\ type \in PromotedOps THEN type ELSE @]

ChatTypes == {"response", "chat", "message", "result"}

(* Mutant: the chat wrapper's inner IR is deserialised without being      *)
(* normalised first.                                                       *)
FromChatWrapper_MutRaw(answer) ==
  IF answer.content.present THEN Deserialize(answer.content)
  ELSE Parsed("invalid", NoIr)

\* Case 2: the IR sits in a content, result, data or output field, which is
\* looked into only when it is an object.
FromChatWrapper(answer) ==
  IF answer.content.present THEN Deserialize(normalize_nlq_ir(answer.content))
  ELSE Parsed("invalid", NoIr)

\* Case 1: any other type next to an "ir" field.
FromHybridEnvelope(answer) ==
  IF answer.type # "" /\ answer.ir.present
  THEN Deserialize(normalize_nlq_ir(Promote(answer.ir, answer.type)))
  ELSE Parsed("invalid", NoIr)

\* Case 3: the fields of the IR are the fields of the answer, which is an
\* object if it has an operation.
FromBareIr(answer) ==
  Deserialize(normalize_nlq_ir(Promote(answer.top, answer.type)))

\* An answer: whether it is JSON at all, its "type" ("" when absent), the
\* IR under "ir", the one under a chat wrapper's field, and its own fields.
Answer(json, type, ir, content, top) ==
  [json |-> json, type |-> type, ir |-> ir, content |-> content, top |-> top]

AnswerBodies ==
  [json : BOOLEAN, type : Names, ir : RawIrs, content : RawIrs, top : RawIrs]

\* An "ir" that is not an object is normalised all the same, which panics.
Panics(answer) ==
  /\ answer.json /\ answer.type \notin {"", "decline", "capabilities"}
  /\ answer.ir.present /\ ~answer.ir.object

parse_llm_response(answer) ==
  CASE ~answer.json -> Parsed("invalid", NoIr)
    [] Panics(answer) -> Parsed("panic", NoIr)
    [] answer.json /\ ~Panics(answer) /\ answer.type = "ir" ->
         IF answer.ir.present THEN Deserialize(normalize_nlq_ir(answer.ir))
         ELSE Parsed("invalid", NoIr)
    [] answer.json /\ answer.type \in {"decline", "capabilities"} ->
         Parsed(answer.type, NoIr)
    [] OTHER ->
         IF FromHybridEnvelope(answer).kind = "ir" THEN FromHybridEnvelope(answer)
         ELSE IF answer.type \in ChatTypes THEN FromChatWrapper(answer)
         ELSE FromBareIr(answer)

----------------------------------------------------------------------------
(* Composing IRs.                                                          *)

\* The filters of base on fields that the user's filters do not name,
\* whatever their case, then the user's.
OverrideFilters(base, user) ==
  Kept(base, {k \in DOMAIN base :
                \A i \in DOMAIN user : Lower(user[i].field) # Lower(base[k].field)})
    \o user

Or(value, other, none) == IF value = none THEN other ELSE value

merge_irs(base, user) ==
  [operation     |-> base.operation,
   signals       |-> base.signals,
   catalog_field |-> base.catalog_field,
   filters       |-> OverrideFilters(base.filters, user.filters),
   from          |-> Or(user.from, base.from, ""),
   query         |-> user.query,
   metric        |-> Or(base.metric, user.metric, <<>>),
   group_by      |-> Or(base.group_by, user.group_by, <<>>),
   shape         |-> Or(base.shape, user.shape, "")]

(* Mutant: a scope equal to one of the filters' values counts as applied,  *)
(* whatever field that filter is on.                                       *)
enforce_service_scope_MutAnyField(ir, service) ==
  IF \E i \in DOMAIN ir.filters :
        ir.filters[i].field = "service_name" \/ ir.filters[i].value = service
  THEN ir
  ELSE [ir EXCEPT !.filters = Append(@, Filter("service_name", "=", service))]

enforce_service_scope(ir, service) ==
  IF \E i \in DOMAIN ir.filters : ir.filters[i].field = "service_name" THEN ir
  ELSE [ir EXCEPT !.filters = Append(@, Filter("service_name", "=", service))]

----------------------------------------------------------------------------
(* The shorthand syntax: a sequence of tokens, already split at spaces     *)
(* and quotes.  prefix is "m", "f" or "op", "" for field:value, and "word" *)
(* for a token without a colon.                                            *)

Token(prefix, field, value) == [prefix |-> prefix, field |-> field, value |-> value]

ShorthandTokens == [prefix : Names, field : Names, value : Names]

\* A field:value token with an empty side is free text again.
FreeText(t) == t.prefix = "word" \/ (t.prefix = "" /\ (t.field = "" \/ t.value = ""))

\* f: allows an empty value and drops a token without a field.
IsFilter(t) == (t.prefix = "f" /\ t.field # "") \/ (t.prefix = "" /\ ~FreeText(t))

parse_shorthand_operation(name) == IF name \in Operations THEN name ELSE ""

parse_shorthand_ir(tokens) ==
  LET at      == DOMAIN tokens
      metrics == Kept(tokens, {i \in at : tokens[i].prefix = "m" /\ tokens[i].value # ""})
      ops     == Kept(tokens, {i \in at : tokens[i].prefix = "op"})
      filters == Kept(tokens, {i \in at : IsFilter(tokens[i])})
      words   == Kept(tokens, {i \in at : FreeText(tokens[i])})
  IN  [metric    |-> IF metrics = <<>> THEN <<>> ELSE <<Last(metrics).value>>,
       operation |-> IF ops = <<>> THEN "" ELSE parse_shorthand_operation(Last(ops).value),
       filters   |-> [i \in DOMAIN filters |-> Filter(filters[i].field, "=", filters[i].value)],
       query     |-> [i \in DOMAIN words |-> <<words[i].field, words[i].value>>]]

into_nlq_ir(sh) ==
  [NoIr EXCEPT !.operation = Or(sh.operation, "timeseries", ""),
               !.signals   = IF sh.metric = <<>> /\ sh.query # <<>> THEN <<"logs">>
                             ELSE <<"metrics">>,
               !.metric    = sh.metric,
               !.filters   = sh.filters,
               !.from      = "now-1h",
               !.query     = sh.query]

apply_shorthand_to_ir(base, sh) ==
  [base EXCEPT !.operation = Or(sh.operation, @, ""),
               !.metric    = Or(sh.metric, @, <<>>),
               !.filters   = OverrideFilters(@, sh.filters),
               !.query     = sh.query]

----------------------------------------------------------------------------
(* Resolving the metric an LLM guessed against the registered ones.        *)

LowerName(name) == [i \in DOMAIN name |-> Lower(name[i])]

Aliases(word) ==
  CASE word = "latency" -> <<"latency", "duration", "response">>
    [] word = "duration" -> <<"duration", "latency", "response">>
    [] word = "response" -> <<"response", "latency", "duration">>
    [] word \in {"requests", "request"} -> <<word, "request", "requests", "http">>
    [] word \in {"errors", "error"} -> <<word, "error", "errors", "fault">>
    [] word = "cpu" -> <<"cpu", "cpu", "processor">>
    [] word \in {"memory", "mem"} -> <<word, "memory", "mem", "heap">>
    [] word \in {"served", "count", "total"} -> <<word, "request", "count", "total">>
    [] word \in {"rate", "per", "second"} -> <<word, "request", "duration", "rate">>
    [] OTHER -> <<word>>

\* Substring containment, at the granularity of words.
Occurs(part, whole) ==
  \E i \in 0 .. (Len(whole) - Len(part)) : SubSeq(whole, i + 1, i + Len(part)) = part

Score(guess, candidate) ==
  LET expanded == FlattenSeq([i \in DOMAIN guess |-> Aliases(guess[i])])
  IN  (IF Occurs(guess, candidate) THEN 3 ELSE IF Occurs(candidate, guess) THEN 2 ELSE 0)
        + Cardinality({i \in DOMAIN expanded : expanded[i] \in Range(candidate)})

(* Mutant: the early return on an exact match is lost, so a longer name   *)
(* that shares more words wins.                                            *)
fuzzy_resolve_metric_MutNoExact(guess, known) ==
  LET g == LowerName(guess)
      score == [i \in DOMAIN known |-> Score(g, LowerName(known[i]))]
      best == {i \in DOMAIN known : score[i] >= 1 /\ \A j \in DOMAIN known :
                 score[j] < score[i] \/ (score[j] = score[i] /\ i <= j)}
  IN  CASE Len(known) = 1 -> known[1]
        [] Len(known) # 1 /\ best # {} -> known[CHOOSE i \in best : TRUE]
        [] OTHER -> <<>>

\* <<>> when no registered metric is close enough.
fuzzy_resolve_metric(guess, known) ==
  LET g     == LowerName(guess)
      exact == {i \in DOMAIN known : LowerName(known[i]) = g}
      score == [i \in DOMAIN known |-> Score(g, LowerName(known[i]))]
      best  == {i \in DOMAIN known : score[i] >= 1 /\ \A j \in DOMAIN known :
                  score[j] < score[i] \/ (score[j] = score[i] /\ i <= j)}
  IN  CASE Len(known) = 1 -> known[1]
        [] Len(known) # 1 /\ exact # {} -> known[CHOOSE i \in exact : \A j \in exact : i <= j]
        [] Len(known) # 1 /\ exact = {} /\ best # {} -> known[CHOOSE i \in best : TRUE]
        [] OTHER -> <<>>

============================================================================
