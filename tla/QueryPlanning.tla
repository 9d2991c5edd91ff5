--------------------------- MODULE QueryPlanning ---------------------------
(***************************************************************************)
(* From an NLQ IR to the query that runs: the routing by signal and        *)
(* operation, the schema and field checks, and the conditions of the       *)
(* generated SQL (services/query-api/src/mcp_query.rs,                     *)
(* libs/query-core/src/sql_templates.rs).                                  *)
(*                                                                         *)
(* A query is its table, its conditions besides the tenant's, its row      *)
(* limit (0 for none) and the error that kept it from being generated      *)
(* ("" for none).  Column names and aliases are abstract; the values of    *)
(* filters are told apart only by what the checks tell apart.              *)
(***************************************************************************)
EXTENDS NlqIr

Condition(column, op, value) == [column |-> column, op |-> op, value |-> value]

Query(table, conditions, limit) ==
  [table |-> table, conditions |-> conditions, limit |-> limit, error |-> ""]

Failed(error) == [table |-> "", conditions |-> <<>>, limit |-> 0, error |-> error]

----------------------------------------------------------------------------
(* Filters.                                                                *)

NumericValues == {"5"}           \* values that parse as f64
LongPatterns  == {"very_long"}   \* patterns of more than 256 characters

\* The numeric operators need a number, the regex ones a short pattern.
build_filter_expr_checked(f) ==
  CASE f.op \in {">", ">=", "<", "<="} -> f.value \in NumericValues
    [] f.op \in {"=~", "!~"} -> f.value \notin LongPatterns
    [] OTHER -> TRUE

map_filter_field(field) ==
  CASE field \in {"service_name", "service"} -> "service_name"
    [] field \in {"environment", "env"} -> "environment"
    [] field \in {"metric_name", "metric"} -> "metric_name"
    [] OTHER -> "attribute"

map_log_filter_field(field) ==
  CASE field \in {"service_name", "service"} -> "service_name"
    [] field \in {"severity_text", "severity", "level"} -> "severity_text"
    [] field \in {"environment", "env"} -> "environment"
    [] field \in {"trace_id", "span_id", "body"} -> field
    [] OTHER -> "attribute"

FiltersValid(filters) == \A i \in DOMAIN filters : build_filter_expr_checked(filters[i])

\* Every filter becomes one condition, joined by AND.
Conditions(filters, column(_)) ==
  [i \in DOMAIN filters |->
     Condition(column(filters[i].field), filters[i].op, filters[i].value)]

(* Mutant: a second filter on a column replaces the first instead of       *)
(* joining it.                                                             *)
build_filter_clauses_checked_MutLastWins(filters) ==
  LET last == {i \in DOMAIN filters : \A j \in DOMAIN filters :
                 map_filter_field(filters[j].field) = map_filter_field(filters[i].field)
                   => j <= i}
  IN  SetToSeq({Condition(map_filter_field(filters[i].field), filters[i].op,
                          filters[i].value) : i \in last})

build_filter_clauses_checked(filters) == Conditions(filters, map_filter_field)

build_log_filter_clauses_checked(filters) == Conditions(filters, map_log_filter_field)

\* Relative times, "now" and integers; anything else, an empty string and
\* an offset that overflows 64 bits are refused.
parse_time_expr(from) == from \in {"now", "now-1h", "now-24h"}

----------------------------------------------------------------------------
(* The SQL templates.                                                      *)

Windowed == {"rate", "irate", "increase"}

\* The row limits of the templates; topk takes the IR's.
TemplateLimit(ir) ==
  CASE ir.operation = "topk" -> IF ir.shape = "limit5" THEN 5 ELSE 10
    [] ir.operation = "table" -> 1000
    [] ir.operation = "catalog" -> 100
    [] OTHER -> 0

catalog_sql(ir) ==
  CASE ir.catalog_field = "" -> Failed("missing_catalog_field")
    [] ir.catalog_field # "" /\ ~FiltersValid(ir.filters) -> Failed("invalid_filter")
    [] OTHER -> Query("metric_series", build_filter_clauses_checked(ir.filters),
                      TemplateLimit(ir))

\* timeseries, rate, irate, increase, histogram, topk, table, distribution:
\* a resolution and a window that do not parse fail the templates that use
\* them.
MetricTemplate(ir) ==
  IF ir.shape = "bad_window" /\ ir.operation \in Windowed \union {"timeseries"}
  THEN Failed("invalid_resolution")
  ELSE IF ~FiltersValid(ir.filters) THEN Failed("invalid_filter")
  ELSE IF ~parse_time_expr(ir.from) THEN Failed("invalid_time")
  ELSE Query("metric_points",
             <<Condition("metric_name", "=", "the metric")>>
               \o build_filter_clauses_checked(ir.filters),
             TemplateLimit(ir))

generate_sql(ir) ==
  CASE ir.operation = "catalog" -> catalog_sql(ir)
    [] ir.operation = "inventory" -> Failed("missing_metric_name")
    [] OTHER -> MetricTemplate(ir)

generate_log_sql(ir) ==
  IF ~parse_time_expr(ir.from) THEN Failed("invalid_time")
  ELSE IF ~FiltersValid(ir.filters) THEN Failed("invalid_filter")
  ELSE Query("logs",
             (IF ir.query = <<>> THEN <<>>
              ELSE <<Condition("body", "contains", "query")>>)
               \o build_log_filter_clauses_checked(ir.filters),
             200)

----------------------------------------------------------------------------
(* Routing.                                                                *)

\* The value of the first equality filter on a field, in any case; filters
\* with another operator and on other fields are not looked at.
FilterValue(ir, field) ==
  LET eq == SelectSeq(ir.filters, LAMBDA f : Lower(f.field) = field /\ f.op = "=")
  IN  IF eq = <<>> THEN "" ELSE eq[1].value

OnColumn(ir, field, column) ==
  IF FilterValue(ir, field) = "" THEN <<>>
  ELSE <<Condition(column, "=", FilterValue(ir, field))>>

execute_trace_query(ir) ==
  IF ~parse_time_expr(ir.from) THEN Failed("invalid_time")
  ELSE Query("spans", OnColumn(ir, "service_name", "service_name")
                        \o OnColumn(ir, "status_code", "status_code")
                        \o OnColumn(ir, "environment", "environment"), 500)

\* A lookback that is not a relative time falls back to one hour.
execute_inventory_query(ir) ==
  Query("resources", OnColumn(ir, "environment", "environment")
                       \o OnColumn(ir, "service_name", "service_name"), 0)

allowed_metric_filter_fields ==
  {"service_name", "service", "environment", "env", "metric_name", "metric"}

execute_catalog_query(ir) == generate_sql(ir)

execute_log_query(ir) == generate_log_sql(ir)

\* Filters may also be on the fields of the registry (list_signal_fields).
\* A field is a word, and the name of a field a sequence of words.
allowed_fields(registered) ==
  {<<field>> : field \in allowed_metric_filter_fields}
    \union {LowerName(name) : name \in Range(registered)}

\* registered: the metric names the tenant's schema registry knows, which
\* are also the field names list_signal_fields returns.
execute_mcp_query(ir, registered) ==
  IF ir.signals = <<"logs">> THEN execute_log_query(ir)
  ELSE IF ir.signals = <<"traces">> THEN execute_trace_query(ir)
  ELSE IF ir.operation = "catalog" THEN execute_catalog_query(ir)
  ELSE IF ir.operation = "inventory" THEN execute_inventory_query(ir)
  ELSE IF ir.metric = <<>> THEN Failed("missing_metric")
  ELSE IF ir.metric \notin Range(registered) THEN Failed("unknown_metric")
  ELSE IF \E i \in DOMAIN ir.filters :
            <<Lower(ir.filters[i].field)>> \notin allowed_fields(registered)
  THEN Failed("invalid_filter")
  ELSE generate_sql(ir)

============================================================================
