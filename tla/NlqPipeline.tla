---------------------------- MODULE NlqPipeline ----------------------------
(***************************************************************************)
(* The natural-language query endpoints of query-api: POST /v1/nlq, which  *)
(* calls the LLM itself, and the two-phase POST /v1/nlq/prepare and        *)
(* /v1/nlq/complete, between which the client runs the LLM and the server  *)
(* keeps a session (services/query-api/src/llm_adapter.rs,                 *)
(* nlq_session.rs).  Sessions live in the memory of one replica.           *)
(*                                                                         *)
(* A call of /complete removes its session from the store, awaits the      *)
(* schema registry and ClickHouse, and may put the session back: other     *)
(* calls with the same token run in between.                               *)
(***************************************************************************)
EXTENDS QueryPlanning

CONSTANTS
  Replicas,     \* query-api processes
  NlqTenants,   \* tenants
  Tokens,       \* session tokens, never reused
  NlqCalls,     \* requests in progress
  Questions,    \* requests: see Question
  Answers,      \* what an LLM may answer: a set of Answer(...)
  Registered,   \* the metrics of the schema registry, as a sequence
  MaxResumes    \* bound: how often one token is resumed

\* What serde makes of a request body and of an answer, and the names the
\* schema registry returns.
QuestionBodies ==
  [kind : {"empty", "raw", "shorthand", "text"}, raw : RawIrs, tokens : Seq(ShorthandTokens),
   denied : BOOLEAN, service : Names, base : Irs, mode : {"execute", "interpret"}]

ASSUME NlqAssumption ==
  /\ MaxResumes \in Nat \ {0}
  /\ Questions \subseteq QuestionBodies
  /\ Answers \subseteq AnswerBodies
  /\ Registered \in Seq(Seq(Names))

VARIABLES
  sessions,   \* [Replicas -> [Tokens -> session]]
  issued,     \* tokens handed out
  expired,    \* tokens whose session's created_at is older than the TTL
  dead,       \* tokens whose time to live has passed (history)
  nlqCalls,   \* [NlqCalls -> call]
  repairs,    \* [Tokens -> repair prompts answered] (history)
  finals,     \* [Tokens -> final answers given] (history)
  resumes     \* [Tokens -> times taken from the store] (history)

nlqVars == <<sessions, issued, expired, dead, nlqCalls, repairs, finals, resumes>>

MAX_REPAIR_ATTEMPTS == 1

\* A request body: the question is empty, a pasted IR, shorthand or text;
\* base is NoIr and service "" when absent; denied is what the deny gate
\* says of the text.
Question(kind, raw, words, denied, service, base, mode) ==
  [kind |-> kind, raw |-> raw, tokens |-> words, denied |-> denied,
   service |-> service, base |-> base, mode |-> mode]

NoQuestion == Question("empty", Missing, <<>>, FALSE, "", NoIr, "execute")

NoNlqSession ==
  [live |-> FALSE, tenant |-> "", req |-> NoQuestion, attempt |-> 0]

NoPlan == Failed("none")

NoAnswer == Answer(FALSE, "", Missing, Missing, NoRaw)

IdleCall ==
  [stage |-> "idle", req |-> NoQuestion, attempt |-> 0, plan |-> NoPlan,
   token |-> "", replica |-> "", session |-> NoNlqSession, answer |-> NoAnswer,
   reply |-> ""]

----------------------------------------------------------------------------
(* Before the LLM.                                                         *)

Scoped(ir, req) == IF req.service = "" THEN ir ELSE enforce_service_scope(ir, req.service)

Merged(ir, req) == IF req.base = NoIr THEN ir ELSE merge_irs(req.base, ir)

\* What becomes of an IR that is ready: returned, or merged and executed.
Outcome(reply, ir) == [reply |-> reply, ir |-> ir]

Typed(req) ==
  LET sh == parse_shorthand_ir(req.tokens)
  IN  IF req.base = NoIr THEN into_nlq_ir(sh) ELSE apply_shorthand_to_ir(req.base, sh)

Shorthand(req) == Scoped(Typed(req), req)

Pasted(req) == Deserialize(normalize_nlq_ir(req.raw))

\* An empty question runs the page's IR, a pasted IR and shorthand run
\* without the LLM; text is left to it.
try_pre_llm_shortcuts(req) ==
  LET pasted == Pasted(req)
      run    == IF req.mode = "interpret" THEN "ir" ELSE "execute"
  IN  CASE req.kind = "empty" /\ req.base = NoIr -> Outcome("bad_request", NoIr)
        [] req.kind = "empty" /\ req.base # NoIr -> Outcome(run, Scoped(req.base, req))
        [] req.kind = "raw" /\ pasted.kind # "ir" -> Outcome("unprocessable", NoIr)
        [] req.kind = "raw" /\ pasted.kind = "ir" ->
             Outcome(run, IF run = "ir" THEN Scoped(pasted.ir, req)
                          ELSE Merged(Scoped(pasted.ir, req), req))
        [] req.kind = "shorthand" -> Outcome(run, Shorthand(req))
        [] req.kind = "text" -> Outcome("none", NoIr)

server_side_deny_gate(req) == req.denied

----------------------------------------------------------------------------
(* After the LLM.                                                          *)

NeedsMetric(ir) ==
  /\ ir.signals \notin {<<"logs">>, <<"traces">>}
  /\ ir.operation \notin {"catalog", "inventory"}

Resolved(ir) ==
  LET known == fuzzy_resolve_metric(ir.metric, Registered)
  IN  IF \/ ir.signals \in {<<"logs">>, <<"traces">>}
         \/ ir.metric = <<>> \/ ir.metric \in Range(Registered) \/ known = <<>>
      THEN ir
      ELSE [ir EXCEPT !.metric = known]

\* One completion: a repair prompt while the budget lasts, or a reply.
resume_nlq_pipeline(req, attempt, answer) ==
  LET parsed == parse_llm_response(answer)
      ir     == Scoped(parsed.ir, req)
  IN  CASE parsed.kind = "panic" -> Outcome("panic", NoIr)
        [] parsed.kind = "invalid" ->
             Outcome(IF attempt < MAX_REPAIR_ATTEMPTS THEN "repair" ELSE "invalid", NoIr)
        [] parsed.kind \in {"decline", "capabilities"} -> Outcome(parsed.kind, NoIr)
        [] parsed.kind = "ir" /\ ir.metric = <<>> /\ NeedsMetric(ir) -> Outcome("decline", NoIr)
        [] OTHER -> IF req.mode = "interpret" THEN Outcome("ir", Resolved(ir))
                    ELSE Outcome("execute", Merged(Resolved(ir), req))

\* The replies an outcome can end in: execution may fail on the query
\* itself, or because the registry or ClickHouse does not answer.
Replies(outcome) ==
  IF outcome.reply # "execute" THEN {outcome.reply}
  ELSE IF execute_mcp_query(outcome.ir, Registered).error # "" THEN {"error"}
       ELSE {"frame", "unavailable"}

PlanOf(outcome, reply) ==
  IF reply = "frame" THEN execute_mcp_query(outcome.ir, Registered) ELSE NoPlan

----------------------------------------------------------------------------
(* POST /v1/nlq.                                                           *)

NlqInit ==
  /\ sessions = [r \in Replicas |-> [t \in Tokens |-> NoNlqSession]]
  /\ issued = {} /\ expired = {} /\ dead = {}
  /\ nlqCalls = [c \in NlqCalls |-> IdleCall]
  /\ repairs = [t \in Tokens |-> 0]
  /\ finals = [t \in Tokens |-> 0]
  /\ resumes = [t \in Tokens |-> 0]

\* answer is the one of the LLM, NoAnswer if it was not asked.
NlqAnswered(c, req, answer, outcome) ==
  \E reply \in Replies(outcome) :
    nlqCalls' = [nlqCalls EXCEPT ![c] =
      [IdleCall EXCEPT !.stage = "done", !.req = req, !.answer = answer, !.reply = reply,
                       !.plan = PlanOf(outcome, reply)]]

\* provider and configured are what the model settings say at this moment.
handle_nlq_query(c, req, provider, configured) ==
  LET shortcut == try_pre_llm_shortcuts(req)
      fallback == Outcome(IF req.mode = "interpret" THEN "ir" ELSE "execute", Shorthand(req))
  IN  /\ nlqCalls[c].stage = "idle"
      /\ CASE shortcut.reply # "none" -> NlqAnswered(c, req, NoAnswer, shortcut)
           [] shortcut.reply = "none" /\ provider = "webllm" ->
                NlqAnswered(c, req, NoAnswer, Outcome("use_prepare", NoIr))
           [] shortcut.reply = "none" /\ provider # "webllm" /\ ~configured ->
                NlqAnswered(c, req, NoAnswer, fallback)
           [] OTHER ->
                IF server_side_deny_gate(req) THEN NlqAnswered(c, req, NoAnswer, Outcome("decline", NoIr))
                ELSE nlqCalls' = [nlqCalls EXCEPT ![c] =
                       [IdleCall EXCEPT !.stage = "llm", !.req = req]]
      /\ UNCHANGED <<sessions, issued, expired, dead, repairs, finals, resumes>>

\* run_nlq_pipeline's loop: the model answers, and is asked to repair an
\* answer that does not parse.
LlmAnswers(c, answer) ==
  LET outcome == resume_nlq_pipeline(nlqCalls[c].req, nlqCalls[c].attempt, answer)
  IN  /\ nlqCalls[c].stage = "llm"
      /\ IF outcome.reply = "repair"
         THEN nlqCalls' = [nlqCalls EXCEPT ![c] =
                [IdleCall EXCEPT !.stage = "llm", !.req = nlqCalls[c].req,
                                 !.attempt = nlqCalls[c].attempt + 1]]
         ELSE NlqAnswered(c, nlqCalls[c].req, answer, outcome)
      /\ UNCHANGED <<sessions, issued, expired, dead, repairs, finals, resumes>>

LlmFails(c) ==
  /\ nlqCalls[c].stage = "llm"
  /\ NlqAnswered(c, nlqCalls[c].req, NoAnswer, Outcome("bad_gateway", NoIr))
  /\ UNCHANGED <<sessions, issued, expired, dead, repairs, finals, resumes>>

----------------------------------------------------------------------------
(* The two-phase endpoints.                                                *)

\* insert: a session for the tenant, kept by the replica that prepared it.
handle_nlq_prepare(c, r, tenant, req) ==
  LET shortcut == try_pre_llm_shortcuts(req)
  IN  /\ nlqCalls[c].stage = "idle"
      /\ IF shortcut.reply # "none" \/ server_side_deny_gate(req)
         THEN /\ NlqAnswered(c, req, NoAnswer, IF shortcut.reply # "none" THEN shortcut
                                            ELSE Outcome("decline", NoIr))
              /\ UNCHANGED <<sessions, issued>>
         ELSE /\ \E token \in Tokens \ issued :
                   /\ issued' = issued \union {token}
                   /\ sessions' = [sessions EXCEPT ![r][token] =
                        [live |-> TRUE, tenant |-> tenant, req |-> req, attempt |-> 0]]
              /\ UNCHANGED nlqCalls
      /\ UNCHANGED <<expired, dead, repairs, finals, resumes>>

(* Mutant: the session is copied out of the store instead of removed.      *)
take_for_resume_MutKeeps(store, token, tenant) ==
  CASE ~store[token].live -> [found |-> FALSE, store |-> store]
    [] store[token].live /\ token \in expired ->
         [found |-> FALSE, store |-> [store EXCEPT ![token] = NoNlqSession]]
    [] OTHER -> [found |-> store[token].tenant = tenant, store |-> store]

\* An expired session is evicted, another tenant's is left in place.
take_for_resume(store, token, tenant) ==
  CASE ~store[token].live -> [found |-> FALSE, store |-> store]
    [] store[token].live /\ token \in expired ->
         [found |-> FALSE, store |-> [store EXCEPT ![token] = NoNlqSession]]
    [] store[token].live /\ token \notin expired /\ store[token].tenant # tenant ->
         [found |-> FALSE, store |-> store]
    [] OTHER -> [found |-> TRUE, store |-> [store EXCEPT ![token] = NoNlqSession]]

(* Mutant: putting a session back stamps it with the current time.         *)
put_back_MutFresh(r, token, session) ==
  /\ sessions' = [sessions EXCEPT ![r][token] = session]
  /\ expired' = expired \ {token}

\* The session keeps its created_at.
put_back(r, token, session) ==
  /\ sessions' = [sessions EXCEPT ![r][token] = session]
  /\ UNCHANGED expired

\* POST /v1/nlq/complete, up to its first await.
handle_nlq_complete(c, r, tenant, token, answer) ==
  LET taken == take_for_resume(sessions[r], token, tenant)
  IN  /\ nlqCalls[c].stage = "idle"
      /\ token \in issued
      /\ resumes[token] < MaxResumes
      /\ sessions' = [sessions EXCEPT ![r] = taken.store]
      /\ IF taken.found
         THEN /\ nlqCalls' = [nlqCalls EXCEPT ![c] =
                   [IdleCall EXCEPT !.stage = "resuming", !.token = token, !.replica = r,
                                    !.session = sessions[r][token], !.answer = answer,
                                    !.req = sessions[r][token].req, !.reply = tenant]]
              /\ resumes' = [resumes EXCEPT ![token] = @ + 1]
         ELSE /\ nlqCalls' = [nlqCalls EXCEPT ![c] =
                   [IdleCall EXCEPT !.stage = "done", !.reply = "not_found"]]
              /\ UNCHANGED resumes
      /\ UNCHANGED <<issued, expired, dead, repairs, finals>>

\* The rest of the handler: a final reply drops the session, a repair puts
\* it back one attempt further, an error puts it back as it was.  A panic
\* ends the task: the session is gone and nothing is answered.
CompleteEnds(c) ==
  LET call    == nlqCalls[c]
      outcome == resume_nlq_pipeline(call.session.req, call.session.attempt, call.answer)
  IN  /\ call.stage = "resuming"
      /\ \E reply \in Replies(outcome) :
           /\ nlqCalls' = [nlqCalls EXCEPT ![c] =
                [IdleCall EXCEPT !.stage = "done", !.req = call.req, !.answer = call.answer,
                                 !.reply = reply, !.plan = PlanOf(outcome, reply)]]
           /\ CASE reply = "repair" ->
                     /\ put_back(call.replica, call.token,
                                 [call.session EXCEPT !.attempt = @ + 1])
                     /\ repairs' = [repairs EXCEPT ![call.token] = @ + 1]
                     /\ UNCHANGED finals
                [] reply \in {"error", "unavailable"} ->
                     /\ put_back(call.replica, call.token, call.session)
                     /\ UNCHANGED <<repairs, finals>>
                [] reply = "panic" -> UNCHANGED <<sessions, expired, repairs, finals>>
                [] OTHER ->
                     /\ finals' = [finals EXCEPT ![call.token] = @ + 1]
                     /\ UNCHANGED <<sessions, expired, repairs>>
      /\ UNCHANGED <<issued, dead, resumes>>

----------------------------------------------------------------------------
(* The rest of the world.                                                  *)

\* SESSION_TTL after created_at.
TtlPasses(token) ==
  /\ token \in issued \ dead
  /\ dead' = dead \union {token}
  /\ expired' = expired \union {token}
  /\ UNCHANGED <<sessions, issued, nlqCalls, repairs, finals, resumes>>

\* A replica stops: its sessions and the calls it was serving are gone.
ReplicaRestarts(r) ==
  /\ sessions' = [sessions EXCEPT ![r] = [t \in Tokens |-> NoNlqSession]]
  /\ nlqCalls' = [c \in NlqCalls |-> IF nlqCalls[c].replica = r THEN IdleCall ELSE nlqCalls[c]]
  /\ UNCHANGED <<issued, expired, dead, repairs, finals, resumes>>

CallReturns(c) ==
  /\ nlqCalls[c].stage = "done"
  /\ nlqCalls' = [nlqCalls EXCEPT ![c] = IdleCall]
  /\ UNCHANGED <<sessions, issued, expired, dead, repairs, finals, resumes>>

NlqNext ==
  \/ \E c \in NlqCalls :
       \/ \E req \in Questions, provider \in {"remote", "webllm"}, configured \in BOOLEAN :
            handle_nlq_query(c, req, provider, configured)
       \/ \E answer \in Answers : LlmAnswers(c, answer)
       \/ LlmFails(c)
       \/ \E r \in Replicas, tenant \in NlqTenants, req \in Questions :
            handle_nlq_prepare(c, r, tenant, req)
       \/ \E r \in Replicas, tenant \in NlqTenants, token \in Tokens, answer \in Answers :
            handle_nlq_complete(c, r, tenant, token, answer)
       \/ CompleteEnds(c)
       \/ CallReturns(c)
  \/ \E token \in Tokens : TtlPasses(token)
  \/ \E r \in Replicas : ReplicaRestarts(r)

NlqSpec == NlqInit /\ [][NlqNext]_nlqVars

----------------------------------------------------------------------------
(* Properties.                                                             *)

(* A prepared session asks its client for at most MAX_REPAIR_ATTEMPTS      *)
(* repairs and gives at most one final answer, however many calls of       *)
(* /v1/nlq/complete race with its token and however often one fails and    *)
(* puts the session back (take_for_resume, put_back).                      *)
SessionIsSpentOnce ==
  \A t \in Tokens : repairs[t] <= MAX_REPAIR_ATTEMPTS /\ finals[t] <= 1

(* A session is resumed only by a caller of the tenant that prepared it    *)
(* and, once its time to live has passed, never again, not even when a     *)
(* call that had taken it puts it back later (is_expired, take_for_resume). *)
SessionsBelong ==
  [][ \A c \in NlqCalls :
        nlqCalls[c].stage = "idle" /\ nlqCalls'[c].stage = "resuming" =>
          /\ nlqCalls'[c].token \notin dead
          /\ nlqCalls'[c].session.tenant = nlqCalls'[c].reply ]_nlqVars

(* Why these hold: a token has at most one session, in the store of one    *)
(* replica or in the hands of one call that has taken it, and the session  *)
(* counts the repairs it has asked for.                                    *)
NlqSessionRow ==
  [live : BOOLEAN, tenant : NlqTenants \union {""},
   req : Questions \union {NoQuestion}, attempt : 0 .. MAX_REPAIR_ATTEMPTS]

NlqTypeOK ==
  /\ sessions \in [Replicas -> [Tokens -> NlqSessionRow]]
  /\ issued \subseteq Tokens
  /\ nlqCalls = [c \in NlqCalls |-> nlqCalls[c]]
  /\ repairs \in [Tokens -> Nat] /\ finals \in [Tokens -> Nat]

\* The call has taken the token's session.
Holds(c, t) == nlqCalls[c].stage = "resuming" /\ nlqCalls[c].token = t

\* The session of an issued token: what it has asked for is counted, and
\* it has not been answered.
Unspent(t, session) ==
  t \in issued /\ session.live /\ repairs[t] = session.attempt /\ finals[t] = 0

OneSession(t) ==
  /\ \A r \in Replicas : sessions[r][t].live =>
       /\ Unspent(t, sessions[r][t])
       /\ \A other \in Replicas : sessions[other][t].live => other = r
       /\ \A c \in NlqCalls : ~Holds(c, t)
  /\ \A c \in NlqCalls : Holds(c, t) =>
       /\ nlqCalls[c].session \in NlqSessionRow /\ nlqCalls[c].replica \in Replicas
       /\ Unspent(t, nlqCalls[c].session)
       /\ \A other \in NlqCalls : Holds(other, t) => other = c

NlqInv ==
  /\ NlqTypeOK
  /\ expired = dead
  /\ \A c \in NlqCalls : nlqCalls[c].stage = "resuming" => nlqCalls[c].token \in Tokens
  /\ \A t \in Tokens :
       /\ OneSession(t)
       /\ repairs[t] <= MAX_REPAIR_ATTEMPTS /\ finals[t] <= 1
       /\ t \notin issued => repairs[t] = 0 /\ finals[t] = 0

(* What a query that runs is restricted to: the IR as it came, from the    *)
(* page, the user or the LLM, before enforce_service_scope, may filter on  *)
(* service_name itself; only if it does not, the service of the request    *)
(* is added.                                                               *)
Brought(req, answer) ==
  CASE answer # NoAnswer -> parse_llm_response(answer).ir
    [] answer = NoAnswer /\ req.kind = "empty" -> req.base
    [] answer = NoAnswer /\ req.kind = "raw" -> Pasted(req).ir
    [] OTHER -> Typed(req)

ScopeOf(ir, req) ==
  LET own == {f \in Range(ir.filters) : f.field = "service_name"}
  IN  CASE req.service = "" -> {}
        [] req.service # "" /\ own # {} -> own
        [] OTHER -> {Filter("service_name", "=", req.service)}

KeepsScope(req, answer, plan) ==
  plan.table \in {"metric_points", "metric_series", "logs"} =>
    \A f \in ScopeOf(Brought(req, answer), req) : \E i \in DOMAIN plan.conditions :
      plan.conditions[i] = Condition("service_name", f.op, f.value)

(* Why it is kept: the request and the answer that a call works on are     *)
(* those it was given, and a plan that ran is one that filters.            *)
CallInv(call) ==
  /\ call.stage = "llm" => call.req \in Questions
  /\ call.stage = "resuming" => call.answer \in Answers /\ call.session.req = call.req
  /\ call.stage = "done" /\ call.reply = "frame" => KeepsScope(call.req, call.answer, call.plan)

ScopeInv == \A c \in NlqCalls : CallInv(nlqCalls[c])

(* A query that runs for a request scoped to a service is restricted to    *)
(* that service where its IR came without a filter on service_name, and by *)
(* the filters that it came with where it had some, whichever way it came  *)
(* about: page load, pasted IR, shorthand or LLM answer, merged with the   *)
(* page's IR or not (enforce_service_scope runs before merge_irs).  That   *)
(* is less than llm_adapter.rs:150 says of the scope, which is to hold     *)
(* "regardless of what the LLM emits": an IR that filters on another       *)
(* service keeps that filter and leaves the scope.  Trace and inventory    *)
(* queries read only the first equality filter on a field and are not      *)
(* spoken of.                                                              *)
ScopedQueriesFilter ==
  \A c \in NlqCalls :
    LET call == nlqCalls[c]
    IN  call.stage = "done" /\ call.reply = "frame" => KeepsScope(call.req, call.answer, call.plan)

(* The same IR means the same query in every envelope an LLM may wrap it   *)
(* in: under "ir", under a chat wrapper's field, with its operation as the *)
(* type, or bare (parse_llm_response).                                     *)
EnvelopesAgree ==
  \A a \in Answers :
    a.json /\ a.type = "ir" /\ a.ir.present /\ a.ir.object /\ a.ir.operation \in PromotedOps =>
    LET direct == parse_llm_response(a)
    IN  /\ parse_llm_response(Answer(TRUE, "response", a.ir, Missing, NoRaw)) = direct
        /\ parse_llm_response(Answer(TRUE, "response", Missing, a.ir, NoRaw)) = direct
        /\ parse_llm_response(Answer(TRUE, "", Missing, Missing, a.ir)) = direct
        /\ parse_llm_response(Answer(TRUE, a.ir.operation, Missing, Missing,
                                     [a.ir EXCEPT !.operation = ""])) = direct

(* A guess that names a registered metric in another case resolves to that *)
(* metric, however many words another name shares with it                  *)
(* (fuzzy_resolve_metric).                                                 *)
GuessesResolve ==
  \A i \in DOMAIN Registered :
    \A guess \in {Registered[i], LowerName(Registered[i])} :
      LowerName(fuzzy_resolve_metric(guess, Registered)) = LowerName(guess)

(* No filter is lost on the way into a metric or log query: each becomes a *)
(* condition of its own (build_filter_clauses_checked), also when two are  *)
(* on the same column.                                                     *)
FiltersReachQuery ==
  \A a \in Answers : \A req \in Questions :
    LET ir == Scoped(parse_llm_response(a).ir, req)
        q  == execute_mcp_query(ir, Registered)
    IN  q.error = "" /\ q.table \in {"metric_points", "metric_series", "logs"} =>
          \A i \in DOMAIN ir.filters : \E j \in DOMAIN q.conditions :
            /\ q.conditions[j].op = ir.filters[i].op
            /\ q.conditions[j].value = ir.filters[i].value

(* A question keeps its meaning from the answer of the LLM to the query:   *)
(* envelope, metric, filters and the scope of the page.                    *)
QuestionsKeepMeaning ==
  EnvelopesAgree /\ GuessesResolve /\ FiltersReachQuery /\ ScopedQueriesFilter

============================================================================
