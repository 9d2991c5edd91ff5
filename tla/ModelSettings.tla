---------------------------- MODULE ModelSettings ----------------------------
(***************************************************************************)
(* The connection to the language model: config.rs and internal.rs of      *)
(* admin-service keep it in platform_config, query-api reads it twice for  *)
(* every question (llm_config.rs, llm_adapter.rs), over HTTP.              *)
(*                                                                         *)
(* PUT /v1/config/llm is no transaction: each field it carries is one      *)
(* upsert, and the provider is only validated when its turn comes.         *)
(***************************************************************************)
EXTENDS Naturals, Sequences

CONSTANTS
    ConfigBodies, \* bodies of PUT /v1/config/llm; "absent" is a missing field
    Cipher,       \* the hexadecimal XOR of every key that clients send
    Environments, \* pairs: the environment of admin-service and that of query-api
    MaxPuts       \* bound: PUT requests

SentKeys == {b["llm_api_key"] : b \in ConfigBodies} \ {"", "absent"}

ASSUME ModelSettingsAssumption ==
    /\ SentKeys \subseteq DOMAIN Cipher
    /\ \A k, l \in DOMAIN Cipher : Cipher[k] # "" /\ (Cipher[k] = Cipher[l] => k = l)
    /\ \A k \in DOMAIN Cipher : Cipher[k] # "plaintext" \* which is no hexadecimal string
    /\ \A k \in DOMAIN Cipher : Cipher[k] # "absent"
    /\ MaxPuts \in Nat

(* The order in which put_llm_config writes. *)
ConfigKeys == <<"llm_api_key", "llm_url", "llm_model", "llm_provider", "webllm_model">>
KeySet == {ConfigKeys[i] : i \in DOMAIN ConfigKeys}
Providers == {"remote", "webllm"}

VARIABLES
    platform, \* platform_config, "" for a key that is not set
    adminEnv, \* environment of admin-service: LLM_PROVIDER, LLM_API_KEY, OPENAI_API_KEY, LLM_URL
    queryEnv, \* the same of query-api, whose OPENAI_API_KEY counts, and is kept here, only where
              \* LLM_API_KEY is not set, not even to the empty string
    requests, \* PUT requests in the order of their beginning, after the settings at the start
    question  \* one POST /v1/nlq and what it has read

setVars == <<platform, adminEnv, queryEnv, requests, question>>

NoSettings == [k \in KeySet |-> ""]

(* values: what it writes; left: the fields still to write; done: whether it has been
   answered; before: the requests that had been answered when it began. *)
Request(values, left, done, before) ==
    [values |-> values, left |-> left, done |-> done, before |-> before]

Answered == {r \in DOMAIN requests : requests[r].done}
Busy(r) == ~requests[r].done
Quiet == \A r \in DOMAIN requests : ~Busy(r)

NoCaller == [key |-> "", url |-> ""]
NoQuestion == [stage |-> "none", quiet |-> FALSE, reached |-> FALSE, caller |-> NoCaller,
               inForce |-> "remote"]

SetInit ==
    /\ platform \in {NoSettings,
                     [k \in KeySet |-> IF k = "llm_provider" THEN "legacy"
                                       ELSE IF k = "llm_api_key" THEN "plaintext" ELSE ""]}
    /\ \E e \in Environments : adminEnv = e[1] /\ queryEnv = e[2]
    /\ requests = <<Request(platform, {}, TRUE, {})>>
    /\ question = NoQuestion

-----------------------------------------------------------------------------
(* The key is stored XORed, as a hexadecimal string; the empty one stays empty. *)
xor_obfuscate(key) == IF key = "" THEN "" ELSE Cipher[key]

(* Mutant: the stored form of the key is used as it is. *)
xor_deobfuscate_MutRaw(value) == value

(* A legacy key, which is no hexadecimal string, is taken as it is. *)
xor_deobfuscate(value) ==
    IF \E k \in DOMAIN Cipher : Cipher[k] = value
    THEN CHOOSE k \in DOMAIN Cipher : Cipher[k] = value
    ELSE value

is_valid_provider(p) == p \in Providers

Stored(k, value) ==
    IF k = "llm_api_key" /\ value # "absent" THEN xor_obfuscate(value) ELSE value

(* A question that is being served sees that the settings do not rest. *)
Disturbed == IF question.stage = "asked" THEN [question EXCEPT !.quiet = FALSE] ELSE question

BeginPut(body) ==
    LET values == [k \in KeySet |-> Stored(k, body[k])]
        left == {k \in KeySet : body[k] # "absent"}
    IN /\ Len(requests) <= MaxPuts
       /\ requests' = Append(requests, Request(values, left, left = {}, Answered))
       /\ question' = Disturbed
       /\ UNCHANGED <<platform, adminEnv, queryEnv>>

(* Mutant: the model of the remote provider and the WebLLM model are mixed up. *)
upsert_db_value_MutSwapsModels(k, value) ==
    platform' = [platform EXCEPT ![IF k = "llm_model" THEN "webllm_model" ELSE k] = value]

upsert_db_value(k, value) == platform' = [platform EXCEPT ![k] = value]

Position(k) == CHOOSE i \in DOMAIN ConfigKeys : ConfigKeys[i] = k

IsNext(r, k) == k \in requests[r].left /\ \A j \in requests[r].left : Position(k) <= Position(j)

(* put_llm_config comes to the next field that its body carries.  An upsert that fails, though
   PostgreSQL has applied it, ends the request there. *)
put_llm_config(r, k, fails) ==
    LET value == requests[r].values[k]
        left == requests[r].left \ {k}
    IN /\ Busy(r) /\ IsNext(r, k)
       /\ k = "llm_provider" => is_valid_provider(value)
       /\ upsert_db_value(k, value)
       /\ requests' = [requests EXCEPT ![r] = [@ EXCEPT !.left = left,
                                                        !.done = (left = {} \/ fails)]]
       /\ UNCHANGED <<adminEnv, queryEnv, question>>

(* An unknown provider is refused, or an upsert fails: the fields before it stay written. *)
PutEndsEarly(r) ==
    /\ Busy(r)
    /\ requests' = [requests EXCEPT ![r] = [@ EXCEPT !.done = TRUE]]
    /\ UNCHANGED <<platform, adminEnv, queryEnv, question>>

(* The legacy route: one upsert of a key that is not empty. *)
put_llm_key(key) ==
    LET value == Stored("llm_api_key", key)
    IN /\ key \notin {"", "absent"} /\ Len(requests) <= MaxPuts
       /\ upsert_db_value("llm_api_key", value)
       /\ requests' = Append(requests, Request([k \in KeySet |-> IF k = "llm_api_key" THEN value
                                                                 ELSE "absent"],
                                               {}, TRUE, Answered))
       /\ question' = Disturbed
       /\ UNCHANGED <<adminEnv, queryEnv>>

-----------------------------------------------------------------------------
(* Mutant: any value of the environment hides the database. *)
get_config_provider_MutEnvHides ==
    LET p == IF adminEnv.provider # "" THEN adminEnv.provider ELSE platform["llm_provider"]
    IN IF is_valid_provider(p) THEN p ELSE "remote"

(* get_config of admin-service: the provider that the console shows. *)
get_config_provider ==
    LET p == IF is_valid_provider(adminEnv.provider) THEN adminEnv.provider
             ELSE platform["llm_provider"]
    IN IF is_valid_provider(p) THEN p ELSE "remote"

(* list_llm_models without a body: the connection that the console tests. *)
list_llm_models ==
    [key |-> IF adminEnv.key # "" THEN adminEnv.key
             ELSE IF platform["llm_api_key"] = "" THEN ""
             ELSE xor_deobfuscate(platform["llm_api_key"]),
     url |-> IF adminEnv.url # "" THEN adminEnv.url ELSE platform["llm_url"]]

(* handle_get_llm_config: what query-api is told, from one SELECT. *)
handle_get_llm_config ==
    [k \in KeySet |-> IF k = "llm_api_key" /\ platform[k] # "" THEN xor_deobfuscate(platform[k])
                      ELSE platform[k]]

(* Nothing is known when admin-service cannot be reached or answers with an error. *)
fetch_remote_llm_config(ok) == IF ok THEN handle_get_llm_config ELSE NoSettings

(* fetch_provider of query-api: environment, then platform_config, then remote. *)
fetch_provider(ok) ==
    CASE queryEnv.provider \in Providers -> queryEnv.provider
      [] queryEnv.provider \notin Providers
         /\ fetch_remote_llm_config(ok)["llm_provider"] \in Providers ->
            fetch_remote_llm_config(ok)["llm_provider"]
      [] OTHER -> "remote"

(* With LLM_API_KEY the caller is built when query-api starts, from its environment alone;
   without, for each question, from the environment and then platform_config. *)
LlmCaller(ok) ==
    LET remote == fetch_remote_llm_config(ok)
    IN IF queryEnv.key # "" THEN [key |-> queryEnv.key, url |-> queryEnv.url]
       ELSE [key |-> IF queryEnv.openai # "" THEN queryEnv.openai ELSE remote["llm_api_key"],
             url |-> IF queryEnv.url # "" THEN queryEnv.url ELSE remote["llm_url"]]

(* Mutant: the caller is resolved whatever the provider is. *)
AskQuestion_MutAnyProvider(ok) ==
    /\ question.stage = "none"
    /\ question' = [question EXCEPT !.stage = "asked", !.quiet = Quiet, !.reached = ok]
    /\ UNCHANGED <<platform, adminEnv, queryEnv, requests>>

(* POST /v1/nlq: a question of a tenant that uses WebLLM is refused. *)
AskQuestion(ok) ==
    /\ question.stage = "none"
    /\ question' = [question EXCEPT !.stage = IF fetch_provider(ok) = "webllm" THEN "refused"
                                              ELSE "asked",
                                    !.quiet = Quiet, !.reached = ok]
    /\ UNCHANGED <<platform, adminEnv, queryEnv, requests>>

(* Its second part: the caller is resolved and the question sent to it, or answered as
   shorthand when neither a key nor a URL is known. *)
SendQuestion(ok) ==
    LET caller == LlmCaller(ok)
    IN /\ question.stage = "asked"
       /\ question' = [question EXCEPT !.stage = IF caller = NoCaller THEN "shorthand" ELSE "sent",
                                       !.caller = caller, !.inForce = get_config_provider]
       /\ UNCHANGED <<platform, adminEnv, queryEnv, requests>>

SetNext ==
    \/ \E b \in ConfigBodies : BeginPut(b) \/ put_llm_key(b["llm_api_key"])
    \/ \E r \in DOMAIN requests :
          PutEndsEarly(r) \/ \E k \in KeySet, fails \in BOOLEAN : put_llm_config(r, k, fails)
    \/ \E ok \in BOOLEAN : AskQuestion(ok) \/ SendQuestion(ok)

SetSpec == SetInit /\ [][SetNext]_setVars

(***************************************************************************)
(* Properties.                                                             *)
(***************************************************************************)
Wrote(r, k) == requests[r].values[k] # "absent" /\ k \notin requests[r].left

(* A stored field is what some PUT wrote and no PUT begun after its answer has written over,
   whichever of them overlapped, were refused halfway or failed. *)
FieldIsCurrent(k) ==
    \E r \in DOMAIN requests :
        /\ Wrote(r, k) /\ platform[k] = requests[r].values[k]
        /\ \A s \in DOMAIN requests : Wrote(s, k) => r \notin requests[s].before

SettingsAreCurrent == \A k \in KeySet : FieldIsCurrent(k)

(* With one environment for both services, and query-api able to read the settings, the console
   shows the provider that a question is answered with ("so both services agree on what counts
   as configured", env_llm_provider) and tests the connection that a question uses: unless
   query-api was started with a key of its own and the URL is set in the console only, or the
   key is OPENAI_API_KEY's, which admin-service does not know. *)
ConsoleShowsWhatIsUsed ==
    adminEnv = queryEnv =>
        /\ get_config_provider = fetch_provider(TRUE)
        /\ \/ queryEnv.key # "" /\ queryEnv.url = "" /\ platform["llm_url"] # ""
           \/ queryEnv.key = "" /\ queryEnv.openai # ""
           \/ list_llm_models = LlmCaller(TRUE)

(* A question is sent out with a key of the environment or one that a client has stored, never
   with its obfuscated form; and if admin-service could be asked for the provider and no PUT was
   being served between the two reads, not while the settings say WebLLM. *)
QuestionsHeedSettings ==
    question.stage = "sent" =>
        /\ question.caller.key \in {"", "plaintext", queryEnv.key, queryEnv.openai} \union SentKeys
        /\ question.quiet /\ question.reached /\ adminEnv = queryEnv => question.inForce = "remote"

(* What is stored is what was asked for last, and console and questions go by it. *)
SettingsAgree == SettingsAreCurrent /\ ConsoleShowsWhatIsUsed /\ QuestionsHeedSettings

(* spec/adr/ADR-035: POST /v1/nlq answers 503 to a tenant configured for WebLLM, whose questions
   never leave the browser: with settings at rest, none is sent while they say WebLLM. *)
WebllmStaysLocal ==
    question.stage = "sent" /\ question.quiet /\ adminEnv = queryEnv =>
        question.inForce # "webllm"

-----------------------------------------------------------------------------
(* Why these hold.                                                         *)
StoredKeys == {"", "plaintext"} \union {Cipher[k] : k \in SentKeys}

FieldValues ==
    {"absent", "legacy"} \union StoredKeys \union UNION {{b[k] : k \in KeySet} : b \in ConfigBodies}

(* Requests are what clients sent, a request that began after others had   *)
(* been answered knows these, and the key is one that was sent.            *)
RequestsOK ==
    /\ platform \in [KeySet -> FieldValues]
    /\ requests \in Seq([values : [KeySet -> FieldValues], left : SUBSET KeySet, done : BOOLEAN,
                         before : SUBSET Nat])
    /\ \A r \in DOMAIN requests :
           /\ requests[r].before \subseteq Answered
           /\ requests[r].values["llm_api_key"] \in StoredKeys \union {"absent"}
           /\ \A k \in requests[r].left : requests[r].values[k] # "absent"

(* Until a quiet question is sent, the settings are those it first read.   *)
QuestionInv ==
    /\ question \in [stage : {"none", "asked", "refused", "sent", "shorthand"}, quiet : BOOLEAN,
                     reached : BOOLEAN, caller : {question.caller}, inForce : {question.inForce}]
    /\ question.stage = "asked" /\ question.quiet =>
           /\ Quiet
           /\ question.reached => fetch_provider(TRUE) = "remote"
    /\ question.stage = "sent" =>
           /\ question.caller.key \in {"", "plaintext", queryEnv.key, queryEnv.openai}
                                      \union SentKeys
           /\ question.quiet /\ question.reached /\ adminEnv = queryEnv =>
                  question.inForce = "remote"

SettingsInv == RequestsOK /\ SettingsAreCurrent /\ QuestionInv
=============================================================================
