---------------------------- MODULE DataPlaneProofs ------------------------------
(***************************************************************************)
(* Theorems about the data plane: the sessions of NlqPipeline, the exports *)
(* of IngestGateway, and the rules, verdicts and catalog of AlertRules and *)
(* ServiceCatalog; for every set of replicas, tenants, calls, requests,    *)
(* samples and bodies.                                                     *)
(*                                                                         *)
(* A session is in one place, the store of a replica or the hands of a     *)
(* call.  A replica's count of a tenant is the sum of what it remembers to *)
(* have charged.  An SLO has one rule, so that its alerts are its SLOs.    *)
(***************************************************************************)
EXTENDS IngestGateway, NlqPipeline, ServiceCatalog, PlaygroundQueries, SumTheorems, SequenceTheorems

-----------------------------------------------------------------------------
(* The model is asked to repair an answer only while the budget lasts.     *)
LEMMA RepairsAreBudgeted ==
    ASSUME NEW req, NEW attempt \in 0 .. MAX_REPAIR_ATTEMPTS, NEW answer,
           resume_nlq_pipeline(req, attempt, answer).reply = "repair"
    PROVE  attempt < MAX_REPAIR_ATTEMPTS
<1> DEFINE parsed == parse_llm_response(answer)
           ir     == Scoped(parsed.ir, req)
           merged == Merged(Resolved(ir), req)
           resolved == Resolved(ir)
<1> HIDE DEF parsed, ir, merged, resolved
<1>1. resume_nlq_pipeline(req, attempt, answer)
        = CASE parsed.kind = "panic" -> Outcome("panic", NoIr)
        [] parsed.kind = "invalid" ->
             Outcome(IF attempt < MAX_REPAIR_ATTEMPTS THEN "repair" ELSE "invalid", NoIr)
        [] parsed.kind \in {"decline", "capabilities"} -> Outcome(parsed.kind, NoIr)
        [] parsed.kind = "ir" /\ ir.metric = <<>> /\ NeedsMetric(ir) -> Outcome("decline", NoIr)
        [] OTHER -> IF req.mode = "interpret" THEN Outcome("ir", resolved)
                    ELSE Outcome("execute", merged)
  BY DEF resume_nlq_pipeline, parsed, ir, merged, resolved
<1>2. CASE parsed.kind = "invalid"
  BY <1>1, <1>2 DEF Outcome, MAX_REPAIR_ATTEMPTS
<1>3. CASE parsed.kind # "invalid"
  BY <1>1, <1>3 DEF Outcome
<1>4. QED
  BY <1>2, <1>3

(* An outcome is answered with a repair prompt only if it is one.          *)
LEMMA RepairReplies ==
    ASSUME NEW outcome, "repair" \in Replies(outcome)
    PROVE  outcome.reply = "repair"
  BY DEF Replies

(* A call that does not hold a session before or after a step in which no  *)
(* session is written leaves every token's session where it is.            *)
LEMMA SessionsStay ==
    ASSUME NlqInv, NEW c \in NlqCalls, NEW call,
           nlqCalls[c].stage # "resuming", call.stage # "resuming",
           nlqCalls' = [nlqCalls EXCEPT ![c] = call],
           UNCHANGED <<sessions, issued, expired, dead, repairs, finals>>
    PROVE  NlqInv'
<1>1. NlqTypeOK'
  BY DEF NlqInv, NlqTypeOK
<1>2. \A d \in NlqCalls : /\ nlqCalls'[d].stage = "resuming" <=> nlqCalls[d].stage = "resuming"
                          /\ nlqCalls'[d].stage = "resuming" => nlqCalls'[d] = nlqCalls[d]
  BY DEF NlqInv, NlqTypeOK
<1>3. \A t \in Tokens : OneSession(t)'
  BY <1>2 DEF NlqInv, OneSession, Holds, Unspent
<1>4. QED
  BY <1>1, <1>2, <1>3 DEF NlqInv

(* A call of POST /v1/nlq that answers holds no session.                   *)
LEMMA AnsweredHoldsNothing ==
    ASSUME NlqInv, NEW c \in NlqCalls, NEW req, NEW answer, NEW outcome,
           nlqCalls[c].stage # "resuming", NlqAnswered(c, req, answer, outcome),
           UNCHANGED <<sessions, issued, expired, dead, repairs, finals>>
    PROVE  NlqInv'
<1>1. PICK reply \in Replies(outcome) : nlqCalls' = [nlqCalls EXCEPT ![c] =
      [IdleCall EXCEPT !.stage = "done", !.req = req, !.answer = answer, !.reply = reply,
                       !.plan = PlanOf(outcome, reply)]]
  BY DEF NlqAnswered
<1> DEFINE call == [IdleCall EXCEPT !.stage = "done", !.req = req, !.answer = answer,
                       !.reply = reply, !.plan = PlanOf(outcome, reply)]
<1>2. call.stage # "resuming"
  BY DEF IdleCall
<1> HIDE DEF call
<1>3. nlqCalls' = [nlqCalls EXCEPT ![c] = call]
  BY <1>1 DEF call
<1>4. QED
  BY <1>2, <1>3, SessionsStay

(* No session is not a session, and an idle call holds none.               *)
LEMMA NothingIsNotHeld ==
    NoNlqSession \in NlqSessionRow /\ ~NoNlqSession.live /\ IdleCall.stage = "idle"
<1>1. ~NoNlqSession.live
  BY DEF NoNlqSession
<1>2. NoNlqSession \in NlqSessionRow
  BY DEF NoNlqSession, NlqSessionRow, MAX_REPAIR_ATTEMPTS
<1>3. QED
  BY <1>1, <1>2 DEF IdleCall

-----------------------------------------------------------------------------
(* The invariant holds when the replicas start.                            *)
LEMMA NlqStarts == NlqInit => NlqInv
<1> SUFFICES ASSUME NlqInit PROVE NlqInv
  OBVIOUS
<1>1. NoNlqSession \in NlqSessionRow /\ ~NoNlqSession.live /\ IdleCall.stage = "idle"
  BY NothingIsNotHeld
<1>2. NlqTypeOK
  BY <1>1 DEF NlqInit, NlqTypeOK
<1>3. /\ \A r \in Replicas, t \in Tokens : ~sessions[r][t].live
      /\ \A c \in NlqCalls : nlqCalls[c].stage # "resuming"
  BY <1>1 DEF NlqInit
<1>4. \A t \in Tokens : OneSession(t)
  BY <1>3 DEF OneSession, Holds
<1>5. QED
  BY <1>2, <1>3, <1>4 DEF NlqInit, NlqInv, MAX_REPAIR_ATTEMPTS

(* A question asked in one call touches no session (handle_nlq_query).     *)
LEMMA QueryKeeps ==
    ASSUME NlqInv, NEW c \in NlqCalls, NEW req, NEW provider, NEW configured,
           handle_nlq_query(c, req, provider, configured)
    PROVE  NlqInv'
<1> DEFINE asked == [IdleCall EXCEPT !.stage = "llm", !.req = req]
<1>1. asked.stage # "resuming" /\ nlqCalls[c].stage # "resuming"
  BY DEF handle_nlq_query, IdleCall
<1> HIDE DEF asked
<1>2. UNCHANGED <<sessions, issued, expired, dead, repairs, finals>>
  BY DEF handle_nlq_query
<1>3. \/ \E given, outcome : NlqAnswered(c, req, given, outcome)
      \/ nlqCalls' = [nlqCalls EXCEPT ![c] = asked]
  BY DEF handle_nlq_query, asked
<1>4. QED
  BY <1>1, <1>2, <1>3, AnsweredHoldsNothing, SessionsStay

(* Neither does an answer of the model to such a question.                 *)
LEMMA LlmKeeps ==
    ASSUME NlqInv, NEW c \in NlqCalls, NEW answer, LlmAnswers(c, answer) \/ LlmFails(c)
    PROVE  NlqInv'
<1> DEFINE asked == [IdleCall EXCEPT !.stage = "llm", !.req = nlqCalls[c].req,
                                 !.attempt = nlqCalls[c].attempt + 1]
<1>1. asked.stage # "resuming" /\ nlqCalls[c].stage # "resuming"
  BY DEF LlmAnswers, LlmFails, IdleCall
<1> HIDE DEF asked
<1>2. UNCHANGED <<sessions, issued, expired, dead, repairs, finals>>
  BY DEF LlmAnswers, LlmFails
<1>3. \/ \E given, outcome : NlqAnswered(c, nlqCalls[c].req, given, outcome)
      \/ nlqCalls' = [nlqCalls EXCEPT ![c] = asked]
  BY DEF LlmAnswers, LlmFails, asked
<1>4. QED
  BY <1>1, <1>2, <1>3, AnsweredHoldsNothing, SessionsStay

(* A prepared session is one.                                              *)
LEMMA NewSession ==
    ASSUME NEW tenant \in NlqTenants, NEW req \in Questions
    PROVE  [live |-> TRUE, tenant |-> tenant, req |-> req, attempt |-> 0] \in NlqSessionRow
<1>1. 0 \in 0 .. MAX_REPAIR_ATTEMPTS
  BY DEF MAX_REPAIR_ATTEMPTS
<1>2. TRUE \in BOOLEAN /\ tenant \in NlqTenants \union {""} /\ req \in Questions \union {NoQuestion}
  OBVIOUS
<1>3. QED
  BY <1>1, <1>2 DEF NlqSessionRow

(* A prepared session has a token of its own (insert).                     *)
LEMMA PrepareKeeps ==
    ASSUME NlqInv, NEW c \in NlqCalls, NEW r \in Replicas, NEW tenant \in NlqTenants,
           NEW req \in Questions, handle_nlq_prepare(c, r, tenant, req)
    PROVE  NlqInv'
<1>1. UNCHANGED <<expired, dead, repairs, finals>> /\ nlqCalls[c].stage # "resuming"
  BY DEF handle_nlq_prepare
<1>2. CASE /\ \E given, outcome : NlqAnswered(c, req, given, outcome)
           /\ UNCHANGED <<sessions, issued>>
  BY <1>1, <1>2, AnsweredHoldsNothing
<1>3. ASSUME NEW token \in Tokens \ issued,
             issued' = issued \union {token},
             sessions' = [sessions EXCEPT ![r][token] =
                        [live |-> TRUE, tenant |-> tenant, req |-> req, attempt |-> 0]],
             UNCHANGED nlqCalls
      PROVE  NlqInv'
  <2> DEFINE row == [live |-> TRUE, tenant |-> tenant, req |-> req, attempt |-> 0]
  <2>1. row \in NlqSessionRow /\ row.live /\ row.attempt = 0
    <3>1. row.live /\ row.attempt = 0
      OBVIOUS
    <3>2. row \in NlqSessionRow
      BY NewSession
    <3>3. QED
      BY <3>1, <3>2
  <2> HIDE DEF row
  <2>2. sessions' = [sessions EXCEPT ![r][token] = row]
    BY <1>3 DEF row
  <2>3. NlqTypeOK'
    <3>1. sessions' \in [Replicas -> [Tokens -> NlqSessionRow]]
      <4>1. sessions \in [Replicas -> [Tokens -> NlqSessionRow]] /\ token \in Tokens
        BY DEF NlqInv, NlqTypeOK
      <4>2. [sessions[r] EXCEPT ![token] = row] \in [Tokens -> NlqSessionRow]
        BY <2>1, <4>1
      <4>3. QED
        BY <2>2, <4>1, <4>2
    <3>2. QED
      BY <1>1, <1>3, <3>1 DEF NlqInv, NlqTypeOK
  <2>4. \A q \in Replicas, t \in Tokens :
          sessions'[q][t] = IF q = r /\ t = token THEN row ELSE sessions[q][t]
    BY <2>2 DEF NlqInv, NlqTypeOK
  <2>5. /\ \A q \in Replicas : ~sessions[q][token].live
        /\ \A d \in NlqCalls : ~Holds(d, token)
        /\ repairs[token] = 0 /\ finals[token] = 0
    BY DEF NlqInv, OneSession, Unspent
  <2>6. OneSession(token)'
    BY <1>1, <1>3, <2>1, <2>4, <2>5 DEF OneSession, Unspent, Holds
  <2>7. ASSUME NEW t \in Tokens, t # token PROVE OneSession(t)'
    <3>1. \A q \in Replicas : sessions'[q][t] = sessions[q][t]
      BY <2>4, <2>7
    <3>2. OneSession(t)
      BY DEF NlqInv
    <3>3. QED
      BY <1>1, <1>3, <3>1, <3>2 DEF OneSession, Unspent, Holds
  <2>8. QED
    BY <1>1, <1>3, <2>3, <2>6, <2>7 DEF NlqInv
<1>4. QED
  BY <1>2, <1>3 DEF handle_nlq_prepare

(* What a call of /v1/nlq/complete takes from the store of its replica:    *)
(* the live session of its own tenant, before it expires.                  *)
LEMMA TakesOwn ==
    ASSUME NEW store, NEW token, NEW tenant, store[token].live \in BOOLEAN
    PROVE  LET taken == take_for_resume(store, token, tenant)
           IN  /\ taken.store \in {store, [store EXCEPT ![token] = NoNlqSession]}
               /\ taken.found => /\ store[token].live /\ token \notin expired
                                 /\ store[token].tenant = tenant
                                 /\ taken.store = [store EXCEPT ![token] = NoNlqSession]
  BY DEF take_for_resume

(* The session a call takes is no longer in the store                      *)
(* (handle_nlq_complete, up to its first await).                           *)
LEMMA CompleteKeeps ==
    ASSUME NlqInv, NEW c \in NlqCalls, NEW r \in Replicas, NEW tenant \in NlqTenants,
           NEW token \in Tokens, NEW answer, handle_nlq_complete(c, r, tenant, token, answer)
    PROVE  NlqInv'
<1> DEFINE taken == take_for_resume(sessions[r], token, tenant)
           held == [IdleCall EXCEPT !.stage = "resuming", !.token = token, !.replica = r,
                                    !.session = sessions[r][token], !.answer = answer,
                                    !.req = sessions[r][token].req, !.reply = tenant]
           refused == [IdleCall EXCEPT !.stage = "done", !.reply = "not_found"]
<1>1. /\ taken.store \in {sessions[r], [sessions[r] EXCEPT ![token] = NoNlqSession]}
      /\ taken.found => /\ sessions[r][token].live
                        /\ taken.store = [sessions[r] EXCEPT ![token] = NoNlqSession]
  <2>1. sessions[r][token].live \in BOOLEAN
    BY DEF NlqInv, NlqTypeOK, NlqSessionRow
  <2>2. QED
    BY <2>1, TakesOwn
<1>2. /\ held.stage = "resuming" /\ held.token = token /\ held.replica = r
      /\ held.session = sessions[r][token]
      /\ refused.stage = "done"
  BY DEF IdleCall
<1>3. /\ sessions' = [sessions EXCEPT ![r] = taken.store]
      /\ IF taken.found THEN nlqCalls' = [nlqCalls EXCEPT ![c] = held]
                        ELSE nlqCalls' = [nlqCalls EXCEPT ![c] = refused]
      /\ UNCHANGED <<issued, expired, dead, repairs, finals>>
      /\ nlqCalls[c].stage # "resuming"
  BY DEF handle_nlq_complete
<1> HIDE DEF taken, held, refused
<1>4. NoNlqSession \in NlqSessionRow /\ ~NoNlqSession.live
  BY NothingIsNotHeld
<1>5. sessions \in [Replicas -> [Tokens -> NlqSessionRow]]
  BY DEF NlqInv, NlqTypeOK
<1>6. taken.store \in [Tokens -> NlqSessionRow]
  BY <1>1, <1>4, <1>5
<1>7. NlqTypeOK'
  BY <1>3, <1>5, <1>6 DEF NlqInv, NlqTypeOK
<1>8. \A q \in Replicas, t \in Tokens :
        \/ sessions'[q][t] = sessions[q][t]
        \/ q = r /\ t = token /\ ~sessions'[q][t].live
  BY <1>1, <1>3, <1>4, <1>5
<1>9. taken.found => ~sessions'[r][token].live
  BY <1>1, <1>3, <1>4, <1>5
<1>10. \A d \in NlqCalls \ {c} : nlqCalls'[d] = nlqCalls[d]
  BY <1>3 DEF NlqInv, NlqTypeOK
<1>11. taken.found => nlqCalls'[c] = held
  BY <1>3 DEF NlqInv, NlqTypeOK
<1>12. ~taken.found => nlqCalls'[c] = refused
  BY <1>3 DEF NlqInv, NlqTypeOK
<1>13. \A t \in Tokens : ~Holds(c, t)
  BY <1>3 DEF Holds
<1>14. ASSUME NEW t \in Tokens PROVE OneSession(t)'
  <2>1. OneSession(t)
    BY DEF NlqInv
  <2>2. \A d \in NlqCalls \ {c} : Holds(d, t)' <=> Holds(d, t)
    BY <1>10 DEF Holds
  <2>3. CASE taken.found /\ t = token
    <3>1. /\ \A q \in Replicas : ~sessions'[q][t].live
          /\ \A d \in NlqCalls : ~Holds(d, t)
          /\ Unspent(t, sessions[r][t])
      BY <1>1, <1>8, <1>9, <2>1, <2>3 DEF OneSession
    <3>2. \A d \in NlqCalls : Holds(d, t)' => d = c
      BY <2>2, <3>1
    <3>3. nlqCalls'[c].session = sessions[r][t] /\ nlqCalls'[c].replica = r
      BY <1>2, <1>11, <2>3
    <3>4. sessions[r][t] \in NlqSessionRow
      BY <1>5
    <3>5. Unspent(t, nlqCalls[c].session)'
      BY <1>3, <3>1, <3>3 DEF Unspent
    <3>6. QED
      BY <3>1, <3>2, <3>3, <3>4, <3>5 DEF OneSession
  <2>4. CASE ~(taken.found /\ t = token)
    <3>1. ~Holds(c, t)'
      BY <1>2, <1>11, <1>12, <2>4 DEF Holds
    <3>2. \A d \in NlqCalls : Holds(d, t)' => Holds(d, t) /\ nlqCalls'[d] = nlqCalls[d]
      BY <1>10, <2>2, <3>1
    <3>3. \A q \in Replicas : sessions'[q][t].live => sessions'[q][t] = sessions[q][t]
      BY <1>8
    <3>4. QED
      BY <1>3, <1>13, <2>1, <2>2, <3>1, <3>2, <3>3 DEF OneSession, Unspent
  <2>5. QED
    BY <2>3, <2>4
<1>15. \A d \in NlqCalls : nlqCalls'[d].stage = "resuming" => nlqCalls'[d].token \in Tokens
  BY <1>2, <1>10, <1>11, <1>12 DEF NlqInv
<1>16. QED
  BY <1>3, <1>7, <1>14, <1>15 DEF NlqInv

(* A call ends: the session it holds is dropped, or put back as the only   *)
(* one of its token, one attempt further if a repair was asked for.        *)
LEMMA EndsKeep ==
    ASSUME NlqInv, NEW c \in NlqCalls, CompleteEnds(c)
    PROVE  NlqInv'
<1>0. PICK call : call = nlqCalls[c]
  OBVIOUS
<1> DEFINE outcome == resume_nlq_pipeline(call.session.req, call.session.attempt, call.answer)
           token == call.token
<1>1. call.stage = "resuming" /\ token \in Tokens /\ Holds(c, token)
  BY <1>0 DEF CompleteEnds, NlqInv, Holds
<1>2. /\ call.session \in NlqSessionRow /\ call.replica \in Replicas
      /\ Unspent(token, call.session)
      /\ \A d \in NlqCalls : Holds(d, token) => d = c
      /\ \A q \in Replicas : ~sessions[q][token].live
  BY <1>0, <1>1 DEF NlqInv, OneSession
<1>3. PICK reply \in Replies(outcome) :
           /\ nlqCalls' = [nlqCalls EXCEPT ![c] =
                [IdleCall EXCEPT !.stage = "done", !.req = call.req, !.answer = call.answer,
                                 !.reply = reply, !.plan = PlanOf(outcome, reply)]]
           /\ CASE reply = "repair" ->
                     /\ put_back(call.replica, call.token,
                                 [call.session EXCEPT !.attempt = @ + 1])
                     /\ repairs' = [repairs EXCEPT ![call.token] = @ + 1]
                     /\ UNCHANGED finals
                [] reply \in {"error", "unavailable"} ->
                     /\ put_back(call.replica, call.token, call.session)
                     /\ UNCHANGED <<repairs, finals>>
                [] reply = "panic" -> UNCHANGED <<sessions, expired, repairs, finals>>
                [] OTHER ->
                     /\ finals' = [finals EXCEPT ![call.token] = @ + 1]
                     /\ UNCHANGED <<sessions, expired, repairs>>
  BY <1>0 DEF CompleteEnds
<1> DEFINE answered == [IdleCall EXCEPT !.stage = "done", !.req = call.req,
                                 !.answer = call.answer, !.reply = reply, !.plan = PlanOf(outcome, reply)]
<1>4. answered.stage = "done"
  BY DEF IdleCall
<1>5. call.session.attempt \in 0 .. MAX_REPAIR_ATTEMPTS
  BY <1>2 DEF NlqSessionRow
<1>6. reply = "repair" => call.session.attempt < MAX_REPAIR_ATTEMPTS
  BY <1>3, <1>5, RepairReplies, RepairsAreBudgeted
<1> HIDE DEF answered, outcome
<1>7. nlqCalls' = [nlqCalls EXCEPT ![c] = answered] /\ UNCHANGED <<issued, dead>>
  BY <1>3 DEF answered, CompleteEnds
<1>8. /\ \A d \in NlqCalls \ {c} : nlqCalls'[d] = nlqCalls[d]
      /\ nlqCalls'[c].stage = "done"
      /\ nlqCalls' = [d \in NlqCalls |-> nlqCalls'[d]]
  BY <1>4, <1>7 DEF NlqInv, NlqTypeOK
<1>9. \A d \in NlqCalls, t \in Tokens :
        Holds(d, t)' => d # c /\ t # token /\ Holds(d, t) /\ nlqCalls'[d] = nlqCalls[d]
  BY <1>2, <1>8 DEF Holds
<1>10. \A d \in NlqCalls : nlqCalls'[d].stage = "resuming" => nlqCalls'[d].token \in Tokens
  BY <1>8 DEF NlqInv
<1>11. ASSUME NEW row \in NlqSessionRow, row.live,
              sessions' = [sessions EXCEPT ![call.replica][token] = row],
              repairs' = [repairs EXCEPT ![token] = row.attempt],
              UNCHANGED <<expired, finals>>
       PROVE  NlqInv'
  <2>1. \A q \in Replicas, t \in Tokens :
          sessions'[q][t] = IF q = call.replica /\ t = token THEN row ELSE sessions[q][t]
    BY <1>2, <1>11 DEF NlqInv, NlqTypeOK
  <2>2. row.attempt \in Nat /\ row.attempt <= MAX_REPAIR_ATTEMPTS
    <3>1. row.attempt \in 0 .. MAX_REPAIR_ATTEMPTS
      BY <1>11 DEF NlqSessionRow
    <3>2. QED
      BY <3>1 DEF MAX_REPAIR_ATTEMPTS
  <2>3. /\ repairs'[token] = row.attempt
        /\ \A t \in Tokens \ {token} : repairs'[t] = repairs[t]
    BY <1>1, <1>11 DEF NlqInv, NlqTypeOK
  <2>4. NlqTypeOK'
    <3>1. sessions' \in [Replicas -> [Tokens -> NlqSessionRow]]
      BY <1>11 DEF NlqInv, NlqTypeOK
    <3>2. repairs' \in [Tokens -> Nat]
      BY <1>11, <2>2 DEF NlqInv, NlqTypeOK
    <3>3. QED
      BY <1>7, <1>8, <1>11, <3>1, <3>2 DEF NlqInv, NlqTypeOK
  <2>5. OneSession(token)'
    <3>1. \A q \in Replicas : sessions'[q][token].live => q = call.replica
      BY <1>1, <1>2, <2>1
    <3>2. Unspent(token, sessions[call.replica][token])'
      <4>1. sessions'[call.replica][token] = row
        BY <1>1, <1>2, <2>1
      <4>2. QED
        BY <1>2, <1>7, <1>11, <2>3, <4>1 DEF Unspent
    <3>3. QED
      BY <1>1, <1>9, <3>1, <3>2 DEF OneSession
  <2>6. ASSUME NEW t \in Tokens, t # token PROVE OneSession(t)'
    <3>1. \A q \in Replicas : sessions'[q][t] = sessions[q][t]
      BY <2>1, <2>6
    <3>2. OneSession(t) /\ repairs'[t] = repairs[t]
      BY <2>3, <2>6 DEF NlqInv
    <3>3. QED
      BY <1>7, <1>9, <1>11, <3>1, <3>2 DEF OneSession, Unspent
  <2>7. token \in issued
    BY <1>2 DEF Unspent
  <2>8. QED
    BY <1>7, <1>10, <1>11, <2>2, <2>3, <2>4, <2>5, <2>6, <2>7 DEF NlqInv
<1>12. CASE reply = "repair"
  <2> DEFINE row == [call.session EXCEPT !.attempt = call.session.attempt + 1]
  <2>1. row \in NlqSessionRow /\ row.live /\ row.attempt = call.session.attempt + 1
    <3>1. call.session.attempt + 1 \in 0 .. MAX_REPAIR_ATTEMPTS
      BY <1>5, <1>6, <1>12 DEF MAX_REPAIR_ATTEMPTS
    <3>2. row \in NlqSessionRow /\ row.attempt = call.session.attempt + 1
      BY <1>2, <3>1 DEF NlqSessionRow
    <3>3. row.live = call.session.live /\ call.session.live
      BY <1>2 DEF NlqSessionRow, Unspent
    <3>4. QED
      BY <3>2, <3>3
  <2>2. repairs[token] = call.session.attempt
    BY <1>2 DEF Unspent
  <2>3. /\ sessions' = [sessions EXCEPT ![call.replica][token] = row]
        /\ repairs' = [repairs EXCEPT ![token] = repairs[token] + 1]
        /\ UNCHANGED <<expired, finals>>
    BY <1>3, <1>12 DEF put_back
  <2> HIDE DEF row
  <2>4. QED
    BY <1>11, <2>1, <2>2, <2>3
<1>13. CASE reply \in {"error", "unavailable"}
  <2>1. repairs' = [repairs EXCEPT ![token] = call.session.attempt]
    BY <1>1, <1>2, <1>3, <1>13 DEF Unspent, NlqInv, NlqTypeOK
  <2>2. sessions' = [sessions EXCEPT ![call.replica][token] = call.session]
        /\ UNCHANGED <<expired, finals>>
    BY <1>3, <1>13 DEF put_back
  <2>3. QED
    BY <1>2, <1>11, <2>1, <2>2 DEF Unspent
<1>14. CASE reply \notin {"repair", "error", "unavailable", "panic"}
  <2>1. /\ finals' = [finals EXCEPT ![token] = finals[token] + 1]
        /\ UNCHANGED <<sessions, expired, repairs>>
    BY <1>3, <1>14
  <2>2. finals[token] = 0 /\ token \in issued
    BY <1>2 DEF Unspent
  <2>3. /\ finals'[token] = 1
        /\ \A t \in Tokens \ {token} : finals'[t] = finals[t]
    BY <1>1, <2>1, <2>2 DEF NlqInv, NlqTypeOK
  <2>4. NlqTypeOK'
    <3>1. finals' \in [Tokens -> Nat]
      BY <2>1, <2>2 DEF NlqInv, NlqTypeOK
    <3>2. QED
      BY <1>7, <1>8, <2>1, <3>1 DEF NlqInv, NlqTypeOK
  <2>5. OneSession(token)'
    BY <1>1, <1>2, <1>9, <2>1 DEF OneSession
  <2>6. ASSUME NEW t \in Tokens, t # token PROVE OneSession(t)'
    <3>1. OneSession(t) /\ finals'[t] = finals[t]
      BY <2>3, <2>6 DEF NlqInv
    <3>2. QED
      BY <1>7, <1>9, <2>1, <3>1 DEF OneSession, Unspent
  <2>7. QED
    BY <1>7, <1>10, <2>1, <2>2, <2>3, <2>4, <2>5, <2>6 DEF NlqInv
<1>15. CASE reply = "panic"
  <2>1. UNCHANGED <<sessions, expired, repairs, finals>>
    BY <1>3, <1>15
  <2>2. NlqTypeOK'
    BY <1>7, <1>8, <2>1 DEF NlqInv, NlqTypeOK
  <2>3. ASSUME NEW t \in Tokens PROVE OneSession(t)'
    <3>1. OneSession(t)
      BY DEF NlqInv
    <3>2. QED
      BY <1>7, <1>9, <2>1, <3>1 DEF OneSession, Unspent
  <2>4. QED
    BY <1>7, <1>10, <2>1, <2>2, <2>3 DEF NlqInv
<1>16. QED
  BY <1>12, <1>13, <1>14, <1>15

(* A replica that stops takes its sessions and its calls with it.          *)
LEMMA RestartKeeps ==
    ASSUME NlqInv, NEW r \in Replicas, ReplicaRestarts(r)
    PROVE  NlqInv'
<1>1. /\ \A q \in Replicas, t \in Tokens :
           sessions'[q][t] = IF q = r THEN NoNlqSession ELSE sessions[q][t]
      /\ \A c \in NlqCalls :
           nlqCalls'[c] = IF nlqCalls[c].replica = r THEN IdleCall ELSE nlqCalls[c]
      /\ UNCHANGED <<issued, expired, dead, repairs, finals>>
  BY DEF ReplicaRestarts, NlqInv, NlqTypeOK
<1>2. NoNlqSession \in NlqSessionRow /\ ~NoNlqSession.live /\ IdleCall.stage # "resuming"
  BY NothingIsNotHeld
<1>3. NlqTypeOK'
  BY <1>1, <1>2 DEF ReplicaRestarts, NlqInv, NlqTypeOK
<1>4. /\ \A q \in Replicas, t \in Tokens :
           sessions'[q][t].live => sessions'[q][t] = sessions[q][t]
      /\ \A c \in NlqCalls : nlqCalls'[c].stage = "resuming" => nlqCalls'[c] = nlqCalls[c]
  BY <1>1, <1>2
<1>5. \A t \in Tokens : OneSession(t)'
  BY <1>1, <1>4 DEF NlqInv, OneSession, Unspent, Holds
<1>6. QED
  BY <1>1, <1>3, <1>4, <1>5 DEF NlqInv

(* Every step keeps the invariant.                                         *)
LEMMA NlqInductive == NlqInv /\ [NlqNext]_nlqVars => NlqInv'
<1> SUFFICES ASSUME NlqInv, [NlqNext]_nlqVars PROVE NlqInv'
  OBVIOUS
<1>1. CASE UNCHANGED nlqVars
  BY <1>1 DEF nlqVars, NlqInv, NlqTypeOK, OneSession, Unspent, Holds
<1>2. ASSUME NEW c \in NlqCalls, CallReturns(c) PROVE NlqInv'
  <2>1. IdleCall.stage # "resuming"
    BY DEF IdleCall
  <2>2. QED
    BY <1>2, <2>1, SessionsStay DEF CallReturns
<1>3. ASSUME NEW token \in Tokens, TtlPasses(token) PROVE NlqInv'
  BY <1>3 DEF TtlPasses, NlqInv, NlqTypeOK, OneSession, Unspent, Holds
<1>4. QED
  BY <1>1, <1>2, <1>3, QueryKeeps, LlmKeeps, PrepareKeeps, CompleteKeeps, EndsKeep, RestartKeeps
  DEF NlqNext

-----------------------------------------------------------------------------
(* A token has one session at a time, in a store or in the hands of a call *)
(* of /v1/nlq/complete (nlq_session.rs: take_for_resume, put_back).        *)
THEOREM SessionsInvariant == NlqSpec => []NlqInv
<1>1. QED
  BY NlqStarts, NlqInductive, PTL DEF NlqSpec

(* A prepared session asks for at most MAX_REPAIR_ATTEMPTS repairs and     *)
(* gives at most one final answer, however its calls race.                 *)
THEOREM SessionsAreSpentOnce == NlqSpec => []SessionIsSpentOnce
<1>1. NlqInv => SessionIsSpentOnce
  BY DEF NlqInv, SessionIsSpentOnce
<1>2. QED
  BY <1>1, SessionsInvariant, PTL

(* Only a call of /v1/nlq/complete takes a session, and it takes its own   *)
(* tenant's, before its time to live has passed.                           *)
LEMMA TakenSessionsBelong ==
    ASSUME NlqInv, NlqNext, NEW c \in NlqCalls,
           nlqCalls[c].stage = "idle", nlqCalls'[c].stage = "resuming"
    PROVE  /\ nlqCalls'[c].token \notin dead
           /\ nlqCalls'[c].session.tenant = nlqCalls'[c].reply
<1> DEFINE Goal == /\ nlqCalls'[c].token \notin dead
                   /\ nlqCalls'[c].session.tenant = nlqCalls'[c].reply
<1>0. nlqCalls = [d \in NlqCalls |-> nlqCalls[d]] /\ expired = dead
  BY DEF NlqInv, NlqTypeOK
<1>1. ASSUME NEW d \in NlqCalls, NEW call, call.stage # "resuming",
             nlqCalls' = [nlqCalls EXCEPT ![d] = call]
      PROVE  FALSE
  BY <1>0, <1>1
<1>2. ASSUME NEW d \in NlqCalls, NEW req, NEW given, NEW outcome,
             NlqAnswered(d, req, given, outcome)
      PROVE  FALSE
  <2>1. PICK reply \in Replies(outcome) : nlqCalls' = [nlqCalls EXCEPT ![d] =
          [IdleCall EXCEPT !.stage = "done", !.req = req, !.answer = given, !.reply = reply,
                           !.plan = PlanOf(outcome, reply)]]
    BY <1>2 DEF NlqAnswered
  <2> DEFINE call == [IdleCall EXCEPT !.stage = "done", !.req = req, !.answer = given,
                           !.reply = reply, !.plan = PlanOf(outcome, reply)]
  <2>2. call.stage # "resuming"
    BY DEF IdleCall
  <2> HIDE DEF call
  <2>3. nlqCalls' = [nlqCalls EXCEPT ![d] = call]
    BY <2>1 DEF call
  <2>4. QED
    BY <1>1, <2>2, <2>3
<1>3. ASSUME NEW d \in NlqCalls, NEW req, NEW provider, NEW configured,
             handle_nlq_query(d, req, provider, configured)
      PROVE  FALSE
  <2> DEFINE asked == [IdleCall EXCEPT !.stage = "llm", !.req = req]
  <2>1. asked.stage # "resuming"
    BY DEF IdleCall
  <2> HIDE DEF asked
  <2>2. \/ \E given, outcome : NlqAnswered(d, req, given, outcome)
        \/ nlqCalls' = [nlqCalls EXCEPT ![d] = asked]
    BY <1>3 DEF handle_nlq_query, asked
  <2>3. QED
    BY <1>1, <1>2, <2>1, <2>2
<1>4. ASSUME NEW d \in NlqCalls, NEW answer, LlmAnswers(d, answer) \/ LlmFails(d)
      PROVE  FALSE
  <2> DEFINE asked == [IdleCall EXCEPT !.stage = "llm", !.req = nlqCalls[d].req,
                                 !.attempt = nlqCalls[d].attempt + 1]
  <2>1. asked.stage # "resuming"
    BY DEF IdleCall
  <2> HIDE DEF asked
  <2>2. \/ \E given, outcome : NlqAnswered(d, nlqCalls[d].req, given, outcome)
        \/ nlqCalls' = [nlqCalls EXCEPT ![d] = asked]
    BY <1>4 DEF LlmAnswers, LlmFails, asked
  <2>3. QED
    BY <1>1, <1>2, <2>1, <2>2
<1>5. ASSUME NEW d \in NlqCalls, NEW r, NEW tenant, NEW req, handle_nlq_prepare(d, r, tenant, req)
      PROVE  FALSE
  <2>1. \/ \E given, outcome : NlqAnswered(d, req, given, outcome)
        \/ UNCHANGED nlqCalls
    BY <1>5 DEF handle_nlq_prepare
  <2>2. QED
    BY <1>2, <2>1
<1>6. ASSUME NEW d \in NlqCalls, NEW r \in Replicas, NEW tenant, NEW token \in Tokens, NEW answer,
             handle_nlq_complete(d, r, tenant, token, answer)
      PROVE  Goal
  <2> DEFINE taken == take_for_resume(sessions[r], token, tenant)
             held == [IdleCall EXCEPT !.stage = "resuming", !.token = token, !.replica = r,
                                    !.session = sessions[r][token], !.answer = answer,
                                    !.req = sessions[r][token].req, !.reply = tenant]
             refused == [IdleCall EXCEPT !.stage = "done", !.reply = "not_found"]
  <2>1. taken.found => token \notin expired /\ sessions[r][token].tenant = tenant
    <3>1. sessions[r][token].live \in BOOLEAN
      BY DEF NlqInv, NlqTypeOK, NlqSessionRow
    <3>2. /\ taken.store \in {sessions[r], [sessions[r] EXCEPT ![token] = NoNlqSession]}
          /\ taken.found => /\ sessions[r][token].live /\ token \notin expired
                            /\ sessions[r][token].tenant = tenant
                            /\ taken.store = [sessions[r] EXCEPT ![token] = NoNlqSession]
      BY <3>1, TakesOwn
    <3>3. QED
      BY <3>2
  <2>2. /\ held.token = token /\ held.session = sessions[r][token] /\ held.reply = tenant
        /\ refused.stage # "resuming"
    BY DEF IdleCall
  <2>3. IF taken.found THEN nlqCalls' = [nlqCalls EXCEPT ![d] = held]
                       ELSE nlqCalls' = [nlqCalls EXCEPT ![d] = refused]
    BY <1>6 DEF handle_nlq_complete
  <2> HIDE DEF taken, held, refused
  <2>4. taken.found
    BY <1>1, <2>2, <2>3
  <2>5. nlqCalls'[c] = held
    <3>1. nlqCalls' = [nlqCalls EXCEPT ![d] = held]
      BY <2>3, <2>4
    <3>2. QED
      BY <1>0, <3>1
  <2>6. QED
    BY <1>0, <2>1, <2>2, <2>4, <2>5
<1>7. ASSUME NEW d \in NlqCalls, CompleteEnds(d) PROVE FALSE
  <2> DEFINE outcome == resume_nlq_pipeline(nlqCalls[d].session.req,
                            nlqCalls[d].session.attempt, nlqCalls[d].answer)
  <2>1. NlqAnswered(d, nlqCalls[d].req, nlqCalls[d].answer, outcome)
    BY <1>7 DEF CompleteEnds, NlqAnswered
  <2> HIDE DEF outcome
  <2>2. QED
    BY <1>2, <2>1
<1>8. ASSUME NEW d \in NlqCalls, CallReturns(d) PROVE FALSE
  <2>1. IdleCall.stage # "resuming"
    BY DEF IdleCall
  <2>2. QED
    BY <1>1, <1>8, <2>1 DEF CallReturns
<1>9. ASSUME NEW r \in Replicas, ReplicaRestarts(r) PROVE FALSE
  <2>1. IdleCall.stage # "resuming"
    BY DEF IdleCall
  <2>2. QED
    BY <1>9, <2>1 DEF ReplicaRestarts
<1>10. ASSUME NEW token \in Tokens, TtlPasses(token) PROVE FALSE
  BY <1>10 DEF TtlPasses
<1>11. QED
  BY <1>3, <1>4, <1>5, <1>6, <1>7, <1>8, <1>9, <1>10 DEF NlqNext

(* A session is resumed only by the tenant that prepared it and never      *)
(* after its time to live, also when it has been put back in between.      *)
THEOREM SessionsAreOwn == NlqSpec => SessionsBelong
<1>1. ASSUME NlqInv, [NlqNext]_nlqVars
      PROVE  [ \A c \in NlqCalls :
                 nlqCalls[c].stage = "idle" /\ nlqCalls'[c].stage = "resuming" =>
                   /\ nlqCalls'[c].token \notin dead
                   /\ nlqCalls'[c].session.tenant = nlqCalls'[c].reply ]_nlqVars
  BY <1>1, TakenSessionsBelong DEF nlqVars
<1>2. QED
  BY <1>1, SessionsInvariant, PTL DEF NlqSpec, SessionsBelong

-----------------------------------------------------------------------------
(* What a request exports decides what it is charged and whether there is  *)
(* anything in it.                                                         *)
LEMMA SeriesSame ==
    ASSUME NEW q, NEW s, s.export = q.export, s.transport = q.transport
    PROVE  SeriesCount(s) = SeriesCount(q) /\ (Empty(s) <=> Empty(q))
  BY DEF SeriesCount, Converted, Empty

(* A body that can be decoded has so many series.                          *)
LEMMA SeriesType ==
    ASSUME NEW q \in RequestRow, ~Exports[q.export].malformed
    PROVE  SeriesCount(q) \in Nat
<1>1. q.export \in DOMAIN Exports /\ q.transport \in Transports
  BY DEF RequestRow
<1> DEFINE s == [export |-> q.export, transport |-> q.transport]
<1>2. s.export = q.export /\ s.transport = q.transport
  OBVIOUS
<1>3. SeriesCount(s) \in Nat
  BY <1>1, ExportsAreFinite
<1> HIDE DEF s
<1>4. QED
  BY <1>2, <1>3, SeriesSame

(* A request that has not come yet has nothing to it.                      *)
LEMMA NoRequestIsFree ==
    /\ NoRequest \in RequestRow /\ NoRequest.stage = "free" /\ NoRequest.answer = "none"
    /\ NoRequest.charge = 0
<1>1. (CHOOSE p \in Pods : TRUE) \in Pods /\ (CHOOSE t \in KeyTenants : TRUE) \in KeyTenants
      /\ (CHOOSE x \in DOMAIN Exports : TRUE) \in DOMAIN Exports
  BY IngestAssumption
<1> DEFINE pod == CHOOSE p \in Pods : TRUE
           tenant == CHOOSE t \in KeyTenants : TRUE
           export == CHOOSE x \in DOMAIN Exports : TRUE
<1>2. NoRequest = [stage |-> "free", pod |-> pod, transport |-> "grpc", tenant |-> tenant,
                   role |-> "viewer", export |-> export, answer |-> "none", charge |-> 0]
  BY DEF NoRequest
<1>3. pod \in Pods /\ tenant \in KeyTenants /\ export \in DOMAIN Exports
  BY <1>1
<1> HIDE DEF pod, tenant, export
<1>4. NoRequest \in RequestRow
  BY <1>2, <1>3 DEF RequestRow, Stages, Transports, KeyRoles
<1>5. QED
  BY <1>2, <1>4

-----------------------------------------------------------------------------
(* The charges of a replica's tenant are natural numbers.                  *)
LEMMA ChargesType ==
    ASSUME IgTypeOK, NEW p, NEW t
    PROVE  \A r \in ExportIds : ChargesOf(p, t)[r] \in Nat
  BY DEF IgTypeOK, ChargesOf, RequestRow

(* One request changes, the counts do not: the accounts stay in order if   *)
(* it keeps its charge where it has one.                                   *)
LEMMA RequestMoves ==
    ASSUME IgInv, NEW r \in ExportIds, NEW q \in RequestRow,
           requests' = [requests EXCEPT ![r] = q],
           queued' = queued \/ queued' = queued \union {r},
           InOrder(r, q)', UNCHANGED <<charged, enforcing>>,
           q.charge = requests[r].charge,
           q.charge # 0 => q.pod = requests[r].pod /\ q.tenant = requests[r].tenant
    PROVE  IgInv'
<1>1. \A s \in ExportIds : requests'[s] = IF s = r THEN q ELSE requests[s]
  BY DEF IgInv, IgTypeOK
<1>2. IgTypeOK'
  BY DEF IgInv, IgTypeOK
<1>3. ASSUME NEW s \in ExportIds PROVE InOrder(s, requests[s])'
  <2>1. CASE s = r
    BY <1>1, <2>1 DEF InOrder
  <2>2. CASE s # r
    <3>1. requests'[s] = requests[s] /\ (s \in queued' <=> s \in queued) /\ InOrder(s, requests[s])
      BY <1>1, <2>2 DEF IgInv
    <3>2. QED
      BY <3>1 DEF InOrder
  <2>3. QED
    BY <2>1, <2>2
<1>4. ASSUME NEW p \in Pods, NEW t \in KeyTenants PROVE ChargesOf(p, t)' = ChargesOf(p, t)
  BY <1>1 DEF ChargesOf
<1>5. ASSUME NEW p \in Pods, NEW t \in KeyTenants
      PROVE  /\ enforcing' => charged'[p][t] <= Budget
             /\ SumOn(ChargesOf(p, t), ExportIds)' = charged'[p][t]
  <2>1. SumOn(ChargesOf(p, t), ExportIds) = charged[p][t] /\ (enforcing => charged[p][t] <= Budget)
    BY DEF IgInv, SumOn
  <2>2. SumOn(ChargesOf(p, t), ExportIds)' = SumOn(ChargesOf(p, t), ExportIds)
    BY <1>4
  <2>3. QED
    BY <2>1, <2>2
<1>6. QED
  BY <1>2, <1>3, <1>5 DEF IgInv, SumOn

(* An answer given to a request that is not in the topic.                  *)
LEMMA AnswersKeep ==
    ASSUME IgInv, NEW r \in ExportIds, NEW answer \in Refusals \union {"ok", "error"},
           requests[r].stage \in {"admitted", "publishing"}, requests' = Answered(r, answer),
           queued' = queued \/ (requests[r].stage = "publishing" /\ queued' = queued \union {r}),
           answer = "ok" => r \in queued' \/ Empty(requests[r]),
           answer \in Refusals => r \notin queued',
           UNCHANGED <<charged, enforcing>>
    PROVE  IgInv'
<1> DEFINE q == [requests[r] EXCEPT !.stage = "answered", !.answer = answer]
<1>1. PICK new : new = q
  OBVIOUS
<1>2. requests[r] \in RequestRow /\ InOrder(r, requests[r])
  BY DEF IgInv, IgTypeOK
<1>3. new \in RequestRow
  BY <1>1, <1>2 DEF RequestRow, Stages
<1>4. /\ new.stage = "answered" /\ new.answer = answer /\ new.charge = requests[r].charge
      /\ new.pod = requests[r].pod /\ new.tenant = requests[r].tenant /\ new.role = requests[r].role
      /\ new.export = requests[r].export /\ new.transport = requests[r].transport
  BY <1>1, <1>2 DEF RequestRow
<1>5. requests' = [requests EXCEPT ![r] = new]
  BY <1>1 DEF Answered
<1> HIDE DEF q
<1>6. SeriesCount(new) = SeriesCount(requests[r]) /\ (Empty(new) <=> Empty(requests[r]))
  BY <1>4, SeriesSame
<1>7. InOrder(r, new)'
  BY <1>2, <1>4, <1>6 DEF InOrder, Refusals
<1>8. QED
  BY <1>3, <1>4, <1>5, <1>7, RequestMoves

-----------------------------------------------------------------------------
(* The invariant holds when the replicas start.                            *)
LEMMA IgStarts == IgInit => IgInv
<1> SUFFICES ASSUME IgInit PROVE IgInv
  OBVIOUS
<1>1. IgTypeOK
  BY NoRequestIsFree DEF IgInit, IgTypeOK
<1>2. \A r \in ExportIds : requests[r] = NoRequest
  BY DEF IgInit
<1>3. \A r \in ExportIds : InOrder(r, requests[r])
  BY <1>2, NoRequestIsFree DEF IgInit, InOrder, Refusals
<1>4. ASSUME NEW p \in Pods, NEW t \in KeyTenants
      PROVE  SumOn(ChargesOf(p, t), ExportIds) = charged[p][t] /\ charged[p][t] = 0
  <2>1. \A r \in ExportIds : ChargesOf(p, t)[r] = 0
    BY <1>2, NoRequestIsFree DEF ChargesOf
  <2>2. SumOn(ChargesOf(p, t), ExportIds) = 0
    BY <2>1, SumZero, IngestAssumption
  <2>3. QED
    BY <2>2 DEF IgInit
<1>5. ASSUME NEW p \in Pods, NEW t \in KeyTenants
      PROVE  /\ enforcing => charged[p][t] <= Budget
             /\ SumOn(ChargesOf(p, t), ExportIds) = charged[p][t]
  <2>1. 0 <= Budget
    BY IngestAssumption
  <2>2. QED
    BY <1>4, <2>1
<1>6. QED
  BY <1>1, <1>3, <1>5, Zenon DEF IgInv, SumOn

(* A request comes in: a viewer's goes no further (auth_middleware).       *)
LEMMA AuthenticateKeeps ==
    ASSUME IgInv, NEW r \in ExportIds, NEW p \in Pods, NEW transport \in Transports,
           NEW t \in KeyTenants, NEW role \in KeyRoles, NEW x \in DOMAIN Exports,
           Authenticate_export(r, p, transport, t, role, x) \/ Unauthenticated(r, p, transport, x)
    PROVE  IgInv'
<1>1. /\ requests[r] \in RequestRow /\ InOrder(r, requests[r]) /\ requests[r].stage = "free"
      /\ UNCHANGED <<charged, enforcing, queued>>
  BY DEF IgInv, IgTypeOK, Authenticate_export, Unauthenticated
<1>2. r \notin queued /\ requests[r].charge = 0
  BY <1>1 DEF InOrder
<1>3. ASSUME NEW q \in RequestRow, requests' = [requests EXCEPT ![r] = q], q.charge = 0,
             \/ q.stage = "admitted" /\ q.answer = "none" /\ q.role # "viewer"
             \/ q.stage = "answered" /\ q.answer \in {"forbidden", "unauthorized"}
      PROVE  IgInv'
  <2>1. InOrder(r, q)'
    BY <1>1, <1>2, <1>3 DEF InOrder, Refusals
  <2>2. QED
    BY <1>1, <1>2, <1>3, <2>1, RequestMoves
<1>4. CASE Unauthenticated(r, p, transport, x)
  <2> DEFINE q == [NoRequest EXCEPT !.stage = "answered", !.answer = "unauthorized", !.pod = p,
                            !.transport = transport, !.export = x]
  <2>1. q \in RequestRow
    BY NoRequestIsFree DEF RequestRow, Stages, Refusals
  <2>2. q.charge = 0 /\ q.stage = "answered" /\ q.answer = "unauthorized"
    BY NoRequestIsFree DEF RequestRow
  <2>3. requests' = [requests EXCEPT ![r] = q]
    BY <1>4 DEF Unauthenticated
  <2> HIDE DEF q
  <2>4. QED
    BY <1>3, <2>1, <2>2, <2>3
<1>5. CASE Authenticate_export(r, p, transport, t, role, x)
  <2> DEFINE stage == IF can_ingest(transport, role) THEN "admitted" ELSE "answered"
             answer == IF can_ingest(transport, role) THEN "none" ELSE "forbidden"
             q == [NoRequest EXCEPT !.stage = stage, !.answer = answer,
                            !.pod = p, !.transport = transport, !.tenant = t, !.role = role,
                            !.export = x]
  <2>1. requests' = [requests EXCEPT ![r] = q]
    BY <1>5 DEF Authenticate_export
  <2>2. \/ stage = "admitted" /\ answer = "none" /\ role # "viewer"
        \/ stage = "answered" /\ answer = "forbidden"
    BY DEF can_ingest
  <2> HIDE DEF stage, answer
  <2>3. q \in RequestRow
    BY <2>2, NoRequestIsFree DEF RequestRow, Stages, Refusals
  <2>4. q.charge = 0 /\ q.stage = stage /\ q.answer = answer /\ q.role = role
    BY NoRequestIsFree DEF RequestRow
  <2> HIDE DEF q
  <2>5. QED
    BY <1>3, <2>1, <2>2, <2>3, <2>4
<1>6. QED
  BY <1>4, <1>5

(* A request is refused, or has nothing to write.                          *)
LEMMA RefusalsKeep ==
    ASSUME IgInv, NEW r \in ExportIds, RateLimited(r) \/ Malformed(r) \/ NothingToWrite(r)
    PROVE  IgInv'
<1>1. requests[r].stage = "admitted" /\ UNCHANGED <<charged, enforcing, queued>>
  BY DEF RateLimited, Malformed, NothingToWrite
<1>2. r \notin queued
  BY <1>1 DEF IgInv, InOrder
<1>3. \/ requests' = Answered(r, "limited")
      \/ requests' = Answered(r, "malformed")
      \/ requests' = Answered(r, "ok") /\ Empty(requests[r])
  BY DEF RateLimited, Malformed, NothingToWrite
<1>4. CASE requests' = Answered(r, "limited")
  BY <1>1, <1>2, <1>4, AnswersKeep DEF Refusals
<1>5. CASE requests' = Answered(r, "malformed")
  BY <1>1, <1>2, <1>5, AnswersKeep DEF Refusals
<1>6. CASE requests' = Answered(r, "ok") /\ Empty(requests[r])
  BY <1>1, <1>2, <1>6, AnswersKeep DEF Refusals
<1>7. QED
  BY <1>3, <1>4, <1>5, <1>6

(* The series of a request are counted before it is published, or it is    *)
(* refused (check_and_observe).                                            *)
LEMMA ExportKeeps ==
    ASSUME IgInv, NEW r \in ExportIds, Export(r)
    PROVE  IgInv'
<1>0. PICK q : q = requests[r]
  OBVIOUS
<1>1. /\ q \in RequestRow /\ InOrder(r, q) /\ q.stage = "admitted"
      /\ ~Exports[q.export].malformed
      /\ UNCHANGED <<enforcing, queued>> /\ check_and_observe(r, q)
  BY <1>0 DEF IgInv, IgTypeOK, Export
<1>2. r \notin queued /\ q.charge = 0 /\ q.role # "viewer" /\ q.answer = "none"
  BY <1>1 DEF InOrder
<1>3. PICK n : n = SeriesCount(q)
  OBVIOUS
<1>4. n \in Nat
  BY <1>1, <1>3, SeriesType
<1>5. CASE ExceedsBudget(q)
  <2>1. requests' = Answered(r, "over_budget") /\ UNCHANGED charged
    BY <1>1, <1>5 DEF check_and_observe
  <2>2. QED
    BY <1>0, <1>1, <1>2, <2>1, AnswersKeep DEF Refusals
<1>6. CASE ~ExceedsBudget(q)
  <2> DEFINE new == [q EXCEPT !.stage = "publishing", !.charge = n]
  <2>1. /\ charged' = [charged EXCEPT ![q.pod][q.tenant] = charged[q.pod][q.tenant] + n]
        /\ requests' = [requests EXCEPT ![r] = new]
    BY <1>1, <1>3, <1>6 DEF check_and_observe
  <2>2. q.pod \in Pods /\ q.tenant \in KeyTenants
    BY <1>1 DEF RequestRow
  <2>3. charged \in [Pods -> [KeyTenants -> Nat]]
    BY DEF IgInv, IgTypeOK
  <2>4. \A p \in Pods, t \in KeyTenants :
          charged'[p][t] = IF p = q.pod /\ t = q.tenant THEN charged[p][t] + n ELSE charged[p][t]
    BY <2>1, <2>2, <2>3
  <2>5. charged' \in [Pods -> [KeyTenants -> Nat]]
    <3>1. charged[q.pod][q.tenant] + n \in Nat
      BY <1>4, <2>2, <2>3
    <3>2. QED
      BY <2>1, <2>2, <2>3, <3>1
  <2>6. new \in RequestRow
    BY <1>1, <1>4 DEF RequestRow, Stages
  <2>7. /\ new.stage = "publishing" /\ new.charge = n /\ new.pod = q.pod /\ new.tenant = q.tenant
        /\ new.role = q.role /\ new.answer = q.answer
        /\ new.export = q.export /\ new.transport = q.transport
    BY <1>1 DEF RequestRow
  <2> HIDE DEF new
  <2>8. \A s \in ExportIds : requests'[s] = IF s = r THEN new ELSE requests[s]
    BY <2>1 DEF IgInv, IgTypeOK
  <2>9. IgTypeOK'
    BY <1>1, <2>1, <2>5, <2>6 DEF IgInv, IgTypeOK
  <2>10. SeriesCount(new) = n
    BY <1>3, <2>7, SeriesSame
  <2>11. ASSUME NEW s \in ExportIds PROVE InOrder(s, requests[s])'
    <3>1. CASE s = r
      BY <1>1, <1>2, <2>7, <2>8, <2>10, <3>1 DEF InOrder, Refusals
    <3>2. CASE s # r
      BY <1>1, <2>8, <3>2 DEF IgInv, InOrder
    <3>3. QED
      BY <3>1, <3>2
  <2>12. ASSUME NEW p \in Pods, NEW t \in KeyTenants
         PROVE  /\ enforcing' => charged'[p][t] <= Budget
                /\ SumOn(ChargesOf(p, t), ExportIds)' = charged'[p][t]
    <3>1. /\ SumOn(ChargesOf(p, t), ExportIds) = charged[p][t] /\ (enforcing => charged[p][t] <= Budget)
          /\ charged[p][t] \in Nat
      BY <2>3 DEF IgInv, SumOn
    <3>2. PICK old : old = ChargesOf(p, t)
      OBVIOUS
    <3>3. PICK sums : sums = ChargesOf(p, t)'
      OBVIOUS
    <3>4. \A s \in ExportIds : old[s] \in Nat
      BY <3>2, ChargesType DEF IgInv
    <3>5. old[r] = 0
      BY <1>0, <1>2, <3>2 DEF ChargesOf
    <3>6. /\ \A s \in ExportIds \ {r} : sums[s] = old[s]
          /\ sums[r] = IF p = q.pod /\ t = q.tenant THEN n ELSE 0
      BY <2>7, <2>8, <3>2, <3>3 DEF ChargesOf
    <3>7. /\ SumOn(old, ExportIds) \in Nat /\ SumOn(sums, ExportIds) \in Nat
          /\ SumOn(sums, ExportIds) + old[r] = SumOn(old, ExportIds) + sums[r]
      <4>1. sums[r] \in Nat
        BY <1>4, <3>6
      <4>2. \A s \in ExportIds : sums[s] \in Nat
        BY <3>4, <3>6, <4>1
      <4>3. SumOn(old, ExportIds) \in Nat /\ SumOn(sums, ExportIds) \in Nat
        BY <3>4, <4>2, SumNat, IngestAssumption
      <4>4. SumOn(sums, ExportIds) + old[r] = SumOn(old, ExportIds) + sums[r]
        BY <3>4, <3>6, <4>1, SumChanges, IngestAssumption
      <4>5. QED
        BY <4>3, <4>4
    <3>8. SumOn(ChargesOf(p, t), ExportIds)' = SumOn(sums, ExportIds)
      BY <3>3
    <3>9. SumOn(sums, ExportIds) = charged'[p][t]
      <4>1. SumOn(old, ExportIds) = charged[p][t]
        BY <3>1, <3>2
      <4>2. QED
        BY <1>4, <2>2, <2>4, <3>1, <3>5, <3>6, <3>7, <4>1
    <3>10. enforcing' => charged'[p][t] <= Budget
      <4>1. enforcing /\ n > 0 => charged[q.pod][q.tenant] + n <= Budget
        BY <1>3, <1>4, <1>6, <2>2, <2>3, IngestAssumption DEF ExceedsBudget
      <4>2. QED
        BY <1>1, <1>4, <2>4, <3>1, <4>1
    <3>11. QED
      BY <3>8, <3>9, <3>10
  <2>13. QED
    BY <2>9, <2>11, <2>12 DEF IgInv, SumOn
<1>7. QED
  BY <1>5, <1>6

(* A publish ends: confirmed, or with an error that leaves it open.        *)
LEMMA PublishKeeps ==
    ASSUME IgInv, NEW r \in ExportIds, PublishSucceeds(r) \/ PublishFails(r)
    PROVE  IgInv'
<1>1. requests[r].stage = "publishing" /\ UNCHANGED <<charged, enforcing>>
  BY DEF PublishSucceeds, PublishFails
<1>2. CASE PublishSucceeds(r)
  <2>1. requests' = Answered(r, "ok") /\ queued' = queued \union {r}
    BY <1>2 DEF PublishSucceeds
  <2>2. QED
    BY <1>1, <2>1, AnswersKeep DEF Refusals
<1>3. CASE PublishFails(r)
  <2>1. requests' = Answered(r, "error") /\ queued' \in {queued, queued \union {r}}
    BY <1>3 DEF PublishFails
  <2>2. QED
    BY <1>1, <2>1, AnswersKeep DEF Refusals
<1>4. QED
  BY <1>2, <1>3

(* A replica that restarts forgets its counts and what it has charged.     *)
LEMMA PodRestartKeeps ==
    ASSUME IgInv, NEW p \in Pods, PodRestarts(p)
    PROVE  IgInv'
<1> DEFINE ended(r) == [requests[r] EXCEPT !.charge = 0,
                   !.stage = IF requests[r].stage = "free" THEN "free" ELSE "answered",
                   !.answer = IF requests[r].stage \in {"admitted", "publishing"}
                              THEN "error" ELSE requests[r].answer]
<1>1. /\ charged' = [charged EXCEPT ![p] = [t \in KeyTenants |-> 0]]
      /\ requests' = [r \in ExportIds |-> IF requests[r].pod # p THEN requests[r] ELSE ended(r)]
      /\ UNCHANGED enforcing
  BY DEF PodRestarts
<1>2. PICK some \in SUBSET {r \in ExportIds : requests[r].pod = p /\ requests[r].stage = "publishing"} :
        queued' = queued \union some
  BY DEF PodRestarts
<1>3. \A r \in ExportIds : requests[r] \in RequestRow /\ InOrder(r, requests[r])
  BY DEF IgInv, IgTypeOK
<1>4. \A r \in ExportIds :
        /\ ended(r).charge = 0 /\ ended(r).pod = requests[r].pod /\ ended(r).tenant = requests[r].tenant
        /\ ended(r).stage = IF requests[r].stage = "free" THEN "free" ELSE "answered"
        /\ ended(r).answer = IF requests[r].stage \in {"admitted", "publishing"}
                              THEN "error" ELSE requests[r].answer
        /\ ended(r).role = requests[r].role /\ ended(r).export = requests[r].export
        /\ ended(r).transport = requests[r].transport
  BY <1>3 DEF RequestRow
<1>5. ASSUME NEW r \in ExportIds PROVE ended(r) \in RequestRow
  <2>1. PICK q \in RequestRow : q = requests[r]
    BY <1>3
  <2>2. \A s \in Stages, a \in Refusals \union {"none", "ok", "error"} :
          [q EXCEPT !.charge = 0, !.stage = s, !.answer = a] \in RequestRow
    BY <2>1 DEF RequestRow
  <2>3. /\ (IF q.stage = "free" THEN "free" ELSE "answered") \in Stages
        /\ (IF q.stage \in {"admitted", "publishing"} THEN "error" ELSE q.answer)
             \in Refusals \union {"none", "ok", "error"}
    BY <2>1 DEF RequestRow, Stages
  <2>4. QED
    BY <2>1, <2>2, <2>3
<1> HIDE DEF ended
<1>6. IgTypeOK'
  <2>1. requests' \in [ExportIds -> RequestRow]
    BY <1>1, <1>3, <1>5
  <2>2. charged' \in [Pods -> [KeyTenants -> Nat]]
    BY <1>1 DEF IgInv, IgTypeOK
  <2>3. queued' \subseteq ExportIds
    BY <1>2 DEF IgInv, IgTypeOK
  <2>4. QED
    BY <1>1, <2>1, <2>2, <2>3 DEF IgInv, IgTypeOK
<1>7. ASSUME NEW r \in ExportIds PROVE InOrder(r, requests[r])'
  <2>1. CASE requests[r].pod # p
    <3>1. requests'[r] = requests[r] /\ (r \in queued' <=> r \in queued)
      BY <1>1, <1>2, <2>1
    <3>2. QED
      BY <1>3, <3>1 DEF InOrder
  <2>2. CASE requests[r].pod = p
    <3>1. PICK q : q = requests'[r]
      OBVIOUS
    <3>2. q = ended(r)
      BY <1>1, <2>2, <3>1
    <3>3. SeriesCount(q) = SeriesCount(requests[r]) /\ (Empty(q) <=> Empty(requests[r]))
      BY <1>4, <3>2, SeriesSame
    <3>4. r \in queued' => r \in queued \/ requests[r].stage = "publishing"
      BY <1>2
    <3>5. r \in queued => r \in queued'
      BY <1>2
    <3>6. requests[r].stage \in Stages
      BY <1>3 DEF RequestRow
    <3>7. InOrder(r, q)'
      BY <1>3, <1>4, <3>2, <3>3, <3>4, <3>5, <3>6 DEF InOrder, Refusals, Stages
    <3>8. QED
      BY <3>1, <3>7 DEF InOrder
  <2>3. QED
    BY <2>1, <2>2
<1>8. ASSUME NEW k \in Pods, NEW t \in KeyTenants
      PROVE  /\ enforcing' => charged'[k][t] <= Budget
             /\ SumOn(ChargesOf(k, t), ExportIds)' = charged'[k][t]
  <2>1. /\ SumOn(ChargesOf(k, t), ExportIds) = charged[k][t] /\ (enforcing => charged[k][t] <= Budget)
        /\ charged \in [Pods -> [KeyTenants -> Nat]]
    BY DEF IgInv, IgTypeOK, SumOn
  <2>2. CASE k = p
    <3>1. charged'[k][t] = 0
      BY <1>1, <2>1, <2>2
    <3>2. PICK sums : sums = ChargesOf(k, t)'
      OBVIOUS
    <3>3. \A r \in ExportIds : sums[r] = 0
      BY <1>1, <1>4, <2>2, <3>2 DEF ChargesOf
    <3>4. SumOn(sums, ExportIds) = 0
      BY <3>3, SumZero, IngestAssumption
    <3>5. QED
      BY <3>1, <3>2, <3>4, IngestAssumption
  <2>3. CASE k # p
    <3>1. charged'[k][t] = charged[k][t]
      BY <1>1, <2>1, <2>3
    <3>2. ChargesOf(k, t)' = ChargesOf(k, t)
      BY <1>1, <1>4, <2>3 DEF ChargesOf
    <3>3. SumOn(ChargesOf(k, t), ExportIds)' = SumOn(ChargesOf(k, t), ExportIds)
      BY <3>2
    <3>4. QED
      BY <1>1, <2>1, <3>1, <3>3
  <2>4. QED
    BY <2>2, <2>3
<1>9. QED
  BY <1>6, <1>7, <1>8 DEF IgInv, SumOn

(* Steps that touch neither requests nor counts.                           *)
LEMMA IgSame ==
    ASSUME IgInv, UNCHANGED <<requests, charged, enforcing, queued>>
    PROVE  IgInv'
<1>1. \A p \in Pods, t \in KeyTenants : SumOn(ChargesOf(p, t), ExportIds)' = SumOn(ChargesOf(p, t), ExportIds)
  <2> SUFFICES ASSUME NEW p \in Pods, NEW t \in KeyTenants
               PROVE  SumOn(ChargesOf(p, t), ExportIds)' = SumOn(ChargesOf(p, t), ExportIds)
    OBVIOUS
  <2>1. ChargesOf(p, t)' = ChargesOf(p, t)
    BY DEF ChargesOf
  <2>2. QED
    BY <2>1
<1>2. IgTypeOK' /\ \A r \in ExportIds : InOrder(r, requests[r])'
  BY DEF IgInv, IgTypeOK, InOrder
<1>3. QED
  BY <1>1, <1>2 DEF IgInv, SumOn

(* Every step keeps the invariant: one lemma per kind of step.             *)
LEMMA IgInductive == IgInv /\ [IgNext]_igVars => IgInv'
<1> SUFFICES ASSUME IgInv, [IgNext]_igVars PROVE IgInv'
  OBVIOUS
<1>1. CASE UNCHANGED igVars
  BY <1>1, IgSame DEF igVars
<1>2. ASSUME NEW r \in ExportIds,
             \/ export_traces(r) \/ export_logs(r) \/ export_metrics(r)
             \/ OltpTraceService_export(r) \/ OltpLogService_export(r)
             \/ OltpMetricService_export(r) \/ write(r)
      PROVE  IgInv'
  <2>1. RateLimited(r) \/ Malformed(r) \/ NothingToWrite(r) \/ Export(r)
    BY <1>2 DEF export_traces, export_logs, export_metrics, OltpTraceService_export,
       OltpLogService_export, OltpMetricService_export, write, HttpExport, GrpcExport
  <2>2. QED
    BY <2>1, RefusalsKeep, ExportKeeps
<1>3. ASSUME NEW p \in Pods, NEW k \in Limited \X KeyTenants, Replenish(p, k) PROVE IgInv'
  BY <1>3, IgSame DEF Replenish
<1>4. ASSUME NEW r \in ExportIds, NEW p \in Pods, NEW x \in DOMAIN Exports, NEW tr \in Transports,
             \/ \E t \in KeyTenants, role \in KeyRoles : Authenticate_export(r, p, tr, t, role, x)
             \/ Unauthenticated(r, p, tr, x)
      PROVE  IgInv'
  <2>1. KeyTenants # {} /\ KeyRoles # {}
    BY IngestAssumption DEF KeyRoles
  <2>2. QED
    BY <1>4, <2>1, AuthenticateKeeps
<1>5. QED
  BY <1>1, <1>2, <1>3, <1>4, PublishKeeps, PodRestartKeeps DEF IgNext

-----------------------------------------------------------------------------
(* Requests pass their stages in order, and each replica's count is what   *)
(* it has charged.                                                         *)
THEOREM ExportsInvariant == IgSpec => []IgInv
<1>1. QED
  BY IgStarts, IgInductive, PTL DEF IgSpec

(* A client is told the truth, a viewer's key lets nothing in, and while   *)
(* the budget is enforced no replica lets more series of a tenant into the *)
(* topic than the budget allows, whatever times out or restarts.           *)
THEOREM ExportsAccounted == IgSpec => []ExportsAreAccounted
<1>1. IgInv => AnswersAreTrue
  BY DEF IgInv, InOrder, AnswersAreTrue
<1>2. IgInv => BudgetHolds
  <2> SUFFICES ASSUME IgInv, NEW p \in Pods, NEW t \in KeyTenants
               PROVE  LET mine == {r \in ExportIds : requests[r].pod = p /\ requests[r].tenant = t}
                      IN /\ enforcing => charged[p][t] <= Budget
                         /\ FoldFunctionOnSet(LAMBDA a, b : a + b, 0, Charges, mine) = charged[p][t]
                         /\ \A r \in mine \intersect queued :
                               requests[r].charge \in {0, SeriesCount(requests[r])}
    BY DEF BudgetHolds
  <2> DEFINE mine == {r \in ExportIds : requests[r].pod = p /\ requests[r].tenant = t}
  <2>1. PICK all : all = ChargesOf(p, t)
    OBVIOUS
  <2>2. (enforcing => charged[p][t] <= Budget) /\ SumOn(all, ExportIds) = charged[p][t]
    BY <2>1 DEF IgInv, SumOn
  <2>3. /\ \A r \in ExportIds : all[r] \in Nat
        /\ \A r \in ExportIds \ mine : all[r] = 0
        /\ \A r \in mine : Charges[r] = all[r]
    BY <2>1, ChargesType DEF IgInv, ChargesOf, Charges
  <2>4. mine \in SUBSET ExportIds
    OBVIOUS
  <2> HIDE DEF mine
  <2>5. SumOn(all, mine) = SumOn(all, ExportIds)
    BY <2>3, <2>4, SumDrops, IngestAssumption
  <2>6. IsFiniteSet(mine)
    BY <2>4, FS_Subset, IngestAssumption
  <2>7. SumOn(Charges, mine) = SumOn(all, mine)
    BY <2>3, <2>4, <2>6, SumSame
  <2>8. FoldFunctionOnSet(LAMBDA a, b : a + b, 0, Charges, mine) = charged[p][t]
    BY <2>2, <2>5, <2>7 DEF SumOn
  <2>9. \A r \in mine \intersect queued : requests[r].charge \in {0, SeriesCount(requests[r])}
    BY DEF IgInv, InOrder, mine
  <2>10. QED
    BY <2>2, <2>8, <2>9 DEF mine
<1>3. QED
  BY <1>1, <1>2, ExportsInvariant, PTL DEF ExportsAreAccounted

-----------------------------------------------------------------------------
(* A scalar that both encodings can write is the same JSON value.          *)
LEMMA ScalarsAgree ==
    \A v : v.kind \notin {"bytes", "absent"} /\ v.text # "not a number" => JsonScalar(v) = ProtoScalar(v)
<1> SUFFICES ASSUME NEW v, v.kind \notin {"bytes", "absent"}, v.text # "not a number"
             PROVE  JsonScalar(v) = ProtoScalar(v)
  OBVIOUS
<1>1. CASE v.kind = "string"
  BY <1>1 DEF JsonScalar, ProtoScalar
<1>2. CASE v.kind = "int"
  BY <1>2 DEF JsonScalar, ProtoScalar
<1>3. CASE v.kind = "double"
  BY <1>3 DEF JsonScalar, ProtoScalar
<1>4. CASE v.kind = "bool"
  BY <1>4 DEF JsonScalar, ProtoScalar
<1>5. CASE v.kind \notin {"string", "int", "double", "bool"}
  BY <1>5 DEF JsonScalar, ProtoScalar
<1>6. QED
  BY <1>1, <1>2, <1>3, <1>4, <1>5

(* So are lists and maps of such scalars (extract_otlp_any_value,          *)
(* any_value_to_json).                                                     *)
LEMMA ValuesAgree ==
    \A v : Portable(v) => extract_otlp_any_value(v) = any_value_to_json(v)
<1> SUFFICES ASSUME NEW v, Portable(v)
             PROVE  extract_otlp_any_value(v) = any_value_to_json(v)
  OBVIOUS
<1>1. \A kv \in v.kids : kv[2].kind # "absent" /\ JsonScalar(kv[2]) = ProtoScalar(kv[2])
  BY ScalarsAgree DEF Portable
<1>2. JsonScalar(v) = ProtoScalar(v)
  BY ScalarsAgree DEF Portable
<1>3. {x \in v.kids : x[2].kind # "absent"} = v.kids
  BY <1>1
<1>4. {<<kv[1], JsonScalar(kv[2])>> : kv \in v.kids} = {<<kv[1], ProtoScalar(kv[2])>> : kv \in v.kids}
  BY <1>1
<1>5. CASE v.kind = "array"
  BY <1>4, <1>5 DEF extract_otlp_any_value, any_value_to_json
<1>6. CASE v.kind = "kvlist"
  BY <1>3, <1>4, <1>6 DEF extract_otlp_any_value, any_value_to_json
<1>7. CASE v.kind \notin {"array", "kvlist"}
  BY <1>2, <1>7 DEF extract_otlp_any_value, any_value_to_json
<1>8. QED
  BY <1>5, <1>6, <1>7

(* And attributes with such values (otlp_attrs_to_map, kv_list_to_map).    *)
LEMMA AttributesAgree ==
    \A attrs : PortableAttrs(attrs) => otlp_attrs_to_map(attrs) = kv_list_to_map(attrs)
<1> SUFFICES ASSUME NEW attrs, PortableAttrs(attrs)
             PROVE  otlp_attrs_to_map(attrs) = kv_list_to_map(attrs)
  OBVIOUS
<1>1. \A kv \in attrs : /\ kv[2].kind # "absent"
                        /\ extract_otlp_any_value(kv[2]) = any_value_to_json(kv[2])
  BY ValuesAgree DEF PortableAttrs, Portable
<1>2. {x \in attrs : x[2].kind # "absent"} = attrs
  BY <1>1
<1>3. {<<kv[1], extract_otlp_any_value(kv[2])>> : kv \in attrs}
        = {<<kv[1], any_value_to_json(kv[2])>> : kv \in attrs}
  BY <1>1
<1>4. QED
  BY <1>2, <1>3 DEF otlp_attrs_to_map, kv_list_to_map

(* The labels of a metric point agree where both sides print them alike    *)
(* (otlp_attrs_to_string_map, kv_str_map).                                 *)
LEMMA LabelsAgree ==
    \A attrs : PortableLabels(attrs) => otlp_attrs_to_string_map(attrs) = kv_str_map(attrs)
<1>1. ASSUME NEW v, PortableLabel(v)
      PROVE  v.kind # "absent" /\ JsonLabel(v) = kv_str_value(v)
  <2>1. extract_otlp_any_value(v) = JsonScalar(v) /\ v.kind # "absent"
    BY <1>1 DEF PortableLabel, extract_otlp_any_value
  <2>2. JsonScalar(v).text = v.text /\ JsonScalar(v).kind \in {"str", "num", "bool"}
    BY <1>1 DEF PortableLabel, JsonScalar, Scalar
  <2>3. JsonLabel(v) = v.text
    BY <2>1, <2>2 DEF JsonLabel
  <2>4. kv_str_value(v) = v.text
    BY <1>1 DEF PortableLabel, kv_str_value
  <2>5. QED
    BY <2>1, <2>3, <2>4
<1> SUFFICES ASSUME NEW attrs, PortableLabels(attrs)
             PROVE  otlp_attrs_to_string_map(attrs) = kv_str_map(attrs)
  OBVIOUS
<1>2. \A kv \in attrs : kv[2].kind # "absent" /\ JsonLabel(kv[2]) = kv_str_value(kv[2])
  BY <1>1 DEF PortableLabels
<1>3. {x \in attrs : x[2].kind # "absent"} = attrs
  BY <1>2
<1>4. {<<kv[1], JsonLabel(kv[2])>> : kv \in attrs} = {<<kv[1], kv_str_value(kv[2])>> : kv \in attrs}
  BY <1>2
<1>5. QED
  BY <1>3, <1>4 DEF otlp_attrs_to_string_map, kv_str_map

(* A metric that both encodings can write has the series of its JSON form  *)
(* in its protobuf form as well.                                           *)
LEMMA MetricsAgree ==
    ASSUME NEW m, PortableMetric(m)
    PROVE  parse_otlp_metrics(m).series \subseteq proto_metrics_to_domain(m).series
<1> DEFINE known == IF m.type \in {"sum", "gauge", "histogram"} THEN m.points ELSE {}
           id(dp) == SeriesId(m, JsonMonotonic(m), otlp_attrs_to_string_map(dp.attrs),
                              otlp_attrs_to_map(m.resource))
           other(dp) == SeriesId(m, ProtoMonotonic(m), kv_str_map(dp.attrs),
                                 kv_list_to_map(m.resource))
<1>1. otlp_attrs_to_map(m.resource) = kv_list_to_map(m.resource)
  BY AttributesAgree DEF PortableMetric
<1>2. \A dp \in m.points : otlp_attrs_to_string_map(dp.attrs) = kv_str_map(dp.attrs)
  BY LabelsAgree DEF PortableMetric
<1>3. \A dp \in m.points : id(dp) = other(dp)
  <2>1. CASE m.type = "sum"
    BY <1>1, <1>2, <2>1 DEF PortableMetric, JsonMonotonic, ProtoMonotonic
  <2>2. CASE m.type # "sum"
    BY <1>1, <1>2, <2>2 DEF SeriesId
  <2>3. QED
    BY <2>1, <2>2
<1>4. known \subseteq m.points
  OBVIOUS
<1> HIDE DEF known
<1>5. parse_otlp_metrics(m).series = {id(dp) : dp \in known}
  BY DEF parse_otlp_metrics, known
<1>6. proto_metrics_to_domain(m).series = {other(dp) : dp \in m.points}
  BY DEF proto_metrics_to_domain
<1> HIDE DEF id, other
<1>7. QED
  BY <1>3, <1>4, <1>5, <1>6

(* One export that goes through both converters is stored alike.           *)
LEMMA EncodingsAgree == ConvertersAgree
<1> SUFFICES ASSUME NEW r \in queued, NEW s \in queued,
                    requests[r].export = requests[s].export,
                    requests[r].transport = "http_json", requests[s].transport # "http_json"
             PROVE  LET q == requests[r]
                        p == requests[s]
                        x == Exports[q.export]
                        a == Converted(q)
                        b == Converted(p)
                    IN CASE x.signal = "logs" ->
                              /\ Portable(x.data.body) => a.body = b.body
                              /\ PortableAttrs(x.data.attrs) => a.attributes = b.attributes
                         [] x.signal = "traces" ->
                              /\ PortableAttrs(x.data.attrs) => a.attributes = b.attributes
                              /\ a.duration = b.duration /\ a.service_name = b.service_name
                              /\ ~x.data.named => a.span_kind = b.span_kind /\ a.status_code = b.status_code
                         [] x.signal = "metrics" ->
                              PortableMetric(x.data) => a.series \subseteq b.series
                         [] OTHER -> TRUE
  BY DEF ConvertersAgree
<1>1. PICK x : x = Exports[requests[r].export]
  OBVIOUS
<1>2. PICK a : a = Converted(requests[r])
  OBVIOUS
<1>3. PICK b : b = Converted(requests[s])
  OBVIOUS
<1>4. x = Exports[requests[s].export]
  BY <1>1
<1>5. CASE x.signal = "logs"
  <2>1. a = parse_otlp_logs(x.data) /\ b = proto_logs_to_domain(x.data)
    BY <1>1, <1>2, <1>3, <1>4, <1>5 DEF Converted
  <2>2. /\ a.body = extract_otlp_any_value(x.data.body) /\ b.body = any_value_to_json(x.data.body)
        /\ a.attributes = otlp_attrs_to_map(x.data.attrs) /\ b.attributes = kv_list_to_map(x.data.attrs)
    BY <2>1 DEF parse_otlp_logs, proto_logs_to_domain
  <2>3. QED
    BY <1>1, <1>2, <1>3, <1>5, <2>2, ValuesAgree, AttributesAgree
<1>6. CASE x.signal = "traces"
  <2>1. a = parse_otlp_traces(x.data) /\ b = proto_spans_to_domain(x.data)
    BY <1>1, <1>2, <1>3, <1>4, <1>6 DEF Converted
  <2>2. /\ a.duration = b.duration /\ a.service_name = b.service_name
        /\ a.attributes = otlp_attrs_to_map(x.data.attrs) /\ b.attributes = kv_list_to_map(x.data.attrs)
        /\ ~x.data.named => a.span_kind = b.span_kind /\ a.status_code = b.status_code
    BY <2>1 DEF parse_otlp_traces, proto_spans_to_domain, span_kind_from_json, status_from_json
  <2>3. QED
    BY <1>1, <1>2, <1>3, <1>6, <2>2, AttributesAgree
<1>7. CASE x.signal = "metrics"
  <2>1. a = parse_otlp_metrics(x.data) /\ b = proto_metrics_to_domain(x.data)
    BY <1>1, <1>2, <1>3, <1>4, <1>7 DEF Converted
  <2>2. PortableMetric(x.data) => a.series \subseteq b.series
    BY <2>1, MetricsAgree
  <2>3. QED
    BY <1>1, <1>2, <1>3, <1>7, <2>2
<1>8. CASE x.signal \notin {"logs", "traces", "metrics"}
  BY <1>1, <1>8
<1>9. QED
  BY <1>5, <1>6, <1>7, <1>8

(* Of a finite set of buckets one has the largest bound.                   *)
LEMMA LargestBound ==
    ASSUME NEW S, IsFiniteSet(S), S # {}, \A ts \in S : ts.le \in Int
    PROVE  \E x \in S : \A y \in S : y.le <= x.le
<1> DEFINE without == {T \in SUBSET S : T # {} /\ ~ \E x \in T : \A y \in T : y.le <= x.le}
<1> SUFFICES ASSUME without # {} PROVE FALSE
  OBVIOUS
<1>1. PICK T \in without : \A U \in without : Cardinality(T) <= Cardinality(U)
  BY SmallestSet
<1>2. T \in SUBSET S /\ T # {} /\ ~ \E x \in T : \A y \in T : y.le <= x.le
  OBVIOUS
<1>3. PICK x \in T : TRUE
  BY <1>2
<1>4. PICK R : R = T \ {x}
  OBVIOUS
<1>5. IsFiniteSet(T) /\ IsFiniteSet(R)
  BY <1>2, <1>4, FS_Subset
<1>6. Cardinality(R) = Cardinality(T) - 1 /\ Cardinality(T) \in Nat
  BY <1>3, <1>4, <1>5, FS_RemoveElement, FS_CardinalityType
<1>7. R \notin without
  BY <1>1, <1>6
<1>8. \A y \in T : y.le \in Int
  BY <1>2
<1>9. CASE R = {}
  <2>1. T = {x}
    BY <1>3, <1>4, <1>9
  <2>2. \A y \in T : y.le <= x.le
    BY <1>8, <2>1
  <2>3. QED
    BY <1>2, <1>3, <2>2
<1>10. CASE R # {}
  <2>1. PICK z \in R : \A y \in R : y.le <= z.le
    BY <1>2, <1>4, <1>7, <1>10
  <2>2. \A y \in T : y = x \/ y \in R
    BY <1>4
  <2>3. z \in T /\ x.le \in Int /\ z.le \in Int
    BY <1>3, <1>4, <1>8
  <2>4. CASE x.le <= z.le
    BY <1>2, <2>1, <2>2, <2>3, <2>4
  <2>5. CASE z.le <= x.le
    <3>1. \A y \in T : y.le <= x.le
      BY <1>8, <2>1, <2>2, <2>3, <2>5
    <3>2. QED
      BY <1>2, <1>3, <3>1
  <2>6. QED
    BY <2>3, <2>4, <2>5
<1>11. QED
  BY <1>9, <1>10

(* The buckets s, one after the other by their bounds, are those of S.     *)
AreSorted(s, S) ==
    /\ s \in Bijection(1 .. Cardinality(S), S)
    /\ \A i, j \in DOMAIN s : i < j => s[i].le <= s[j].le

(* Buckets can be sorted: the one with the largest bound comes last.       *)
LEMMA SortExists ==
    ASSUME NEW S, IsFiniteSet(S), \A ts \in S : ts.le \in Int
    PROVE  \E s : AreSorted(s, S)
<1> DEFINE without == {T \in SUBSET S : ~ \E s : AreSorted(s, T)}
<1> SUFFICES ASSUME without # {} PROVE FALSE
  OBVIOUS
<1>1. PICK T \in without : \A U \in without : Cardinality(T) <= Cardinality(U)
  BY SmallestSet
<1>2. T \in SUBSET S /\ ~ \E s : AreSorted(s, T)
  OBVIOUS
<1> HIDE DEF without
<1>3. IsFiniteSet(T) /\ \A y \in T : y.le \in Int
  BY <1>2, FS_Subset
<1>4. CASE T = {}
  <2>1. PICK n : n = Cardinality(T)
    OBVIOUS
  <2>2. n = 0
    BY <1>4, <2>1, FS_EmptySet
  <2>3. 1 .. n = {}
    BY <2>2
  <2>4. PICK s : s = [i \in 1 .. n |-> i]
    OBVIOUS
  <2>5. s \in Bijection(1 .. n, T)
    BY <1>4, <2>3, <2>4 DEF Bijection, Injection, Surjection, IsInjective
  <2>6. \A i, j \in DOMAIN s : i < j => s[i].le <= s[j].le
    BY <2>3, <2>4
  <2>7. QED
    BY <1>2, <2>1, <2>5, <2>6 DEF AreSorted
<1>5. CASE T # {}
  <2>1. PICK x \in T : \A y \in T : y.le <= x.le
    BY <1>3, <1>5, LargestBound
  <2>2. PICK R : R = T \ {x}
    OBVIOUS
  <2>3. PICK n : n = Cardinality(T)
    OBVIOUS
  <2>4. PICK m : m = Cardinality(R)
    OBVIOUS
  <2>5. n \in Nat /\ m \in Nat /\ n = m + 1
    <3>1. n \in Nat
      BY <1>3, <2>3, FS_CardinalityType
    <3>2. IsFiniteSet(R)
      BY <1>3, <2>2, FS_Subset
    <3>3. m \in Nat
      BY <2>4, <3>2, FS_CardinalityType
    <3>4. Cardinality(T \ {x}) = Cardinality(T) - 1
      BY <1>3, <2>1, FS_RemoveElement
    <3>5. m = n - 1
      BY <2>2, <2>3, <2>4, <3>4
    <3>6. QED
      BY <3>1, <3>3, <3>5
  <2>6. \E s : AreSorted(s, R)
    <3>1. R \notin without
      BY <1>1, <2>3, <2>4, <2>5
    <3>2. R \in SUBSET S
      BY <1>2, <2>2
    <3>3. QED
      BY <3>1, <3>2 DEF without
  <2>7. PICK s : AreSorted(s, R)
    BY <2>6
  <2>8. /\ s \in [1 .. m -> R] /\ DOMAIN s = 1 .. m
        /\ \A i, j \in 1 .. m : s[i] = s[j] => i = j
        /\ \A y \in R : \E i \in 1 .. m : s[i] = y
        /\ \A i, j \in 1 .. m : i < j => s[i].le <= s[j].le
    BY <2>4, <2>7 DEF AreSorted, Bijection, Injection, Surjection, IsInjective
  <2>9. PICK all : all = [i \in 1 .. n |-> IF i = n THEN x ELSE s[i]]
    OBVIOUS
  <2>10. \A i \in 1 .. n : i = n \/ i \in 1 .. m
    BY <2>5
  <2>11. n \in 1 .. n /\ \A i \in 1 .. m : i \in 1 .. n /\ i # n
    BY <2>5
  <2>12. /\ \A i \in 1 .. m : all[i] = s[i] /\ all[i] \in R
         /\ all[n] = x
    BY <2>8, <2>9, <2>11
  <2>13. all \in [1 .. n -> T]
    BY <2>1, <2>2, <2>8, <2>9, <2>10
  <2>14. \A i, j \in 1 .. n : all[i] = all[j] => i = j
    BY <2>2, <2>8, <2>10, <2>12
  <2>15. \A y \in T : \E i \in 1 .. n : all[i] = y
    <3>1. \A y \in T : y = x \/ y \in R
      BY <2>2
    <3>2. QED
      BY <2>8, <2>11, <2>12, <3>1
  <2>16. \A i, j \in 1 .. n : i < j => all[i].le <= all[j].le
    <3> SUFFICES ASSUME NEW i \in 1 .. n, NEW j \in 1 .. n, i < j PROVE all[i].le <= all[j].le
      OBVIOUS
    <3>1. i \in 1 .. m
      BY <2>5
    <3>2. CASE j = n
      <4>1. all[i] \in T /\ all[j] = x
        BY <2>12, <2>13, <3>2
      <4>2. QED
        BY <2>1, <4>1
    <3>3. CASE j \in 1 .. m
      BY <2>8, <2>12, <3>1, <3>3
    <3>4. QED
      BY <2>10, <3>2, <3>3
  <2>17. AreSorted(all, T)
    BY <2>3, <2>9, <2>13, <2>14, <2>15, <2>16 DEF AreSorted, Bijection, Injection, Surjection, IsInjective
  <2>18. QED
    BY <1>2, <2>17
<1>6. QED
  BY <1>4, <1>5

(* What the converter sorts is sorted.                                     *)
LEMMA BucketsAreSorted ==
    ASSUME NEW S, IsFiniteSet(S), \A ts \in S : ts.le \in Int
    PROVE  AreSorted(SortedByBound(S), S)
<1>1. PICK s : AreSorted(s, S)
  BY SortExists
<1>2. \E t \in Bijection(1 .. Cardinality(S), S) : \A i, j \in DOMAIN t : i < j => t[i].le <= t[j].le
  BY <1>1 DEF AreSorted
<1>3. QED
  BY <1>2 DEF AreSorted, SortedByBound

(* Cumulative counts and the counts of each interval.                      *)
AreIntervals(n, cumulative, counts) ==
    /\ \A i \in 1 .. n : cumulative[i] \in Nat
    /\ \A i, j \in 1 .. n : i < j => cumulative[i] <= cumulative[j]
    /\ DOMAIN cumulative = 1 .. n
    /\ counts = IntervalCounts(cumulative)

(* The counts of the intervals add up to the last cumulative count.        *)
LEMMA IntervalsAddUp ==
    ASSUME NEW n \in Nat \ {0}, NEW cumulative, NEW counts, AreIntervals(n, cumulative, counts)
    PROVE  SumOn(counts, 1 .. n) = cumulative[n]
<1>1. /\ DOMAIN counts = 1 .. n
      /\ counts[1] = cumulative[1]
      /\ \A i \in 2 .. n : counts[i] = cumulative[i] - cumulative[i - 1]
  <2>1. counts = [i \in 1 .. n |->
                    LET prev == IF i = 1 THEN 0 ELSE cumulative[i - 1]
                    IN IF cumulative[i] >= prev THEN cumulative[i] - prev ELSE 0]
    BY DEF AreIntervals, IntervalCounts
  <2>2. 1 \in 1 .. n /\ cumulative[1] \in Nat
    BY DEF AreIntervals
  <2>3. ASSUME NEW i \in 2 .. n PROVE counts[i] = cumulative[i] - cumulative[i - 1]
    <3>1. i \in 1 .. n /\ i - 1 \in 1 .. n /\ i - 1 < i /\ i # 1
      OBVIOUS
    <3>2. cumulative[i] \in Nat /\ cumulative[i - 1] \in Nat /\ cumulative[i - 1] <= cumulative[i]
      BY <3>1 DEF AreIntervals
    <3>3. QED
      BY <2>1, <3>1, <3>2
  <2>4. counts[1] = cumulative[1]
    BY <2>1, <2>2
  <2>5. QED
    BY <2>1, <2>3, <2>4
<1> DEFINE upto(m) == SumOn(counts, 1 .. m) = cumulative[m]
           good == {k \in Nat : k + 1 <= n => upto(k + 1)}
<1>2. upto(1)
  <2>1. PICK one : one = 1 .. 1
    OBVIOUS
  <2>2. PICK none : none = {}
    OBVIOUS
  <2>3. one = none \union {1} /\ 1 \in 1 .. n /\ 1 \notin none /\ IsFiniteSet(none)
    BY <2>1, <2>2, FS_EmptySet
  <2>4. counts[1] \in Nat
    BY <1>1, <2>3 DEF AreIntervals
  <2>5. SumOn(counts, one) = counts[1]
    <3>1. PICK b : b = 1
      OBVIOUS
    <3>2. b \notin none /\ \A i \in none \union {b} : counts[i] \in Int
      BY <2>2, <2>4, <3>1
    <3>3. SumOn(counts, none \union {b}) = SumOn(counts, none) + counts[b]
      BY <2>3, <3>2, SumPlus
    <3>4. SumOn(counts, none) = 0
      BY <2>2, SumEmpty
    <3>5. one = none \union {b} /\ counts[b] = counts[1]
      BY <2>3, <3>1
    <3>6. QED
      BY <2>4, <3>3, <3>4, <3>5
  <2>6. QED
    BY <1>1, <2>1, <2>5
<1>3. ASSUME NEW a \in Nat, NEW b, a >= 1, b = a + 1, b <= n, upto(a) PROVE upto(b)
  <2>1. PICK A : A = 1 .. a
    OBVIOUS
  <2>2. b \notin A /\ A \union {b} = 1 .. b /\ IsFiniteSet(A)
    <3>1. IsFiniteSet(1 .. a)
      BY FS_Interval
    <3>2. \A i : i \in 1 .. b <=> i \in 1 .. a \/ i = b
      BY <1>3
    <3>3. b \notin 1 .. a
      BY <1>3
    <3>4. QED
      BY <2>1, <3>1, <3>2, <3>3
  <2>3. /\ a \in 1 .. n /\ b \in 1 .. n /\ b \in 2 .. n /\ b - 1 = a
        /\ \A i \in A \union {b} : i \in 1 .. n /\ (i = 1 \/ (i \in 2 .. n /\ i - 1 \in 1 .. n))
    BY <1>3, <2>1
  <2>4. \A i \in 1 .. n : cumulative[i] \in Int
    BY DEF AreIntervals
  <2>5. ASSUME NEW i \in A \union {b} PROVE counts[i] \in Int
    <3>1. i \in 1 .. n /\ cumulative[i] \in Int
      BY <2>3, <2>4
    <3>2. CASE i = 1
      BY <1>1, <3>1, <3>2
    <3>3. CASE i \in 2 .. n /\ i - 1 \in 1 .. n
      <4>1. cumulative[i - 1] \in Int
        BY <2>4, <3>3
      <4>2. QED
        BY <1>1, <3>1, <3>3, <4>1
    <3>4. QED
      BY <2>3, <3>2, <3>3
  <2>6. SumOn(counts, A \union {b}) = SumOn(counts, A) + counts[b]
    BY <2>2, <2>5, SumPlus
  <2>7. counts[b] = cumulative[b] - cumulative[a] /\ cumulative[b] \in Int /\ cumulative[a] \in Int
    BY <1>1, <2>3, <2>4
  <2>8. SumOn(counts, A) = cumulative[a]
    BY <1>3, <2>1
  <2>9. SumOn(counts, A \union {b}) = cumulative[b]
    BY <2>6, <2>7, <2>8
  <2>10. QED
    BY <2>2, <2>9
<1> HIDE DEF upto
<1>4. 0 \in good
  BY <1>2
<1>5. ASSUME NEW k \in good PROVE k + 1 \in good
  <2>1. k \in Nat /\ (k + 1 <= n => upto(k + 1))
    OBVIOUS
  <2> SUFFICES ASSUME (k + 1) + 1 <= n PROVE upto((k + 1) + 1)
    BY <2>1
  <2>2. k + 1 \in Nat /\ k + 1 >= 1 /\ k + 1 <= n
    BY <2>1
  <2>3. QED
    BY <1>3, <2>1, <2>2
<1>6. good = Nat
  <2>1. good \in SUBSET Nat
    OBVIOUS
  <2> HIDE DEF good
  <2>2. QED
    BY <1>4, <1>5, <2>1, NatSets
<1>7. n - 1 \in good /\ (n - 1) + 1 = n
  <2>1. n - 1 \in Nat /\ (n - 1) + 1 = n
    OBVIOUS
  <2> HIDE DEF good
  <2>2. QED
    BY <1>6, <2>1
<1>8. upto(n)
  <2>1. (n - 1) + 1 <= n => upto((n - 1) + 1)
    BY <1>7
  <2>2. QED
    BY <1>7, <2>1
<1>9. QED
  BY <1>8 DEF upto

(* The buckets of one histogram at one time, as the gateway receives them. *)
AreBuckets(at, t) ==
    /\ IsFiniteSet(at)
    /\ \A ts \in at : ts.le \in Int /\ ts.le <= Inf /\ ts.samples[t] \in Nat

(* A point whose counts are those of the sorted buckets and whose bounds   *)
(* are those of the sorted finite ones.                                    *)
IsPointOf(pt, series, at, t, sorted, finite, cumulative) ==
    /\ AreSorted(sorted, at)
    /\ AreSorted(finite, {ts \in at : ts.le # Inf})
    /\ cumulative = [i \in DOMAIN sorted |-> sorted[i].samples[t]]
    /\ pt = [series |-> series, time |-> t, value |-> 0,
             bounds |-> [i \in DOMAIN finite |-> finite[i].le],
             counts |-> IntervalCounts(cumulative)]

(* The parts of the stored point (convert_histogram_group).                *)
LEMMA PointOfBuckets ==
    ASSUME NEW at, NEW t, AreBuckets(at, t), Inf \in Int, NEW series, NEW group,
           at = BucketsAt(group, t)
    PROVE  \E sorted, finite, cumulative :
              IsPointOf(HistogramPoint(series, group, t), series, at, t, sorted, finite, cumulative)
<1>1. PICK bounded : bounded = {ts \in at : ts.le # Inf}
  OBVIOUS
<1>2. IsFiniteSet(bounded) /\ IsFiniteSet(at)
  BY <1>1, FS_Subset DEF AreBuckets
<1>3. PICK sorted : sorted = SortedByBound(at)
  OBVIOUS
<1>4. PICK finite : finite = SortedByBound(bounded)
  OBVIOUS
<1>5. AreSorted(sorted, at)
  BY <1>2, <1>3, BucketsAreSorted DEF AreBuckets
<1>6. AreSorted(finite, bounded)
  BY <1>1, <1>2, <1>4, BucketsAreSorted DEF AreBuckets
<1>7. PICK cumulative : cumulative = [i \in DOMAIN sorted |-> sorted[i].samples[t]]
  OBVIOUS
<1>8. HistogramPoint(series, group, t) =
        [series |-> series, time |-> t, value |-> 0,
         bounds |-> [i \in DOMAIN finite |-> finite[i].le],
         counts |-> IntervalCounts(cumulative)]
  BY <1>1, <1>3, <1>4, <1>7 DEF HistogramPoint
<1>9. IsPointOf(HistogramPoint(series, group, t), series, at, t, sorted, finite, cumulative)
  BY <1>1, <1>5, <1>6, <1>7, <1>8 DEF IsPointOf
<1>10. QED
  BY <1>9

(* Bounds that differ increase.                                            *)
LEMMA BoundsIncrease ==
    ASSUME NEW S, \A ts \in S : ts.le \in Int, NEW s, AreSorted(s, S), IsFiniteSet(S),
           \A u, v \in S : u.le = v.le => u = v, NEW bounds, bounds = [i \in DOMAIN s |-> s[i].le]
    PROVE  /\ Len(bounds) = Cardinality(S)
           /\ \A i \in 2 .. Len(bounds) : bounds[i - 1] < bounds[i]
<1>1. PICK n : n = Cardinality(S)
  OBVIOUS
<1>2. n \in Nat
  BY <1>1, FS_CardinalityType
<1>3. /\ s \in [1 .. n -> S] /\ DOMAIN s = 1 .. n
      /\ \A i, j \in 1 .. n : s[i] = s[j] => i = j
      /\ \A i, j \in 1 .. n : i < j => s[i].le <= s[j].le
  BY <1>1 DEF AreSorted, Bijection, Injection, IsInjective
<1>4. bounds = [i \in 1 .. n |-> s[i].le]
  BY <1>3
<1>5. Len(bounds) = n
  <2>1. bounds \in [1 .. n -> Int]
    BY <1>3, <1>4
  <2>2. bounds \in Seq(Int)
    BY <1>2, <2>1
  <2>3. QED
    BY <1>2, <2>1, <2>2, LenProperties
<1>6. ASSUME NEW i \in 2 .. n PROVE bounds[i - 1] < bounds[i]
  <2>1. i \in 1 .. n /\ i - 1 \in 1 .. n /\ i - 1 < i /\ i - 1 # i
    BY <1>2
  <2>2. s[i - 1].le <= s[i].le
    BY <1>3, <2>1
  <2>3. s[i - 1] # s[i]
    BY <1>3, <2>1
  <2>4. s[i - 1] \in S /\ s[i] \in S
    BY <1>3, <2>1
  <2>5. s[i - 1].le # s[i].le /\ s[i - 1].le \in Int /\ s[i].le \in Int
    BY <2>3, <2>4
  <2>6. bounds[i - 1] = s[i - 1].le /\ bounds[i] = s[i].le
    BY <1>4, <2>1
  <2>7. QED
    BY <2>2, <2>5, <2>6
<1>7. QED
  BY <1>1, <1>5, <1>6

(* The counts of a point, over its buckets.                                *)
LEMMA CountsOfBuckets ==
    ASSUME NEW at, NEW t, AreBuckets(at, t), Inf \in Int,
           NEW sorted, AreSorted(sorted, at),
           NEW cumulative, cumulative = [i \in DOMAIN sorted |-> sorted[i].samples[t]],
           NEW counts, counts = IntervalCounts(cumulative)
    PROVE  /\ Len(counts) = Cardinality(at)
           /\ (\A u, v \in at : u.le <= v.le => u.samples[t] <= v.samples[t])
                => \A ts \in at : ts.le = Inf => Total(counts) = ts.samples[t]
<1>1. PICK n : n = Cardinality(at)
  OBVIOUS
<1>2. n \in Nat
  BY <1>1, FS_CardinalityType DEF AreBuckets
<1>3. /\ sorted \in [1 .. n -> at] /\ DOMAIN sorted = 1 .. n
      /\ \A ts \in at : \E i \in 1 .. n : sorted[i] = ts
      /\ \A i, j \in 1 .. n : i < j => sorted[i].le <= sorted[j].le
  BY <1>1 DEF AreSorted, Bijection, Injection, Surjection
<1>4. DOMAIN cumulative = 1 .. n /\ \A i \in 1 .. n : cumulative[i] = sorted[i].samples[t]
  BY <1>3
<1>5. DOMAIN counts = 1 .. n /\ \A i \in 1 .. n : counts[i] \in Nat
  <2>1. \A i \in 1 .. n : cumulative[i] \in Nat
    BY <1>3, <1>4 DEF AreBuckets
  <2>2. counts = [i \in 1 .. n |-> LET prev == IF i = 1 THEN 0 ELSE cumulative[i - 1]
                                   IN IF cumulative[i] >= prev THEN cumulative[i] - prev ELSE 0]
    BY <1>4 DEF IntervalCounts
  <2>3. ASSUME NEW i \in 1 .. n PROVE counts[i] \in Nat
    <3>1. counts[i] = LET prev == IF i = 1 THEN 0 ELSE cumulative[i - 1]
                      IN IF cumulative[i] >= prev THEN cumulative[i] - prev ELSE 0
      BY <2>2
    <3>2. i # 1 => i - 1 \in 1 .. n
      BY <1>2
    <3>3. PICK prev : prev = IF i = 1 THEN 0 ELSE cumulative[i - 1]
      OBVIOUS
    <3>4. prev \in Nat /\ cumulative[i] \in Nat
      BY <2>1, <3>2, <3>3
    <3>5. counts[i] = IF cumulative[i] >= prev THEN cumulative[i] - prev ELSE 0
      BY <3>1, <3>3
    <3>6. QED
      BY <3>4, <3>5
  <2>4. QED
    BY <2>2, <2>3
<1>6. Len(counts) = n
  <2>1. counts = [i \in 1 .. n |-> counts[i]]
    BY <1>3, <1>4 DEF IntervalCounts
  <2>2. counts \in [1 .. n -> Nat]
    BY <1>5, <2>1
  <2>3. counts \in Seq(Nat)
    BY <1>2, <2>2
  <2>4. QED
    BY <1>2, <1>5, <2>3, LenProperties
<1>7. ASSUME \A u, v \in at : u.le <= v.le => u.samples[t] <= v.samples[t],
             NEW ts \in at, ts.le = Inf
      PROVE  Total(counts) = ts.samples[t]
  <2>1. PICK k \in 1 .. n : sorted[k] = ts
    BY <1>3
  <2>2. n \in Nat \ {0} /\ n \in 1 .. n
    BY <1>2
  <2>3. \A i, j \in 1 .. n : i < j => cumulative[i] <= cumulative[j]
    <3> SUFFICES ASSUME NEW i \in 1 .. n, NEW j \in 1 .. n, i < j
                 PROVE  cumulative[i] <= cumulative[j]
      OBVIOUS
    <3>1. sorted[i] \in at /\ sorted[j] \in at /\ sorted[i].le <= sorted[j].le
      BY <1>3
    <3>2. sorted[i].samples[t] <= sorted[j].samples[t]
      BY <1>7, <3>1
    <3>3. QED
      BY <1>4, <3>2
  <2>4. \A i \in 1 .. n : cumulative[i] \in Nat
    BY <1>3, <1>4 DEF AreBuckets
  <2>5. AreIntervals(n, cumulative, counts)
    BY <1>4, <2>3, <2>4 DEF AreIntervals
  <2>6. SumOn(counts, 1 .. n) = cumulative[n]
    BY <2>2, <2>5, IntervalsAddUp
  <2>7. Total(counts) = cumulative[n]
    <3>1. Total(counts) = SumOn(counts, DOMAIN counts)
      BY SumOfFunction DEF Total
    <3>2. QED
      BY <1>5, <2>6, <3>1
  <2>8. PICK last : last = sorted[n]
    OBVIOUS
  <2>9. last \in at /\ last.le \in Int /\ last.le <= Inf /\ Inf <= last.le
    <3>1. last \in at /\ last.le \in Int /\ last.le <= Inf
      BY <1>3, <2>2, <2>8 DEF AreBuckets
    <3>2. k = n \/ k < n
      BY <1>2
    <3>3. Inf <= last.le
      <4>1. CASE k = n
        BY <1>7, <2>1, <2>8, <3>1, <4>1
      <4>2. CASE k < n
        BY <1>3, <1>7, <2>1, <2>2, <2>8, <4>2
      <4>3. QED
        BY <3>2, <4>1, <4>2
    <3>4. QED
      BY <3>1, <3>3
  <2>10. last.le = ts.le
    BY <1>7, <2>9
  <2>11. last.samples[t] = ts.samples[t]
    <3>1. last.le <= ts.le /\ ts.le <= last.le
      BY <2>9, <2>10
    <3>2. last.samples[t] <= ts.samples[t] /\ ts.samples[t] <= last.samples[t]
      BY <1>7, <2>9, <3>1
    <3>3. last.samples[t] \in Nat /\ ts.samples[t] \in Nat
      BY <2>9 DEF AreBuckets
    <3>4. QED
      BY <3>2, <3>3
  <2>12. QED
    BY <1>4, <2>2, <2>7, <2>8, <2>11
<1>8. QED
  BY <1>1, <1>6, <1>7

(* A point counts every observation of its buckets once.                   *)
LEMMA HistogramCountsOnce ==
    ASSUME NEW at, NEW t, AreBuckets(at, t), Inf \in Int, NEW series, NEW group,
           at = BucketsAt(group, t)
    PROVE  /\ HistogramPoint(series, group, t).series = series
           /\ HistogramPoint(series, group, t).time = t
           /\ CountsOnce(HistogramPoint(series, group, t), at)
<1>1. PICK bounded : bounded = {ts \in at : ts.le # Inf}
  OBVIOUS
<1>2. PICK pt : pt = HistogramPoint(series, group, t)
  OBVIOUS
<1>3. PICK sorted, finite, cumulative :
        IsPointOf(pt, series, at, t, sorted, finite, cumulative)
  BY <1>2, PointOfBuckets
<1>4. /\ AreSorted(sorted, at)
      /\ AreSorted(finite, bounded)
      /\ cumulative = [i \in DOMAIN sorted |-> sorted[i].samples[t]]
      /\ pt = [series |-> series, time |-> t, value |-> 0,
               bounds |-> [i \in DOMAIN finite |-> finite[i].le],
               counts |-> IntervalCounts(cumulative)]
  BY <1>1, <1>3 DEF IsPointOf
<1>5. PICK bounds : bounds = [i \in DOMAIN finite |-> finite[i].le]
  OBVIOUS
<1>6. PICK counts : counts = IntervalCounts(cumulative)
  OBVIOUS
<1>7. pt.series = series /\ pt.time = t /\ pt.bounds = bounds /\ pt.counts = counts
  BY <1>4, <1>5, <1>6
<1>8. /\ Len(counts) = Cardinality(at)
      /\ (\A u, v \in at : u.le <= v.le => u.samples[t] <= v.samples[t])
           => \A ts \in at : ts.le = Inf => Total(counts) = ts.samples[t]
  BY <1>4, <1>6, CountsOfBuckets
<1>9. ASSUME \A u, v \in at : u.le = v.le => u = v
      PROVE  /\ Len(bounds) = Cardinality(bounded)
             /\ \A i \in 2 .. Len(bounds) : bounds[i - 1] < bounds[i]
  <2>1. IsFiniteSet(bounded) /\ \A ts \in bounded : ts.le \in Int
    BY <1>1, FS_Subset DEF AreBuckets
  <2>2. \A u, v \in bounded : u.le = v.le => u = v
    BY <1>1, <1>9
  <2>3. QED
    BY <1>4, <1>5, <2>1, <2>2, BoundsIncrease
<1>10. ASSUME \A u, v \in at : u.le = v.le => u = v, NEW x \in at, x.le = Inf
      PROVE  Len(counts) = Len(bounds) + 1
  <2>1. bounded = at \ {x}
    BY <1>1, <1>10
  <2>2. Cardinality(at \ {x}) = Cardinality(at) - 1
    BY FS_RemoveElement DEF AreBuckets
  <2>3. Cardinality(at) \in Nat
    BY FS_CardinalityType DEF AreBuckets
  <2>4. Len(bounds) = Cardinality(bounded)
    BY <1>9, <1>10
  <2>5. QED
    BY <1>8, <2>1, <2>2, <2>3, <2>4
<1>11. CountsOnce(pt, at)
  BY <1>7, <1>8, <1>9, <1>10 DEF CountsOnce
<1>12. QED
  BY <1>2, <1>7, <1>11

(* A point of a single time series is no histogram's (convert_simple).     *)
LEMMA SimplePoints ==
    ASSUME NEW ts, NEW pt \in convert_simple(ts).points
    PROVE  pt.series.type # "histogram"
<1>1. PICK type \in {"sum", "gauge"} : type = IF ts.suffix = "_total" THEN "sum" ELSE "gauge"
  OBVIOUS
<1>2. PICK series : series = build_series(ts, <<ts.base, ts.suffix>>, type)
  OBVIOUS
<1>3. series.type = type
  BY <1>2 DEF build_series
<1>4. convert_simple(ts).points = Gauges(series, ts)
  BY <1>1, <1>2 DEF convert_simple
<1>5. pt.series = series
  BY <1>4 DEF Gauges
<1>6. QED
  BY <1>1, <1>3, <1>5

(* A point of the histogram that group is, whose labels one has.           *)
IsPointAt(pt, one, base, group, t) ==
    pt = HistogramPoint(build_series(one, <<base, "">>, "histogram"), group, t)

(* A histogram point of a group is that of its buckets at one time.        *)
LEMMA GroupPoints ==
    ASSUME NEW group, NEW base, NEW pt \in convert_histogram_group(base, group).points,
           pt.series.type = "histogram"
    PROVE  \E t \in BucketTimes(group) : IsPointAt(pt, CHOOSE ts \in group : TRUE, base, group, t)
<1> DEFINE has_inf == \E ts \in Buckets(group) : ts.le = Inf /\ ts.samples # <<>>
           one == CHOOSE ts \in group : TRUE
           series == build_series(one, <<base, "">>, "histogram")
           gauge(ts) == WithBound(build_series(ts, <<ts.base, ts.suffix>>, "gauge"), ts.le)
<1>1. ASSUME NEW ts PROVE gauge(ts).type = "gauge"
  BY DEF WithBound, build_series
<1>2. CASE ~has_inf /\ BucketTimes(group) # {}
  <2>1. convert_histogram_group(base, group).points
          = UNION {Gauges(gauge(ts), ts) : ts \in Buckets(group)}
    BY <1>2 DEF convert_histogram_group
  <2> HIDE DEF gauge
  <2>2. PICK ts \in Buckets(group) : pt \in Gauges(gauge(ts), ts)
    BY <2>1
  <2>3. pt.series = gauge(ts)
    BY <2>2 DEF Gauges
  <2>4. QED
    BY <1>1, <2>3
<1>3. CASE ~(~has_inf /\ BucketTimes(group) # {})
  <2>1. convert_histogram_group(base, group).points
          = {HistogramPoint(series, group, t) : t \in BucketTimes(group)}
    BY <1>3 DEF convert_histogram_group
  <2> HIDE DEF series
  <2>2. PICK t \in BucketTimes(group) : pt = HistogramPoint(series, group, t)
    BY <2>1
  <2>3. QED
    BY <2>2 DEF series, IsPointAt
<1>4. QED
  BY <1>2, <1>3

(* The time series of the histogram that one belongs to.                   *)
GroupIn(data, one) ==
    {ts \in data : ts.suffix \in HistogramSuffixes /\ GroupKey(ts) = GroupKey(one)}

(* The groups of a request: the time series of its histograms with the     *)
(* same labels.                                                            *)
LEMMA PointsOfRequest ==
    ASSUME NEW data, NEW pt \in write_request_to_metrics(data).points, pt.series.type = "histogram"
    PROVE  \E one \in data, t \in BucketTimes(data) :
             IsPointAt(pt, one, one.base, GroupIn(data, one), t)
<1> DEFINE simple == {ts \in data : ts.suffix \in {"", "_total"} /\ ts.base # ""}
           histogram == {ts \in data : ts.suffix \in HistogramSuffixes}
           groups == {{ts \in histogram : GroupKey(ts) = k} : k \in {GroupKey(ts) : ts \in histogram}}
           pieces == {convert_simple(ts) : ts \in simple}
                    \union {convert_histogram_group((CHOOSE ts \in g : TRUE).base, g) : g \in groups}
<1>1. write_request_to_metrics(data).points = UNION {p.points : p \in pieces}
  BY DEF write_request_to_metrics
<1> HIDE DEF pieces, groups
<1>2. PICK p \in pieces : pt \in p.points
  BY <1>1
<1>3. ASSUME NEW ts \in simple, p = convert_simple(ts) PROVE FALSE
  BY <1>2, <1>3, SimplePoints
<1>4. PICK group \in groups : p = convert_histogram_group((CHOOSE ts \in group : TRUE).base, group)
  BY <1>2, <1>3 DEF pieces
<1>5. PICK two \in histogram : group = {ts \in histogram : GroupKey(ts) = GroupKey(two)}
  BY DEF groups
<1>6. PICK one : one = CHOOSE ts \in group : TRUE
  OBVIOUS
<1>7. one \in group
  BY <1>5, <1>6
<1>8. one \in data /\ GroupKey(one) = GroupKey(two) /\ group \in SUBSET data
  BY <1>5, <1>7
<1>9. group = GroupIn(data, one)
  BY <1>5, <1>8 DEF GroupIn
<1>10. PICK base : base = one.base
  OBVIOUS
<1>11. pt \in convert_histogram_group(base, group).points
  BY <1>2, <1>4, <1>6, <1>10
<1>12. PICK t \in BucketTimes(group) : IsPointAt(pt, one, base, group, t)
  BY <1>6, <1>11, GroupPoints
<1>13. t \in BucketTimes(data)
  BY <1>8 DEF BucketTimes, Buckets
<1>14. QED
  BY <1>8, <1>9, <1>10, <1>12, <1>13

(* Every histogram point that a request stores counts once what its        *)
(* buckets say.                                                            *)
LEMMA RequestCountsOnce ==
    ASSUME NEW data, AreTimeSeries(data), Inf \in Int,
           NEW pt \in write_request_to_metrics(data).points, pt.series.type = "histogram"
    PROVE  IsHistogramOf(pt, data)
<1>1. PICK one \in data, t \in BucketTimes(data) :
        IsPointAt(pt, one, one.base, GroupIn(data, one), t)
  BY PointsOfRequest
<1>2. PICK series : series = build_series(one, <<one.base, "">>, "histogram")
  OBVIOUS
<1>3. PICK group : group = GroupIn(data, one)
  OBVIOUS
<1>4. PICK at : at = BucketsAt(group, t)
  OBVIOUS
<1>5. at = {ts \in data : /\ ts.suffix = "_bucket"
                          /\ GroupKey(ts) = GroupKey(one)
                          /\ t \in DOMAIN ts.samples}
  BY <1>3, <1>4 DEF BucketsAt, Buckets, HistogramSuffixes, GroupIn
<1>6. AreBuckets(at, t)
  <2>1. IsFiniteSet(at)
    BY <1>5, FS_Subset DEF AreTimeSeries
  <2>2. \A ts \in at : ts.le \in Int /\ ts.le <= Inf /\ ts.samples[t] \in Nat
    BY <1>5 DEF AreTimeSeries
  <2>3. QED
    BY <2>1, <2>2 DEF AreBuckets
<1>7. pt = HistogramPoint(series, group, t)
  BY <1>1, <1>2, <1>3 DEF IsPointAt
<1>8. pt.series = series /\ pt.time = t /\ CountsOnce(pt, at)
  BY <1>4, <1>6, <1>7, HistogramCountsOnce
<1>9. QED
  BY <1>2, <1>5, <1>8 DEF IsHistogramOf

(* What reaches the topic could be decoded, so that its histograms add up. *)
LEMMA StoredHistograms == IgInv => HistogramsAddUp
<1> SUFFICES ASSUME IgInv, NEW r \in queued,
                    NEW x, x = Exports[requests[r].export], x.signal = "prometheus",
                    NEW pt \in Converted(requests[r]).points, pt.series.type = "histogram"
             PROVE  IsHistogramOf(pt, x.data)
  BY DEF HistogramsAddUp
<1>1. requests[r] \in RequestRow /\ ~x.malformed
  BY DEF IgInv, IgTypeOK, InOrder
<1>2. AreTimeSeries(x.data) /\ Inf \in Int
  BY <1>1, IngestAssumption DEF RequestRow
<1>3. Converted(requests[r]) = write_request_to_metrics(x.data)
  BY DEF Converted
<1>4. QED
  BY <1>2, <1>3, RequestCountsOnce

(* What is stored of an export does not depend on the way it came in, and  *)
(* no observation of a histogram is counted twice or lost.                 *)
THEOREM ConversionsAlwaysAgree == IgSpec => []ConversionsAgree
<1>1. IgInv => ConversionsAgree
  BY EncodingsAgree, StoredHistograms DEF ConversionsAgree
<1>2. QED
  BY <1>1, ExportsInvariant, PTL


-----------------------------------------------------------------------------
(* A rule that the API accepts is stored with the fields that its type is  *)
(* read with, but for a deadman rule.                                      *)
LEMMA AcceptedIsReadable ==
    ASSUME NEW org \in Orgs, NEW req \in RuleRequests, ValidRule(req)
    PROVE  LET r == Rule(org, req.type, StoredCondition(req), req.service)
           IN r \in StoredRules /\ Readable(r) /\ r.type # "slo_burn_rate"
<1>1. StoredCondition(req) \in StoredConditions /\ req.service \in RuleServices
  BY RulesAssumption DEF RuleServices
<1>2. req.type \in Listable
  BY DEF ValidRule, Listable
<1> DEFINE r == Rule(org, req.type, StoredCondition(req), req.service)
<1>3. /\ r \in StoredRules
      /\ r.type = req.type /\ r.cond = StoredCondition(req)
  BY <1>1, <1>2 DEF Rule, StoredRules, RuleTypes
<1>4. CASE req.type = "threshold"
  <2>1. DOMAIN StoredCondition(req) = {"metric_name", "operator", "threshold"}
    BY <1>4 DEF StoredCondition
  <2>2. QED
    BY <1>3, <1>4, <2>1 DEF Readable, Parses, Has
<1>5. CASE req.type = "deadman"
  BY <1>3, <1>5 DEF Readable
<1>6. CASE req.type = "change_detection"
  <2>1. DOMAIN StoredCondition(req)
          = {"metric_name", "window_secs", "baseline_offset_secs", "threshold_percent"}
    BY <1>6 DEF StoredCondition
  <2>2. QED
    BY <1>3, <1>6, <2>1 DEF Readable, Parses, Has
<1>7. QED
  BY <1>2, <1>4, <1>5, <1>6 DEF Listable

(* The first state: seeded rules and no SLO.                               *)
LEMMA RulesStart == ArInit => RulesInv
<1> SUFFICES ASSUME ArInit PROVE RulesInv
  OBVIOUS
<1>1. clock \in Nat /\ IsFiniteSet(samples) /\ slos \in Seq(StoredSlos)
  BY FS_EmptySet DEF ArInit
<1>2. /\ rules \in Seq(StoredRules)
      /\ \A i \in DOMAIN rules : rules[i].type # "slo_burn_rate" /\ Readable(rules[i])
  BY RulesAssumption DEF ArInit
<1>3. QED
  BY <1>1, <1>2 DEF RulesInv

(* A rule of another kind joins the table.                                 *)
LEMMA CreateRuleKeeps ==
    ASSUME RulesInv, NEW org \in Orgs, NEW req \in RuleRequests, handle_create_rule(org, req)
    PROVE  RulesInv'
<1> DEFINE r == Rule(org, req.type, StoredCondition(req), req.service)
<1>1. r \in StoredRules /\ Readable(r) /\ r.type # "slo_burn_rate"
  BY AcceptedIsReadable DEF handle_create_rule
<1>2. rules' = Append(rules, r) /\ UNCHANGED <<clock, samples, slos>>
  BY DEF handle_create_rule
<1> HIDE DEF r
<1>3. rules \in Seq(StoredRules)
  BY DEF RulesInv
<1>4. /\ rules' \in Seq(StoredRules)
      /\ \A i \in DOMAIN rules' : (i \in DOMAIN rules /\ rules'[i] = rules[i]) \/ rules'[i] = r
  BY <1>1, <1>2, <1>3
<1>5. \A i \in DOMAIN rules' :
        /\ Readable(rules'[i])
        /\ rules'[i].type = "slo_burn_rate" => i \in DOMAIN rules /\ rules'[i] = rules[i]
  BY <1>1, <1>4 DEF RulesInv
<1>6. QED
  BY <1>2, <1>4, <1>5 DEF RulesInv, Readable

(* An SLO comes with its rule, whose number no other rule has.             *)
LEMMA CreateSloKeeps ==
    ASSUME RulesInv, NEW org \in Orgs, NEW req \in SloRequests, create_slo(org, req)
    PROVE  RulesInv'
<1> DEFINE c == [slo_id |-> Len(slos) + 1, fast_window |-> 1, slow_window |-> 2]
           r == Rule(org, "slo_burn_rate", c, "")
           o == [org |-> org, service |-> req.service, environment |-> req.environment,
                 target |-> req.target, fast |-> req.fast, slow |-> req.slow]
<1>1. rules \in Seq(StoredRules) /\ slos \in Seq(StoredSlos)
  BY DEF RulesInv
<1>2. c \in SloConditions /\ c.slo_id = Len(slos) + 1
      /\ DOMAIN c = {"slo_id", "fast_window", "slow_window"}
  BY <1>1 DEF SloConditions
<1>3. r \in StoredRules /\ r.type = "slo_burn_rate" /\ r.cond = c /\ Readable(r)
  <2>1. c \in StoredConditions
    BY <1>2 DEF StoredConditions
  <2> HIDE DEF c
  <2>2. r \in StoredRules /\ r.type = "slo_burn_rate" /\ r.cond = c
    BY <2>1 DEF Rule, StoredRules, RuleTypes, RuleServices
  <2>3. QED
    BY <1>2, <2>2 DEF Readable, Parses, Has
<1>4. o \in StoredSlos
  <2>1. validate_create_slo(req)
    BY DEF create_slo
  <2>2. /\ req.service \in STRING /\ req.environment \in STRING
        /\ req.target \in Int /\ req.fast \in Int /\ req.slow \in Int
    BY RulesAssumption
  <2>3. req.target \in 1 .. (Scale - 1) /\ req.fast \in Nat \ {0} /\ req.slow \in Nat \ {0}
    <3>1. 0 < req.target /\ req.target < Scale /\ req.fast > 0 /\ req.slow > 0
      BY <2>1 DEF validate_create_slo
    <3>2. Scale = 10
      BY DEF Scale
    <3>3. req.target \in 1 .. (Scale - 1)
      BY <2>2, <3>1, <3>2
    <3>4. req.fast \in Nat \ {0} /\ req.slow \in Nat \ {0}
      BY <2>2, <3>1
    <3>5. QED
      BY <3>3, <3>4
  <2>4. QED
    BY <2>2, <2>3 DEF StoredSlos
<1>5. rules' = Append(rules, r) /\ slos' = Append(slos, o) /\ UNCHANGED <<clock, samples>>
  BY DEF create_slo
<1> HIDE DEF c, r, o
<1>6. /\ rules' \in Seq(StoredRules) /\ slos' \in Seq(StoredSlos)
      /\ DOMAIN slos' = DOMAIN slos \union {Len(slos) + 1} /\ Len(slos) + 1 \notin DOMAIN slos
      /\ \A i \in DOMAIN rules' : \/ i \in DOMAIN rules /\ rules'[i] = rules[i]
                                  \/ i = Len(rules) + 1 /\ rules'[i] = r
  BY <1>1, <1>3, <1>4, <1>5
<1>7. \A i \in DOMAIN rules' :
        /\ Readable(rules'[i])
        /\ rules'[i].type = "slo_burn_rate" =>
              rules'[i].cond \in SloConditions /\ rules'[i].cond.slo_id \in DOMAIN slos'
  BY <1>2, <1>3, <1>6 DEF RulesInv
<1>8. \A i, j \in DOMAIN rules' :
        rules'[i].type = "slo_burn_rate" /\ rules'[j].type = "slo_burn_rate"
           /\ rules'[i].cond.slo_id = rules'[j].cond.slo_id => i = j
  <2>1. \A i \in DOMAIN rules : rules[i].type = "slo_burn_rate" => rules[i].cond.slo_id # Len(slos) + 1
    BY <1>6 DEF RulesInv
  <2>2. QED
    BY <1>2, <1>3, <1>6, <2>1 DEF RulesInv
<1>9. QED
  BY <1>5, <1>6, <1>7, <1>8 DEF RulesInv, Readable

(* A rule that is silenced, changed or evaluated stays what it is.         *)
LEMMA ChangedRuleKeeps ==
    ASSUME RulesInv, NEW i \in DOMAIN rules, NEW rule \in StoredRules,
           rule.type = rules[i].type, rule.cond = rules[i].cond,
           rules' = [rules EXCEPT ![i] = rule], UNCHANGED <<clock, samples, slos>>
    PROVE  RulesInv'
<1>1. rules \in Seq(StoredRules)
  BY DEF RulesInv
<1>2. rules' \in Seq(StoredRules) /\ DOMAIN rules' = DOMAIN rules
  BY <1>1
<1>3. \A j \in DOMAIN rules : rules'[j].type = rules[j].type /\ rules'[j].cond = rules[j].cond
  BY <1>1
<1>4. \A j \in DOMAIN rules : Readable(rules'[j])
  BY <1>3 DEF RulesInv, Readable, Parses
<1>5. QED
  BY <1>2, <1>3, <1>4 DEF RulesInv, Readable

(* Every step of the rules and their telemetry keeps the invariant.        *)
LEMMA RulesStepKeeps ==
    ASSUME RulesInv, [ArNext]_arVars
    PROVE  RulesInv'
<1>1. ASSUME NEW org \in Orgs, NEW i \in DOMAIN rules, NEW on \in BOOLEAN,
             handle_silence_rule(org, i, on) \/ handle_update_rule(org, i, "")
      PROVE  RulesInv'
  <2>1. rules[i] \in StoredRules
    BY DEF RulesInv
  <2>2. PICK rule \in {[rules[i] EXCEPT !.silenced = on], [rules[i] EXCEPT !.svc = ""]} :
          EditRule(org, i, rule)
    BY <1>1 DEF handle_silence_rule, handle_update_rule
  <2>3. rule \in StoredRules /\ rule.type = rules[i].type /\ rule.cond = rules[i].cond
    BY <2>1, <2>2 DEF StoredRules, RuleServices
  <2>4. QED
    BY <2>2, <2>3, ChangedRuleKeeps DEF EditRule
<1>2. ASSUME NEW i \in DOMAIN rules, EvaluateRule(i) PROVE RulesInv'
  <2>1. rules[i] \in StoredRules
    BY DEF RulesInv
  <2>2. PICK v \in Verdicts(rules[i]) :
          rules' = [rules EXCEPT ![i].state = CASE v = "firing" -> "active"
                                                [] v = "ok" /\ @ = "active" -> "resolved"
                                                [] OTHER -> @]
    BY <1>2 DEF EvaluateRule
  <2> DEFINE st == CASE v = "firing" -> "active"
                     [] v = "ok" /\ rules[i].state = "active" -> "resolved"
                     [] OTHER -> rules[i].state
             rule == [rules[i] EXCEPT !.state = st]
  <2>3. st \in {"ok", "active", "resolved"}
    BY <2>1 DEF StoredRules
  <2>4. rules' = [rules EXCEPT ![i] = rule]
    BY <2>2
  <2> HIDE DEF st
  <2>5. rule \in StoredRules /\ rule.type = rules[i].type /\ rule.cond = rules[i].cond
    BY <2>1, <2>3 DEF StoredRules
  <2>6. QED
    BY <1>2, <2>4, <2>5, ChangedRuleKeeps DEF EvaluateRule
<1>3. ASSUME NEW kind, NEW org, NEW ahead, SampleArrives(kind, org, ahead) PROVE RulesInv'
  <2>1. PICK x : samples' = samples \union {x}
    BY <1>3 DEF SampleArrives
  <2>2. IsFiniteSet(samples')
    BY <2>1, FS_AddElement DEF RulesInv
  <2>3. UNCHANGED <<clock, rules, slos>>
    BY <1>3 DEF SampleArrives
  <2>4. QED
    BY <2>2, <2>3 DEF RulesInv, Readable
<1>4. CASE Tick
  BY <1>4 DEF Tick, RulesInv, Readable
<1>5. CASE UNCHANGED arVars
  BY <1>5 DEF arVars, RulesInv, Readable
<1>6. QED
  BY <1>1, <1>2, <1>3, <1>4, <1>5, CreateRuleKeeps, CreateSloKeeps DEF ArNext

(* Rules and SLOs are stored as their readers need them, an SLO with one   *)
(* rule.                                                                   *)
THEOREM RulesInvariant == ArSpec => []RulesInv
<1>1. RulesInv /\ [ArNext]_arVars => RulesInv'
  BY RulesStepKeeps
<1>2. QED
  BY RulesStart, <1>1, PTL DEF ArSpec

-----------------------------------------------------------------------------
(* A rule that is readable is shown in the list of its tenant.             *)
LEMMA ReadableIsListed == RulesInv => ConditionsAreReadable
<1> SUFFICES ASSUME RulesInv, NEW i \in DOMAIN rules, rules[i].type # "deadman"
             PROVE  /\ Parses(rules[i])
                    /\ rules[i].type \in Listable =>
                         \E item \in list_alert_rules(rules[i].org) : item.id = i
  BY DEF ConditionsAreReadable
<1>1. Parses(rules[i])
  BY DEF RulesInv, Readable
<1>2. ASSUME rules[i].type \in Listable PROVE condition_fields(rules[i].cond)
  BY <1>1, <1>2 DEF Parses, Has, Listable, condition_fields
<1>3. ASSUME rules[i].type \in Listable
      PROVE  \E item \in list_alert_rules(rules[i].org) : item.id = i
  <2> DEFINE shown(j) == [id |-> j, state |-> IF rules[j].silenced THEN "silenced" ELSE rules[j].state,
                          firing |-> rules[j].state = "active" /\ ~rules[j].silenced]
  <2>1. shown(i) \in list_alert_rules(rules[i].org)
    BY <1>2, <1>3 DEF list_alert_rules
  <2>2. shown(i).id = i
    OBVIOUS
  <2> HIDE DEF shown
  <2>3. QED
    BY <2>1, <2>2
<1>4. QED
  BY <1>1, <1>3

(* The views of SLOs and rules that alert-evaluator answers with.          *)
LEMMA ViewsAgree == EndpointsAgree
<1>1. ASSUME NEW org \in Orgs, NEW item \in list_alert_rules(org)
      PROVE  item.firing = get_alert_rule(org, item.id).firing
  BY DEF list_alert_rules, get_alert_rule
<1>2. ASSUME NEW org \in Orgs, NEW env, NEW e \in handle_alerting_enrichment(org, env)
      PROVE  /\ e.breaching = \E s \in handle_alerting_correlation(org, e.service, env) : s.firing
             /\ handle_alerting_correlation(org, e.service, env) \subseteq list_slos(org)
  <2>1. PICK service :
          e = [service |-> service, breaching |-> \E k \in SlosOf(org, service, env) : Burning(k) # {}]
    BY <1>2 DEF handle_alerting_enrichment
  <2>2. e.service = service
        /\ e.breaching = \E k \in SlosOf(org, service, env) : Burning(k) # {}
    BY <2>1
  <2>3. (\E s \in handle_alerting_correlation(org, service, env) : s.firing)
          <=> \E k \in SlosOf(org, service, env) : Burning(k) # {}
    <3> DEFINE shown == handle_alerting_correlation(org, service, env)
               item(k) == [id |-> k, firing |-> Burning(k) # {}]
    <3>1. /\ \A k \in SlosOf(org, service, env) : item(k) \in shown
          /\ \A s \in shown : \E k \in SlosOf(org, service, env) : s = item(k)
      BY DEF handle_alerting_correlation
    <3>2. \A k : item(k).firing <=> Burning(k) # {}
      OBVIOUS
    <3> HIDE DEF shown, item
    <3>3. (\E s \in shown : s.firing) <=> \E k \in SlosOf(org, service, env) : Burning(k) # {}
      BY <3>1, <3>2
    <3>4. QED
      BY <3>3 DEF shown
  <2>4. handle_alerting_correlation(org, service, env) \subseteq list_slos(org)
    BY DEF handle_alerting_correlation, list_slos, SlosOf
  <2>5. QED
    BY <2>2, <2>3, <2>4
<1>3. QED
  BY <1>1, <1>2 DEF EndpointsAgree

(* The firing alerts that the catalog counts for a service are those of    *)
(* its firing SLOs, one of each.                                           *)
LEMMA AlertsAreSlos ==
    ASSUME RulesInv, NEW org, NEW service, NEW env
    PROVE  LET shown  == handle_alerting_correlation(org, service, env)
               alerts == UNION {Burning(k) : k \in SlosOf(org, service, env)}
           IN /\ IsFiniteSet(shown) /\ IsFiniteSet(alerts)
              /\ alerts = {} <=> {s \in shown : s.firing} = {}
              /\ Cardinality(alerts) <= Cardinality(shown)
<1> DEFINE K == SlosOf(org, service, env)
           shown == handle_alerting_correlation(org, service, env)
           alerts == UNION {Burning(k) : k \in K}
           g == [k \in K |-> [id |-> k, firing |-> Burning(k) # {}]]
           f == [i \in alerts |-> g[rules[i].cond.slo_id]]
<1>1. /\ DOMAIN slos = 1 .. Len(slos) /\ Len(slos) \in Nat
      /\ DOMAIN rules = 1 .. Len(rules) /\ Len(rules) \in Nat
  BY DEF RulesInv
<1>2. IsFiniteSet(K)
  <2>1. K \subseteq 1 .. Len(slos)
    BY <1>1 DEF SlosOf
  <2> HIDE DEF K
  <2>2. IsFiniteSet(1 .. Len(slos))
    BY <1>1, FS_Interval
  <2>3. QED
    BY <2>1, <2>2, FS_Subset
<1>3. g \in Surjection(K, shown)
  BY DEF Surjection, handle_alerting_correlation
<1>4. \A k \in K : g[k].id = k /\ g[k] \in shown /\ (g[k].firing <=> Burning(k) # {})
  BY <1>3 DEF Surjection
<1>5. \A s \in shown : \E k \in K : s = g[k]
  BY <1>3 DEF Surjection
<1> HIDE DEF g, shown
<1>6. IsFiniteSet(shown)
  <2> HIDE DEF K
  <2>1. QED
    BY <1>2, <1>3, FS_Surjection
<1>7. IsFiniteSet(alerts)
  <2>1. alerts \subseteq 1 .. Len(rules)
    BY <1>1 DEF Burning
  <2> HIDE DEF alerts
  <2>2. IsFiniteSet(1 .. Len(rules))
    BY <1>1, FS_Interval
  <2>3. QED
    BY <2>1, <2>2, FS_Subset
<1>8. alerts = {} <=> {s \in shown : s.firing} = {}
  <2> HIDE DEF K
  <2>1. alerts = {} <=> \A k \in K : Burning(k) = {}
    OBVIOUS
  <2>2. {s \in shown : s.firing} = {} <=> \A k \in K : ~g[k].firing
    BY <1>4, <1>5
  <2>3. QED
    BY <1>4, <2>1, <2>2
<1>9. \A i \in alerts : /\ rules[i].cond.slo_id \in K /\ i \in DOMAIN rules
                       /\ rules[i].type = "slo_burn_rate"
  BY DEF Burning
<1>10. f \in Injection(alerts, shown)
  <2> HIDE DEF K, alerts
  <2>1. f \in [alerts -> shown]
    BY <1>4, <1>9
  <2>2. ASSUME NEW i \in alerts, NEW j \in alerts, f[i] = f[j] PROVE i = j
    <3>1. rules[i].cond.slo_id = rules[j].cond.slo_id
      BY <1>4, <1>9, <2>2
    <3>2. QED
      BY <1>9, <3>1 DEF RulesInv
  <2>3. QED
    BY <2>1, <2>2 DEF Injection, IsInjective
<1>11. Cardinality(alerts) <= Cardinality(shown)
  <2> HIDE DEF f, alerts
  <2>1. QED
    BY <1>6, <1>10, FS_Injection
<1>12. QED
  BY <1>6, <1>7, <1>8, <1>11 DEF shown

(* What the catalog adds to a service says what the SLOs of it say.        *)
LEMMA EnrichmentAsShown ==
    ASSUME NEW org, NEW service, NEW env
    PROVE  LET enrichment == fetch_service_catalog_enrichment(org, env)
               alerts     == UNION {Burning(k) : k \in SlosOf(org, service, env)}
           IN /\ service \notin DOMAIN enrichment => alerts = {}
              /\ service \in DOMAIN enrichment =>
                   /\ enrichment[service].alerts = Cardinality(alerts)
                   /\ enrichment[service].breaching <=> alerts # {}
<1> DEFINE enrichment == fetch_service_catalog_enrichment(org, env)
           alerting == handle_alerting_enrichment(org, env)
           named == {e.service : e \in alerting}
           K == SlosOf(org, service, env)
           alerts == UNION {Burning(k) : k \in K}
<1>1. /\ DOMAIN enrichment = named \union Deployed
      /\ service \in DOMAIN enrichment =>
           /\ enrichment[service].alerts = Cardinality(alerts)
           /\ enrichment[service].breaching <=> \E e \in alerting : e.service = service /\ e.breaching
  BY DEF fetch_service_catalog_enrichment
<1>2. ASSUME NEW k \in K PROVE \E e \in alerting : e.service = service
  <2> DEFINE entry(s) == [service |-> s, breaching |-> \E j \in SlosOf(org, s, env) : Burning(j) # {}]
  <2>1. /\ k \in DOMAIN slos /\ slos[k].org = org /\ slos[k].service = service
        /\ env \in {Anywhere, slos[k].environment}
    BY <1>2 DEF SlosOf
  <2>2. service \in {slos[j].service : j \in {j \in DOMAIN slos : slos[j].org = org
                                              /\ env \in {Anywhere, slos[j].environment}}}
    BY <2>1
  <2>3. entry(service) \in alerting
    BY <2>2 DEF handle_alerting_enrichment
  <2>4. entry(service).service = service
    OBVIOUS
  <2> HIDE DEF entry
  <2>5. QED
    BY <2>3, <2>4
<1>3. \A e \in alerting : e.service = service => (e.breaching <=> \E k \in K : Burning(k) # {})
  BY DEF handle_alerting_enrichment
<1> HIDE DEF alerting, enrichment, K
<1>4. alerts # {} <=> \E k \in K : Burning(k) # {}
  OBVIOUS
<1>5. QED
  BY <1>1, <1>2, <1>3, <1>4 DEF enrichment, K

-----------------------------------------------------------------------------
(* What the catalog shows of a service: its requests, and of its alerts    *)
(* what its SLOs say.                                                      *)
LEMMA SummaryAsShown ==
    ASSUME NEW org, NEW service, NEW env, NEW from
    PROVE  LET row    == ServiceRow(org, service, env, from)
               errors == Cardinality({s \in row : s.status = "ERROR"})
               said   == Summary(org, service, env, from)
               alerts == UNION {Burning(k) : k \in SlosOf(org, service, env)}
           IN /\ said.requests = Cardinality(row) /\ said.errors = errors
              /\ said.alerts = Cardinality(alerts)
              /\ said.health = "breach" <=> errors * 100 > 5 * Cardinality(row) \/ alerts # {}
<1> DEFINE row == ServiceRow(org, service, env, from)
           total == Cardinality(row)
           errors == Cardinality({s \in row : s.status = "ERROR"})
           base == service_summary_from_row(total, errors)
           enrichment == fetch_service_catalog_enrichment(org, env)
           alerts == UNION {Burning(k) : k \in SlosOf(org, service, env)}
           said == Summary(org, service, env, from)
<1>1. said = apply_catalog_enrichment(base, enrichment, service)
  BY DEF Summary
<1>2. /\ service \notin DOMAIN enrichment => alerts = {}
      /\ service \in DOMAIN enrichment =>
           /\ enrichment[service].alerts = Cardinality(alerts)
           /\ enrichment[service].breaching <=> alerts # {}
  BY EnrichmentAsShown
<1> HIDE DEF enrichment, alerts, total, errors, said
<1>3. base = [requests |-> total, errors |-> errors, health |-> health_state(total, errors),
              alerts |-> 0, deployed |-> FALSE]
  BY DEF service_summary_from_row
<1>4. health_state(total, errors) = "breach" <=> errors * 100 > 5 * total
  BY DEF health_state
<1> HIDE DEF base
<1>5. CASE service \notin DOMAIN enrichment
  <2>1. said = base /\ alerts = {} /\ Cardinality(alerts) = 0
    BY <1>1, <1>2, <1>5, FS_EmptySet DEF apply_catalog_enrichment
  <2>2. QED
    BY <1>3, <1>4, <2>1 DEF alerts, total, errors, said
<1>6. CASE service \in DOMAIN enrichment
  <2>1. PICK h, d : h = health_state(total, errors) /\ d = enrichment[service].deployed
    OBVIOUS
  <2>2. said = [base EXCEPT !.alerts = enrichment[service].alerts, !.deployed = d,
                            !.health = IF enrichment[service].breaching THEN "breach" ELSE @]
    BY <1>1, <1>6, <2>1 DEF apply_catalog_enrichment
  <2>3. said = [requests |-> total, errors |-> errors,
                health |-> IF enrichment[service].breaching THEN "breach" ELSE h,
                alerts |-> enrichment[service].alerts, deployed |-> d]
    BY <1>3, <2>1, <2>2
  <2>4. QED
    BY <1>2, <1>4, <1>6, <2>1, <2>3 DEF alerts, total, errors, said
<1>7. QED
  BY <1>5, <1>6

(* What is listed can be opened, and is named among the services.          *)
LEMMA ListedOpens ==
    ASSUME NEW org, NEW env, NEW from, NEW item \in list_service_summaries(org, env, from)
    PROVE  /\ item.summary = Summary(org, item.service, env, from)
           /\ get_service_summary(org, item.service, env, from) = {item}
           /\ item.service \in list_services(org) \union {""}
<1>1. PICK t \in StoredSpans(org, env) :
        t.at >= from /\ item = [service |-> t.service, summary |-> Summary(org, t.service, env, from)]
  BY DEF list_service_summaries
<1> DEFINE m == Summary(org, t.service, env, from)
<1>2. item.service = t.service /\ item.summary = m /\ item = [service |-> t.service, summary |-> m]
  BY <1>1
<1>3. t \in ServiceRow(org, t.service, env, from)
  BY <1>1 DEF ServiceRow
<1>4. t.service \in list_services(org) \union {""}
  BY DEF StoredSpans, list_services
<1> HIDE DEF m
<1>5. get_service_summary(org, t.service, env, from) = {item}
  BY <1>2, <1>3 DEF get_service_summary, m
<1>6. QED
  BY <1>2, <1>4, <1>5 DEF m

(* The requests of a service are those of its environments and those of    *)
(* none.                                                                   *)
LEMMA EnvironmentsMakeUp ==
    ASSUME NEW org, NEW service, NEW from
    PROVE  ServiceRow(org, service, Anywhere, from)
             = UNION {ServiceRow(org, service, e, from) : e \in list_environments(org) \union {""}}
<1>1. ASSUME NEW s \in ServiceRow(org, service, Anywhere, from)
      PROVE  /\ s.environment \in list_environments(org) \union {""}
             /\ s \in ServiceRow(org, service, s.environment, from)
  BY DEF ServiceRow, StoredSpans, list_environments
<1>2. ASSUME NEW e, NEW s \in ServiceRow(org, service, e, from)
      PROVE  s \in ServiceRow(org, service, Anywhere, from)
  BY DEF ServiceRow, StoredSpans
<1>3. QED
  BY <1>1, <1>2

(* The catalog, the page of a service and its report agree.                *)
LEMMA CatalogIsConsistent == RulesInv => CatalogAgrees
<1> SUFFICES ASSUME RulesInv, NEW org \in Orgs, NEW from, NEW env,
                    NEW item \in list_service_summaries(org, env, from)
             PROVE  ListedAgrees(org, from, env, item)
  BY DEF CatalogAgrees
<1> DEFINE service == item.service
           said == item.summary
           row == ServiceRow(org, service, env, from)
           errors == Cardinality({s \in row : s.status = "ERROR"})
           shown == handle_alerting_correlation(org, service, env)
           alerts == UNION {Burning(k) : k \in SlosOf(org, service, env)}
           report == get_service_reliability_report(org, service, env)
<1>1. /\ said = Summary(org, service, env, from)
      /\ get_service_summary(org, service, env, from) = {item}
      /\ service \in list_services(org) \union {""}
  BY ListedOpens
<1>2. /\ said.requests = Cardinality(row) /\ said.errors = errors
      /\ said.alerts = Cardinality(alerts)
      /\ said.health = "breach" <=> errors * 100 > 5 * Cardinality(row) \/ alerts # {}
  <2> DEFINE m == Summary(org, service, env, from)
  <2>1. /\ m.requests = Cardinality(row) /\ m.errors = errors
        /\ m.alerts = Cardinality(alerts)
        /\ m.health = "breach" <=> errors * 100 > 5 * Cardinality(row) \/ alerts # {}
    BY SummaryAsShown
  <2>2. said = m
    BY <1>1
  <2> HIDE DEF m, said, row, errors, alerts
  <2>3. QED
    BY <2>1, <2>2
<1>3. /\ IsFiniteSet(shown) /\ IsFiniteSet(alerts)
      /\ alerts = {} <=> {s \in shown : s.firing} = {}
      /\ Cardinality(alerts) <= Cardinality(shown)
  BY AlertsAreSlos
<1>4. /\ report.total = Cardinality(shown)
      /\ report.firing = Cardinality({s \in shown : s.firing})
  BY DEF get_service_reliability_report, compute_slo_summary
<1>5. env = Anywhere =>
        said.requests = Cardinality(UNION {ServiceRow(org, service, e, from) :
                                             e \in list_environments(org) \union {""}})
  <2>1. ServiceRow(org, service, Anywhere, from)
          = UNION {ServiceRow(org, service, e, from) : e \in list_environments(org) \union {""}}
    BY EnvironmentsMakeUp
  <2>2. env = Anywhere => row = ServiceRow(org, service, Anywhere, from)
    OBVIOUS
  <2> HIDE DEF row
  <2>3. QED
    BY <1>2, <2>1, <2>2
<1> HIDE DEF shown, alerts, report, row, errors, said, service
<1>6. IsFiniteSet({s \in shown : s.firing})
  BY <1>3, FS_Subset
<1>7. /\ report.firing > 0 <=> alerts # {}
      /\ said.alerts > 0 <=> alerts # {}
  <2>1. /\ Cardinality(alerts) \in Nat /\ Cardinality({s \in shown : s.firing}) \in Nat
        /\ Cardinality(alerts) = 0 <=> alerts = {}
        /\ Cardinality({s \in shown : s.firing}) = 0 <=> {s \in shown : s.firing} = {}
    BY <1>3, <1>6, FS_CardinalityType, FS_EmptySet
  <2>2. QED
    BY <1>2, <1>3, <1>4, <2>1
<1>8. QED
  BY <1>1, <1>2, <1>3, <1>4, <1>5, <1>7 DEF ListedAgrees, said, service, report

(* A stored condition is one that the evaluator and the list can read, the *)
(* endpoints say the same of an SLO, and the catalog, the page of a        *)
(* service and its report agree.                                           *)
THEOREM CatalogAndRulesAgree == ArSpec => []RulesAndCatalogAgree
<1>1. RulesInv => RulesAndCatalogAgree
  BY ReadableIsListed, ViewsAgree, CatalogIsConsistent DEF RulesAndCatalogAgree, RulesAreConsistent
<1>2. QED
  BY RulesInvariant, <1>1, PTL

-----------------------------------------------------------------------------
(* What a tenant's rule reads is not changed by another tenant's sample.   *)
LEMMA ForeignSample ==
    ASSUME NEW s, samples' = samples \union {s}, UNCHANGED <<clock, slos>>,
           NEW rule, s.org # rule.org
    PROVE  Verdicts(rule)' = Verdicts(rule)
<1>1. \A m : Points(rule.org, m)' = Points(rule.org, m)
  BY DEF Points
<1>2. eval_threshold_rules(rule)' = eval_threshold_rules(rule)
  <2>1. PICK pts : pts = Points(rule.org, rule.cond.metric_name)
    OBVIOUS
  <2>2. pts = Points(rule.org, rule.cond.metric_name)'
    BY <1>1, <2>1
  <2>3. QED
    BY <2>1, <2>2 DEF eval_threshold_rules
<1>3. \A service, env, window :
         fetch_span_counts(rule.org, service, env, window)'
           = fetch_span_counts(rule.org, service, env, window)
  <2> SUFFICES ASSUME NEW service, NEW env, NEW window
               PROVE  fetch_span_counts(rule.org, service, env, window)'
                        = fetch_span_counts(rule.org, service, env, window)
    OBVIOUS
  <2> DEFINE events == {t \in samples : t.kind = "span" /\ t.org = rule.org /\ t.service = service
                                       /\ t.environment = env /\ t.at >= clock - window}
  <2>1. events' = events
    OBVIOUS
  <2>2. /\ fetch_span_counts(rule.org, service, env, window)
             = [total |-> Cardinality(events), bad |-> Cardinality({t \in events : t.status = "ERROR"})]
        /\ fetch_span_counts(rule.org, service, env, window)'
             = [total |-> Cardinality(events'),
                bad |-> Cardinality({t \in events' : t.status = "ERROR"})]
    BY DEF fetch_span_counts
  <2> HIDE DEF events
  <2>3. QED
    BY <2>1, <2>2
<1>4. eval_slo_burn_rate_rules(rule)' = eval_slo_burn_rate_rules(rule)
  BY <1>3 DEF eval_slo_burn_rate_rules
<1>5. eval_deadman_rules(rule)' = eval_deadman_rules(rule)
  <2> DEFINE said == {t.at : t \in {t \in samples : t.kind = "span" /\ t.org = rule.org
                                                    /\ t.service = rule.cond.service_name}}
  <2>1. said' = said
    OBVIOUS
  <2>2. /\ eval_deadman_rules(rule) = {Fires(\A t \in said : clock - t >= rule.cond.window_secs)}
        /\ eval_deadman_rules(rule)'
             = {Fires(\A t \in said' : clock - t >= rule.cond.window_secs)}
    BY DEF eval_deadman_rules
  <2> HIDE DEF said
  <2>3. QED
    BY <2>1, <2>2
<1>6. \A from, to : WindowPoints(rule, from, to)' = WindowPoints(rule, from, to)
  BY <1>1 DEF WindowPoints
<1>7. eval_change_detection_rules(rule)' = eval_change_detection_rules(rule)
  BY <1>6 DEF eval_change_detection_rules
<1>8. QED
  BY <1>2, <1>4, <1>5, <1>7 DEF Verdicts

(* One more bad event among the events of a window raises the burn rate,   *)
(* one more good event lowers it: no more than all events are bad.         *)
LEMMA BurnRate ==
    ASSUME NEW target \in 1 .. (Scale - 1), NEW threshold \in Nat \ {0},
           NEW total \in Nat, NEW bad \in Nat, bad <= total
    PROVE  /\ BurnReaches([total |-> total, bad |-> bad], target, threshold)
                => BurnReaches([total |-> total + 1, bad |-> bad + 1], target, threshold)
           /\ BurnReaches([total |-> total + 1, bad |-> bad], target, threshold)
                => BurnReaches([total |-> total, bad |-> bad], target, threshold)
<1> DEFINE x == threshold * (10 - target)
<1>1. target \in 1 .. 9
  BY DEF Scale
<1>2. x \in Nat /\ x >= 1
  BY <1>1
<1>3. \A n, b \in Nat : BurnReaches([total |-> n, bad |-> b], target, threshold)
                          <=> b > 0 /\ b * 10 >= n * x
  <2> SUFFICES ASSUME NEW n \in Nat, NEW b \in Nat
               PROVE  BurnReaches([total |-> n, bad |-> b], target, threshold)
                        <=> b > 0 /\ b * 10 >= n * x
    OBVIOUS
  <2>1. threshold * n * (10 - target) = n * x
    BY <1>1
  <2>2. QED
    BY <2>1 DEF BurnReaches, Scale
<1> HIDE DEF x
<1>4. (total + 1) * x = total * x + x
  BY <1>2
<1>5. ASSUME bad > 0, bad * 10 >= total * x PROVE x <= 10
  <2>1. SUFFICES ASSUME x >= 11 PROVE FALSE
    BY <1>2
  <2>2. total * x >= total * 11
    BY <1>2, <2>1
  <2>3. QED
    BY <1>2, <1>5, <2>2
<1>6. (bad + 1) * 10 = bad * 10 + 10 /\ total * x \in Nat
  BY <1>2
<1>7. QED
  BY <1>2, <1>3, <1>4, <1>5, <1>6

(* The events of a window with one more sample.                            *)
LEMMA CountsWithSample ==
    ASSUME IsFiniteSet(samples), NEW s, s \notin samples, samples' = samples \union {s},
           UNCHANGED clock, NEW org, NEW service, NEW env, NEW window
    PROVE  LET old == fetch_span_counts(org, service, env, window)
               new == fetch_span_counts(org, service, env, window)'
           IN \E total, bad \in Nat :
                /\ bad <= total /\ old = [total |-> total, bad |-> bad]
                /\ \/ new = old
                   \/ s.status = "ERROR" /\ new = [total |-> total + 1, bad |-> bad + 1]
                   \/ s.status # "ERROR" /\ new = [total |-> total + 1, bad |-> bad]
<1> DEFINE events == {t \in samples : t.kind = "span" /\ t.org = org /\ t.service = service
                                     /\ t.environment = env /\ t.at >= clock - window}
           bads == {t \in events : t.status = "ERROR"}
           counted == s.kind = "span" /\ s.org = org /\ s.service = service
                        /\ s.environment = env /\ s.at >= clock - window
<1>1. /\ fetch_span_counts(org, service, env, window)
           = [total |-> Cardinality(events), bad |-> Cardinality(bads)]
      /\ fetch_span_counts(org, service, env, window)'
           = [total |-> Cardinality(events'), bad |-> Cardinality(bads')]
  BY DEF fetch_span_counts
<1>2. /\ counted => events' = events \union {s}
      /\ ~counted => events' = events
  OBVIOUS
<1>3. s \notin events /\ events \subseteq samples
  OBVIOUS
<1> HIDE DEF events, counted
<1>4. /\ IsFiniteSet(events) /\ IsFiniteSet(bads)
      /\ Cardinality(events) \in Nat /\ Cardinality(bads) \in Nat
      /\ Cardinality(bads) <= Cardinality(events)
  BY <1>3, FS_Subset, FS_CardinalityType
<1>5. bads' = {t \in events' : t.status = "ERROR"}
  OBVIOUS
<1>6. CASE ~counted
  <2>1. events' = events /\ bads' = bads
    BY <1>2, <1>5, <1>6
  <2> HIDE DEF bads
  <2>2. QED
    BY <1>1, <1>4, <2>1
<1>7. CASE counted /\ s.status = "ERROR"
  <2>1. events' = events \union {s} /\ bads' = bads \union {s} /\ s \notin bads
    BY <1>2, <1>3, <1>5, <1>7
  <2> HIDE DEF bads
  <2>2. Cardinality(events') = Cardinality(events) + 1 /\ Cardinality(bads') = Cardinality(bads) + 1
    BY <1>3, <1>4, <2>1, FS_AddElement
  <2>3. QED
    BY <1>1, <1>4, <1>7, <2>2
<1>8. CASE counted /\ s.status # "ERROR"
  <2>1. events' = events \union {s} /\ bads' = bads
    BY <1>2, <1>3, <1>5, <1>8
  <2> HIDE DEF bads
  <2>2. Cardinality(events') = Cardinality(events) + 1 /\ Cardinality(bads') = Cardinality(bads)
    BY <1>3, <1>4, <2>1, FS_AddElement
  <2>3. QED
    BY <1>1, <1>4, <1>8, <2>2
<1>9. QED
  BY <1>6, <1>7, <1>8

(* A bad span keeps a burn rate above its threshold, a good one below.     *)
LEMMA BurnFollows ==
    ASSUME IsFiniteSet(samples), NEW s, s \notin samples, samples' = samples \union {s},
           UNCHANGED clock, NEW org, NEW service, NEW env, NEW window,
           NEW target \in 1 .. (Scale - 1), NEW threshold \in Nat \ {0}
    PROVE  LET old == BurnReaches(fetch_span_counts(org, service, env, window), target, threshold)
               new == BurnReaches(fetch_span_counts(org, service, env, window)', target, threshold)
           IN IF s.status = "ERROR" THEN old => new ELSE new => old
<1> DEFINE old == fetch_span_counts(org, service, env, window)
           new == fetch_span_counts(org, service, env, window)'
<1>1. \E total, bad \in Nat :
         /\ bad <= total /\ old = [total |-> total, bad |-> bad]
         /\ \/ new = old
            \/ s.status = "ERROR" /\ new = [total |-> total + 1, bad |-> bad + 1]
            \/ s.status # "ERROR" /\ new = [total |-> total + 1, bad |-> bad]
  BY CountsWithSample
<1> HIDE DEF old, new
<1>2. PICK total \in Nat, bad \in Nat :
         /\ bad <= total /\ old = [total |-> total, bad |-> bad]
         /\ \/ new = old
            \/ s.status = "ERROR" /\ new = [total |-> total + 1, bad |-> bad + 1]
            \/ s.status # "ERROR" /\ new = [total |-> total + 1, bad |-> bad]
  BY <1>1
<1>3. IF s.status = "ERROR" THEN BurnReaches(old, target, threshold) => BurnReaches(new, target, threshold)
      ELSE BurnReaches(new, target, threshold) => BurnReaches(old, target, threshold)
  <2>1. /\ BurnReaches([total |-> total, bad |-> bad], target, threshold)
             => BurnReaches([total |-> total + 1, bad |-> bad + 1], target, threshold)
        /\ BurnReaches([total |-> total + 1, bad |-> bad], target, threshold)
             => BurnReaches([total |-> total, bad |-> bad], target, threshold)
    BY <1>2, BurnRate
  <2>2. CASE new = old
    BY <2>2
  <2>3. CASE s.status = "ERROR" /\ new = [total |-> total + 1, bad |-> bad + 1]
    BY <1>2, <2>1, <2>3
  <2>4. CASE s.status # "ERROR" /\ new = [total |-> total + 1, bad |-> bad]
    BY <1>2, <2>1, <2>4
  <2>5. QED
    BY <1>2, <2>2, <2>3, <2>4
<1>4. QED
  BY <1>3 DEF old, new

(* The verdict on a burn rate rule with one more span.                     *)
LEMMA BurnVerdict ==
    ASSUME RulesInv, NEW s, s \notin samples, samples' = samples \union {s},
           UNCHANGED <<clock, slos>>,
           NEW rule \in {rules[i] : i \in DOMAIN rules}, rule.type = "slo_burn_rate"
    PROVE  IF s.status = "ERROR" THEN "firing" \in Verdicts(rule) => "firing" \in Verdicts(rule)'
           ELSE "firing" \in Verdicts(rule)' => "firing" \in Verdicts(rule)
<1> DEFINE slo == slos[rule.cond.slo_id]
           Reached(window, threshold) ==
             BurnReaches(fetch_span_counts(slo.org, slo.service, slo.environment, window),
                         slo.target, threshold)
           fast == Reached(rule.cond.fast_window, slo.fast)
           slow == Reached(rule.cond.slow_window, slo.slow)
<1>1. Parses(rule) /\ rule.cond.slo_id \in DOMAIN slos
  BY DEF RulesInv, Readable
<1>2. slo.target \in 1 .. (Scale - 1) /\ slo.fast \in Nat \ {0} /\ slo.slow \in Nat \ {0}
  <2>1. slo \in StoredSlos
    BY <1>1 DEF RulesInv
  <2>2. QED
    BY <2>1 DEF StoredSlos
<1>3. CASE slo.org # rule.org
  <2>1. "firing" \notin Verdicts(rule) /\ "firing" \notin Verdicts(rule)'
    BY <1>1, <1>3 DEF Verdicts, eval_slo_burn_rate_rules, Parses
  <2>2. QED
    BY <2>1
<1>4. CASE slo.org = rule.org
  <2>1. /\ "firing" \in Verdicts(rule) <=> fast /\ slow
        /\ "firing" \in Verdicts(rule)' <=> fast' /\ slow'
    BY <1>1, <1>4 DEF Verdicts, eval_slo_burn_rate_rules, Fires, Parses
  <2>2. /\ IF s.status = "ERROR" THEN fast => fast' ELSE fast' => fast
        /\ IF s.status = "ERROR" THEN slow => slow' ELSE slow' => slow
    BY <1>2, BurnFollows DEF RulesInv
  <2>3. QED
    BY <2>1, <2>2
<1>5. QED
  BY <1>3, <1>4

(* A sample arrives alone, and nothing else moves.                         *)
LEMMA SamplesArriveAlone ==
    ASSUME [ArNext]_arVars, NEW s \in samples' \ samples
    PROVE  samples' = samples \union {s} /\ UNCHANGED <<clock, rules, slos>>
<1>1. \/ samples' = samples
      \/ \E kind \in SampleKinds, org \in Orgs, ahead \in {0, 1} : SampleArrives(kind, org, ahead)
  BY DEF ArNext, arVars, handle_create_rule, create_slo, handle_silence_rule, handle_update_rule,
         EditRule, EvaluateRule, Tick
<1>2. QED
  BY <1>1 DEF SampleArrives

(* Verdicts follow the telemetry of the rule's own tenant, the right way.  *)
THEOREM VerdictsAreSound == ArSpec => VerdictsFollowTelemetry
<1>1. ASSUME RulesInv, [ArNext]_arVars,
             NEW s \in samples' \ samples, NEW rule \in {rules[i] : i \in DOMAIN rules}
      PROVE  /\ s.org # rule.org => Verdicts(rule)' = Verdicts(rule)
             /\ rule.type = "slo_burn_rate" /\ s.kind = "span" =>
                  IF s.status = "ERROR"
                  THEN "firing" \in Verdicts(rule) => "firing" \in Verdicts(rule)'
                  ELSE "firing" \in Verdicts(rule)' => "firing" \in Verdicts(rule)
  BY <1>1, SamplesArriveAlone, ForeignSample, BurnVerdict
<1>2. RulesInv /\ [ArNext]_arVars =>
        [\A s \in samples' \ samples : \A rule \in {rules[i] : i \in DOMAIN rules} :
           /\ s.org # rule.org => Verdicts(rule)' = Verdicts(rule)
           /\ rule.type = "slo_burn_rate" /\ s.kind = "span" =>
                IF s.status = "ERROR"
                THEN "firing" \in Verdicts(rule) => "firing" \in Verdicts(rule)'
                ELSE "firing" \in Verdicts(rule)' => "firing" \in Verdicts(rule)]_arVars
  BY <1>1
<1>3. QED
  BY <1>2, RulesInvariant, PTL DEF ArSpec, VerdictsFollowTelemetry

-----------------------------------------------------------------------------
(***************************************************************************)
(* Pages of rows in time order.                                            *)
(***************************************************************************)
Timed(rows) == \A r \in rows : r.ts \in Int

(* An order of rows has each of them once.                                 *)
LEMMA OrderOfRows ==
    ASSUME NEW rows, IsFiniteSet(rows), NEW s \in Orders(rows)
    PROVE  /\ s \in Seq(rows) /\ Len(s) \in Nat /\ DOMAIN s = 1 .. Len(s)
           /\ \A r \in rows : \E i \in DOMAIN s : s[i] = r
           /\ SortedByTime(s) /\ IsInjective(s)
<1> DEFINE n == Cardinality(rows)
<1>1. n \in Nat
  BY FS_CardinalityType
<1>2. s \in [1 .. n -> rows] /\ Range(s) = rows /\ SortedByTime(s)
  BY DEF Orders
<1>3. IsFiniteSet(1 .. n) /\ Cardinality(1 .. n) = n
  BY <1>1, FS_Interval
<1>4. \A r \in rows : \E i \in 1 .. n : s[i] = r
  BY <1>2 DEF Range
<1>5. s \in Surjection(1 .. n, rows)
  BY <1>2, <1>4 DEF Surjection
<1> HIDE DEF n
<1>6. s \in Injection(1 .. n, rows)
  BY <1>3, <1>5, FS_Surjection DEF n
<1>7. s \in Seq(rows) /\ Len(s) = n /\ DOMAIN s = 1 .. n
  BY <1>1, <1>2
<1>8. IsInjective(s)
  BY <1>6, <1>7 DEF Injection, IsInjective
<1>9. QED
  BY <1>1, <1>2, <1>4, <1>7, <1>8

(* The first rows: what is left out is no earlier, and nothing is left out *)
(* of a page that is not full.                                             *)
LEMMA FirstPage ==
    ASSUME NEW rows, IsFiniteSet(rows), Timed(rows), NEW n \in Nat, NEW page \in FirstRows(rows, n)
    PROVE  /\ page \in Seq(rows) /\ Len(page) <= n /\ SortedByTime(page) /\ IsInjective(page)
           /\ \A r \in rows \ Range(page) :
                Len(page) = n /\ \A i \in DOMAIN page : page[i].ts <= r.ts
<1>1. PICK s \in Orders(rows) : page = SubSeq(s, 1, IF Len(s) < n THEN Len(s) ELSE n)
  BY DEF FirstRows
<1>2. /\ s \in Seq(rows) /\ Len(s) \in Nat /\ DOMAIN s = 1 .. Len(s)
      /\ \A r \in rows : \E i \in DOMAIN s : s[i] = r
      /\ SortedByTime(s) /\ IsInjective(s)
  BY OrderOfRows
<1> DEFINE k == IF Len(s) < n THEN Len(s) ELSE n
<1>3. k \in Nat /\ k <= n /\ k <= Len(s) /\ (k < Len(s) => k = n)
  <2>1. Len(s) \in Nat
    BY <1>2
  <2>2. QED
    BY <2>1
<1> HIDE DEF k
<1>4. /\ page \in Seq(rows) /\ Len(page) = k /\ DOMAIN page = 1 .. k
      /\ \A i \in 1 .. k : page[i] = s[i]
  <2>1. page = SubSeq(s, 1, k)
    BY <1>1 DEF k
  <2>2. QED
    BY <1>2, <1>3, <2>1
<1>5. SortedByTime(page) /\ IsInjective(page)
  BY <1>2, <1>3, <1>4 DEF SortedByTime, IsInjective
<1>6. ASSUME NEW r \in rows \ Range(page)
      PROVE  Len(page) = n /\ \A i \in DOMAIN page : page[i].ts <= r.ts
  <2>1. PICK i \in DOMAIN s : s[i] = r
    BY <1>2
  <2>2. i > k
    BY <1>2, <1>3, <1>4, <1>6, <2>1 DEF Range
  <2>3. \A j \in 1 .. k : s[j].ts <= s[i].ts
    BY <1>2, <1>3, <2>1, <2>2 DEF SortedByTime
  <2>4. QED
    BY <1>2, <1>3, <1>4, <2>1, <2>2, <2>3
<1>7. QED
  BY <1>3, <1>4, <1>5, <1>6

(* The last rows: what is left out is no later.                            *)
LEMMA LastPage ==
    ASSUME NEW rows, IsFiniteSet(rows), Timed(rows), NEW n \in Nat, NEW page \in LastRows(rows, n)
    PROVE  /\ page \in Seq(rows) /\ Len(page) <= n /\ SortedByTime(page) /\ IsInjective(page)
           /\ \A r \in rows \ Range(page) :
                Len(page) = n /\ \A i \in DOMAIN page : r.ts <= page[i].ts
<1>1. PICK s \in Orders(rows) :
        page = SubSeq(s, IF Len(s) < n THEN 1 ELSE Len(s) - n + 1, Len(s))
  BY DEF LastRows
<1>2. /\ s \in Seq(rows) /\ Len(s) \in Nat /\ DOMAIN s = 1 .. Len(s)
      /\ \A r \in rows : \E i \in DOMAIN s : s[i] = r
      /\ SortedByTime(s) /\ IsInjective(s)
  BY OrderOfRows
<1> DEFINE m == IF Len(s) < n THEN 0 ELSE Len(s) - n
           k == Len(s) - m
<1>3. m \in Nat /\ k \in Nat /\ k <= n /\ m + k = Len(s) /\ (m > 0 => k = n)
  <2>1. Len(s) \in Nat
    BY <1>2
  <2>2. QED
    BY <2>1
<1>4. page = SubSeq(s, m + 1, Len(s))
  <2>1. Len(s) \in Nat
    BY <1>2
  <2>2. QED
    BY <1>1, <2>1
<1> HIDE DEF m, k
<1>5. /\ page \in Seq(rows) /\ Len(page) = k /\ DOMAIN page = 1 .. k
      /\ \A i \in 1 .. k : page[i] = s[m + i]
  <2> DEFINE l == Len(s)
  <2>7. l \in Nat
    BY <1>2
  <2>8. m + k = l
    BY <1>3
  <2> HIDE DEF l
  <2>9. l \in Int /\ m + 1 \in Int /\ l - (m + 1) + 1 = k /\ (m + 1 <= l <=> k # 0)
    BY <1>3, <2>7, <2>8
  <2>1. Len(s) \in Int /\ m + 1 \in Int /\ Len(s) - (m + 1) + 1 = k /\ (m + 1 <= Len(s) <=> k # 0)
    BY <2>9 DEF l
  <2>2. \A i \in m + 1 .. Len(s) : s[i] \in rows
    BY <1>2, <1>3
  <2>3. \A i \in 1 .. k : m + 1 + i - 1 = m + i
    BY <1>3
  <2>4. /\ page \in Seq(rows)
        /\ Len(page) = IF m + 1 <= Len(s) THEN Len(s) - (m + 1) + 1 ELSE 0
        /\ \A i \in 1 .. Len(s) - (m + 1) + 1 : page[i] = s[m + 1 + i - 1]
    BY <1>4, <2>1, <2>2, SubSeqProperties
  <2>5. Len(page) = k
    BY <2>1, <2>4
  <2>6. QED
    BY <2>1, <2>3, <2>4, <2>5
<1>6. SortedByTime(page) /\ IsInjective(page)
  <2>1. \A i \in 1 .. k : m + i \in DOMAIN s
    BY <1>2, <1>3
  <2>2. ASSUME NEW i \in 1 .. k, NEW j \in 1 .. k, i < j PROVE page[i].ts <= page[j].ts
    <3>1. m + i < m + j
      BY <1>3, <2>2
    <3>2. QED
      BY <1>2, <1>5, <2>1, <3>1 DEF SortedByTime
  <2>3. ASSUME NEW i \in 1 .. k, NEW j \in 1 .. k, page[i] = page[j] PROVE i = j
    <3>1. m + i = m + j
      BY <1>2, <1>5, <2>1, <2>3 DEF IsInjective
    <3>2. QED
      BY <1>3, <3>1
  <2>4. QED
    BY <1>5, <2>2, <2>3 DEF SortedByTime, IsInjective
<1>7. ASSUME NEW r \in rows \ Range(page)
      PROVE  Len(page) = n /\ \A i \in DOMAIN page : r.ts <= page[i].ts
  <2>1. PICK i \in DOMAIN s : s[i] = r
    BY <1>2
  <2>2. i <= m
    <3>1. SUFFICES ASSUME i > m PROVE FALSE
      BY <1>2, <1>3
    <3>2. i - m \in 1 .. k /\ m + (i - m) = i
      BY <1>2, <1>3, <3>1
    <3>3. page[i - m] = r
      BY <1>5, <2>1, <3>2
    <3>4. QED
      BY <1>5, <1>7, <3>2, <3>3 DEF Range
  <2>3. \A j \in 1 .. k : s[i].ts <= s[m + j].ts
    <3>1. \A j \in 1 .. k : m + j \in DOMAIN s /\ i < m + j
      BY <1>2, <1>3, <2>2
    <3>2. QED
      BY <1>2, <3>1 DEF SortedByTime
  <2>4. m > 0 /\ Len(page) = n
    BY <1>2, <1>3, <1>5, <2>2
  <2>5. \A j \in 1 .. k : r.ts <= page[j].ts
    BY <1>5, <2>1, <2>3
  <2>6. QED
    BY <1>5, <2>4, <2>5
<1>8. QED
  BY <1>3, <1>5, <1>6, <1>7

(* A page has as many rows as it is long.                                  *)
LEMMA PageSize ==
    ASSUME NEW rows, NEW page \in Seq(rows), IsInjective(page)
    PROVE  IsFiniteSet(Range(page)) /\ Cardinality(Range(page)) = Len(page)
<1> DEFINE n == Len(page)
<1>1. page \in [1 .. n -> rows] /\ n \in Nat /\ DOMAIN page = 1 .. n
  OBVIOUS
<1> HIDE DEF n
<1>2. IsFiniteSet(1 .. n) /\ Cardinality(1 .. n) = n
  BY <1>1, FS_Interval
<1>3. page \in Surjection(1 .. n, Range(page))
  BY <1>1 DEF Surjection, Range
<1>4. page \in Injection(1 .. n, Range(page))
  BY <1>1, <1>3 DEF Injection, IsInjective, Surjection
<1>5. IsFiniteSet(Range(page)) /\ Cardinality(Range(page)) = n
  BY <1>2, <1>3, <1>4, FS_Surjection
<1>6. QED
  BY <1>5 DEF n

(* What a concatenation consists of.                                       *)
LEMMA ConcatRows ==
    ASSUME NEW S, NEW s \in Seq(S), NEW t \in Seq(S)
    PROVE  /\ s \o t \in Seq(S)
           /\ \A i \in DOMAIN s : i \in DOMAIN (s \o t) /\ (s \o t)[i] = s[i]
           /\ \A j \in DOMAIN t : /\ Len(s) + j \in DOMAIN (s \o t)
                                  /\ (s \o t)[Len(s) + j] = t[j]
           /\ \A k \in DOMAIN (s \o t) :
                \/ k \in DOMAIN s
                \/ k - Len(s) \in DOMAIN t /\ k = Len(s) + (k - Len(s))
           /\ Range(s \o t) = Range(s) \union Range(t)
<1> DEFINE c == s \o t
           m == Len(s)
           n == Len(t)
<1>1. /\ m \in Nat /\ n \in Nat /\ DOMAIN s = 1 .. m /\ DOMAIN t = 1 .. n
      /\ c \in Seq(S) /\ DOMAIN c = 1 .. m + n
      /\ \A i \in 1 .. m : c[i] = s[i]
      /\ \A k \in m + 1 .. m + n : c[k] = t[k - m]
  OBVIOUS
<1> HIDE DEF c, m, n
<1>2. \A i \in 1 .. m : i \in 1 .. m + n /\ c[i] = s[i]
  BY <1>1
<1>3. \A j \in 1 .. n : m + j \in 1 .. m + n /\ c[m + j] = t[j]
  <2>1. \A j \in 1 .. n : m + j \in m + 1 .. m + n /\ m + j \in 1 .. m + n /\ (m + j) - m = j
    BY <1>1
  <2>2. QED
    BY <1>1, <2>1
<1>4. \A k \in 1 .. m + n : k \in 1 .. m \/ (k - m \in 1 .. n /\ k = m + (k - m))
  BY <1>1
<1>5. Range(c) = Range(s) \union Range(t)
  <2>1. ASSUME NEW k \in 1 .. m + n PROVE c[k] \in Range(s) \union Range(t)
    <3>1. CASE k \in 1 .. m
      BY <1>1, <3>1 DEF Range
    <3>2. CASE k \notin 1 .. m
      <4>1. k - m \in 1 .. n /\ c[m + (k - m)] = t[k - m] /\ m + (k - m) = k
        BY <1>1, <1>3, <1>4, <3>2
      <4>2. QED
        BY <1>1, <4>1 DEF Range
    <3>3. QED
      BY <3>1, <3>2
  <2>2. Range(c) \subseteq Range(s) \union Range(t)
    BY <1>1, <2>1 DEF Range
  <2>3. Range(s) \subseteq Range(c)
    BY <1>1, <1>2 DEF Range
  <2>4. ASSUME NEW e \in Range(t) PROVE e \in Range(c)
    <3>1. PICK j \in 1 .. n : t[j] = e
      BY <1>1 DEF Range
    <3>2. m + j \in DOMAIN c /\ c[m + j] = e
      BY <1>1, <1>3, <3>1
    <3>3. QED
      BY <3>2 DEF Range
  <2>5. QED
    BY <2>2, <2>3, <2>4
<1>6. QED
  BY <1>1, <1>2, <1>3, <1>4, <1>5 DEF c, m, n

(* Rows in time order after rows that are no later.                        *)
LEMMA ConcatSorted ==
    ASSUME NEW S, Timed(S), NEW s \in Seq(S), NEW t \in Seq(S), SortedByTime(s), SortedByTime(t),
           \A i \in DOMAIN s, j \in DOMAIN t : s[i].ts <= t[j].ts
    PROVE  SortedByTime(s \o t)
<1> DEFINE c == s \o t
           m == Len(s)
<1>1. m \in Nat /\ DOMAIN s = 1 .. m /\ DOMAIN t \subseteq Nat \ {0} /\ DOMAIN c \subseteq Nat
  OBVIOUS
<1>2. /\ \A i \in DOMAIN s : i \in DOMAIN c /\ c[i] = s[i]
      /\ \A j \in DOMAIN t : m + j \in DOMAIN c /\ c[m + j] = t[j]
      /\ \A k \in DOMAIN c : k \in DOMAIN s \/ (k - m \in DOMAIN t /\ k = m + (k - m))
  BY ConcatRows
<1> HIDE DEF c, m
<1>3. ASSUME NEW i \in DOMAIN c, NEW j \in DOMAIN c, i < j PROVE c[i].ts <= c[j].ts
  <2>1. CASE i \in DOMAIN s /\ j \in DOMAIN s
    BY <1>2, <1>3, <2>1 DEF SortedByTime
  <2>2. CASE i \in DOMAIN s /\ j \notin DOMAIN s
    BY <1>2, <2>2
  <2>3. CASE i \notin DOMAIN s /\ j \notin DOMAIN s
    <3>1. i - m < j - m
      BY <1>1, <1>3
    <3>2. QED
      BY <1>2, <2>3, <3>1 DEF SortedByTime
  <2>4. CASE i \notin DOMAIN s /\ j \in DOMAIN s
    <3>1. i > m /\ j <= m /\ i \in Nat /\ j \in Nat
      BY <1>1, <1>2, <2>4
    <3>2. QED
      BY <1>1, <1>3, <3>1
  <2>5. QED
    BY <2>1, <2>2, <2>3, <2>4
<1>4. QED
  BY <1>3 DEF SortedByTime, c

(* New rows after others: still no row twice.                              *)
LEMMA ConcatOnce ==
    ASSUME NEW S, NEW s \in Seq(S), NEW t \in Seq(S), IsInjective(s), IsInjective(t),
           \A i \in DOMAIN s, j \in DOMAIN t : s[i] # t[j]
    PROVE  IsInjective(s \o t)
<1> DEFINE c == s \o t
           m == Len(s)
<1>1. m \in Nat /\ DOMAIN t \subseteq Nat /\ DOMAIN c \subseteq Nat
  OBVIOUS
<1>2. /\ \A i \in DOMAIN s : i \in DOMAIN c /\ c[i] = s[i]
      /\ \A j \in DOMAIN t : m + j \in DOMAIN c /\ c[m + j] = t[j]
      /\ \A k \in DOMAIN c : k \in DOMAIN s \/ (k - m \in DOMAIN t /\ k = m + (k - m))
  BY ConcatRows
<1> HIDE DEF c, m
<1>3. ASSUME NEW i \in DOMAIN c, NEW j \in DOMAIN c, c[i] = c[j] PROVE i = j
  <2>1. CASE i \in DOMAIN s /\ j \in DOMAIN s
    BY <1>2, <1>3, <2>1 DEF IsInjective
  <2>2. CASE i \in DOMAIN s <=> j \notin DOMAIN s
    BY <1>2, <1>3, <2>2
  <2>3. CASE i \notin DOMAIN s /\ j \notin DOMAIN s
    <3>1. i - m = j - m
      BY <1>2, <1>3, <2>3 DEF IsInjective
    <3>2. QED
      BY <1>1, <3>1
  <2>4. QED
    BY <2>1, <2>2, <2>3
<1>4. QED
  BY <1>3 DEF IsInjective, c

-----------------------------------------------------------------------------
(***************************************************************************)
(* The tail, the search and the context of a log row.                      *)
(***************************************************************************)
(* What is stored has times.                                               *)
LEMMA LogsAreTimed == TqInv => Timed(logs) /\ \A r \in logs : r.ts \in 0 .. MaxTime
  BY QueryAssumption DEF TqInv, Timed

(* A row that arrives at or below the cursor is late, any other is still   *)
(* to come.                                                                *)
LEMMA ArrivalKeeps ==
    ASSUME TqInv, NEW r \in LogPool, LogArrives(r)
    PROVE  TqInv'
<1>1. logs' = logs \union {r} /\ IsFiniteSet(logs') /\ logs' \subseteq LogPool
  BY FS_AddElement DEF LogArrives, TqInv
<1>2. seen' = seen /\ since' = since /\ reading' = reading /\ spans' = spans /\ seen' \in Seq(logs')
  <2>1. seen \in Seq(logs)
    BY DEF TqInv
  <2>2. seen \in Seq(logs')
    BY <1>1, <2>1
  <2>3. QED
    BY <2>2 DEF LogArrives
<1>3. \A x \in logs' : x.ts <= since' /\ x \notin Range(seen') =>
        x \in late' \/ \E i \in DOMAIN seen' : seen'[i].ts = x.ts
  BY <1>1, <1>2 DEF LogArrives, TqInv
<1>4. /\ reading' \in Readings'
      /\ reading'.stage = "pivot" => Len(reading'.page) = 1
      /\ reading'.stage \in {"pivot", "before", "around"} => reading'.page # <<>>
  <2>1. reading \in Readings
    BY DEF TqInv
  <2>2. reading.page \in Seq(logs') /\ reading.counted \in SUBSET logs'
    BY <1>1, <2>1 DEF Readings
  <2>3. reading \in Readings'
    BY <2>1, <2>2 DEF Readings
  <2>4. QED
    BY <1>2, <2>3 DEF TqInv
<1>5. PageCoversCount' /\ ContextIsContiguous'
  BY <1>2 DEF PageCoversCount, ContextIsContiguous, SortedByTime, TqInv
<1>6. QED
  BY <1>1, <1>2, <1>3, <1>4, <1>5 DEF TqInv, SortedByTime

(* A page of the tail is later than all that was shown, and stops short of *)
(* no row that is earlier than its last.                                   *)
LEMMA PollKeeps ==
    ASSUME TqInv, TailPolls
    PROVE  TqInv'
<1> DEFINE newer == {r \in logs : r.ts > since}
<1>1. PICK page \in FirstRows(newer, PageLimit) :
        page # <<>> /\ seen' = seen \o page /\ since' = Last(page).ts
  BY DEF TailPolls, tail_logs
<1>2. /\ IsFiniteSet(newer) /\ newer \subseteq logs /\ Timed(newer) /\ Timed(logs)
      /\ PageLimit \in Nat /\ since \in Int /\ seen \in Seq(logs)
  BY LogsAreTimed, QueryAssumption, FS_Subset DEF TqInv, Timed
<1>3. \A r \in newer : r.ts > since
  OBVIOUS
<1> HIDE DEF newer
<1>4. /\ page \in Seq(newer) /\ SortedByTime(page) /\ IsInjective(page)
      /\ \A r \in newer \ Range(page) : \A i \in DOMAIN page : page[i].ts <= r.ts
  BY <1>1, <1>2, FirstPage
<1>5. /\ Len(page) \in DOMAIN page /\ \A i \in DOMAIN page : i <= Len(page) /\ page[i] \in newer
      /\ Last(page) = page[Len(page)] /\ page \in Seq(logs)
  BY <1>1, <1>2, <1>4 DEF Last
<1>6. since' \in Int /\ since < since' /\ \A i \in DOMAIN page : page[i].ts <= since'
  <2>1. page[Len(page)] \in newer /\ since' = page[Len(page)].ts
    BY <1>1, <1>5
  <2>2. since' \in Int /\ since < since'
    BY <1>2, <1>3, <2>1 DEF Timed
  <2>3. ASSUME NEW i \in DOMAIN page PROVE page[i].ts <= since'
    <3>1. CASE i = Len(page)
      BY <2>1, <2>2, <3>1
    <3>2. CASE i # Len(page)
      <4>1. i < Len(page)
        BY <1>4, <1>5, <3>2
      <4>2. QED
        BY <1>5, <2>1, <4>1, <1>4 DEF SortedByTime
    <3>3. QED
      BY <3>1, <3>2
  <2>4. QED
    BY <2>2, <2>3
<1>7. \A i \in DOMAIN seen : seen[i] \in logs /\ seen[i].ts \in Int /\ seen[i].ts <= since
  <2>1. \A i \in DOMAIN seen : seen[i].ts <= since /\ seen[i] \in logs
    BY <1>2 DEF TqInv
  <2>2. QED
    BY <1>2, <2>1 DEF Timed
<1>8. \A i \in DOMAIN page : page[i].ts \in Int /\ page[i].ts > since
  BY <1>2, <1>3, <1>5 DEF Timed
<1>9. seen' \in Seq(logs) /\ SortedByTime(seen') /\ IsInjective(seen')
  <2>1. \A i \in DOMAIN seen, j \in DOMAIN page : seen[i].ts <= page[j].ts /\ seen[i] # page[j]
    BY <1>2, <1>7, <1>8
  <2>2. SortedByTime(seen) /\ IsInjective(seen)
    BY DEF TqInv
  <2>3. QED
    BY <1>1, <1>2, <1>4, <1>5, <2>1, <2>2, ConcatRows, ConcatSorted, ConcatOnce
<1>10. \A i \in DOMAIN seen' : seen'[i].ts <= since'
  <2>1. ASSUME NEW i \in DOMAIN seen' PROVE seen'[i] \in Range(seen) \union Range(page)
    BY <1>1, <1>2, <1>5, ConcatRows DEF Range
  <2>2. \A r \in Range(seen) \union Range(page) : r.ts <= since'
    BY <1>2, <1>6, <1>7 DEF Range
  <2>3. QED
    BY <2>1, <2>2
<1>11. ASSUME NEW r \in logs, r.ts <= since', r \notin Range(seen')
       PROVE  r \in late \/ \E i \in DOMAIN seen' : seen'[i].ts = r.ts
  <2>1. r \notin Range(seen) /\ r \notin Range(page) /\ r.ts \in Int
    BY <1>1, <1>2, <1>5, <1>11, ConcatRows DEF Timed
  <2>2. /\ \A i \in DOMAIN seen : i \in DOMAIN seen' /\ seen'[i] = seen[i]
        /\ \A i \in DOMAIN page : \E j \in DOMAIN seen' : seen'[j] = page[i]
    <3>1. /\ \A i \in DOMAIN seen : i \in DOMAIN (seen \o page) /\ (seen \o page)[i] = seen[i]
          /\ \A j \in DOMAIN page : /\ Len(seen) + j \in DOMAIN (seen \o page)
                                    /\ (seen \o page)[Len(seen) + j] = page[j]
      BY <1>2, <1>5, ConcatRows
    <3>2. QED
      BY <1>1, <3>1, Zenon
  <2>3. CASE r.ts <= since
    BY <2>1, <2>2, <2>3 DEF TqInv
  <2>4. CASE r.ts > since
    <3>1. r \in newer
      BY <2>4 DEF newer
    <3>2. page[Len(page)].ts <= r.ts /\ page[Len(page)].ts = since'
      BY <1>1, <1>4, <1>5, <2>1, <3>1
    <3>3. page[Len(page)].ts = r.ts
      BY <1>6, <1>11, <2>1, <3>2
    <3>4. QED
      BY <1>5, <2>2, <3>3
  <2>5. QED
    BY <1>2, <2>1, <2>3, <2>4
<1>12. PageCoversCount' /\ ContextIsContiguous'
  BY DEF TqInv, TailPolls, PageCoversCount, ContextIsContiguous, SortedByTime
<1>13. QED
  BY <1>6, <1>9, <1>10, <1>11, <1>12 DEF TqInv, TailPolls, Readings

(* A page of a search, read after the count, drops no counted row that is  *)
(* newer than one it shows.                                                *)
LEMMA FetchKeeps ==
    ASSUME TqInv, SearchFetches
    PROVE  TqInv'
<1> DEFINE rows == log_search_where_clause(0, MaxTime)
<1>1. PICK page \in LastRows(rows, PageLimit) :
        reading' = [reading EXCEPT !.stage = "done", !.page = page]
  BY DEF SearchFetches
<1>2. rows = logs
  BY LogsAreTimed, QueryAssumption DEF log_search_where_clause
<1>3. /\ page \in Seq(logs) /\ IsInjective(page)
      /\ \A r \in logs \ Range(page) : Len(page) = PageLimit /\ \A i \in DOMAIN page : r.ts <= page[i].ts
  <2>1. IsFiniteSet(logs) /\ Timed(logs) /\ PageLimit \in Nat
    BY LogsAreTimed, QueryAssumption DEF TqInv
  <2>2. page \in LastRows(logs, PageLimit)
    BY <1>2
  <2>3. QED
    BY <2>1, <2>2, LastPage
<1> HIDE DEF rows
<1>4. Cardinality(Range(page)) = Len(page) /\ Range(page) \subseteq logs
  <2>1. \A i \in DOMAIN page : page[i] \in logs
    BY <1>3
  <2>2. Range(page) \subseteq logs
    BY <2>1 DEF Range
  <2>3. QED
    BY <1>3, <2>2, PageSize
<1>5. /\ reading'.counted = reading.counted /\ reading'.counted \subseteq logs
      /\ reading'.page = page /\ reading'.stage = "done" /\ reading' \in Readings
  <2>1. reading \in Readings
    BY DEF TqInv
  <2>2. QED
    BY <1>1, <1>3, <2>1 DEF Readings
<1>6. PageCoversCount'
  <2>1. ASSUME NEW r \in logs \ Range(page) PROVE \A q \in Range(page) : q.ts >= r.ts
    <3>1. \A q \in Range(page) : r.ts <= q.ts /\ q.ts \in Int /\ r.ts \in Int
      BY <1>3, <1>4, LogsAreTimed DEF Range, Timed
    <3>2. QED
      BY <3>1
  <2>2. QED
    BY <1>3, <1>5, <2>1 DEF PageCoversCount
<1>7. UNCHANGED <<logs, spans, since, seen, late>>
  BY DEF SearchFetches
<1>8. QED
  BY <1>3, <1>5, <1>6, <1>7 DEF TqInv, SortedByTime, ContextIsContiguous, Readings

(* A page that skips no row of its source that a request held.             *)
Contiguous(c, held) ==
  /\ SortedByTime(c)
  /\ \A i \in DOMAIN c : c[i].source = c[1].source
  /\ \A r \in held :
       r.source = c[1].source /\ r.ts > c[1].ts /\ r.ts < c[Len(c)].ts =>
         \E i \in DOMAIN c : c[i].ts = r.ts

(* Two pages between which no row is missing.                              *)
LEMMA JoinIsContiguous ==
    ASSUME NEW S, Timed(S), NEW held \in SUBSET S, NEW s \in Seq(S), NEW t \in Seq(S),
           s # <<>>, t # <<>>, Contiguous(s, held), Contiguous(t, held),
           s[1].source = t[1].source,
           \A i \in DOMAIN s, j \in DOMAIN t : s[i].ts <= t[j].ts,
           \A r \in held :
             r.source = t[1].source => r.ts <= s[Len(s)].ts \/ r.ts >= t[1].ts
    PROVE  Contiguous(s \o t, held)
<1> DEFINE c == s \o t
<1>1. /\ c \in Seq(S) /\ c[1] = s[1] /\ c[Len(c)] = t[Len(t)] /\ 1 \in DOMAIN s /\ 1 \in DOMAIN t
      /\ Len(s) \in DOMAIN s /\ Len(t) \in DOMAIN t
  OBVIOUS
<1>2. /\ \A i \in DOMAIN s : i \in DOMAIN c /\ c[i] = s[i]
      /\ \A j \in DOMAIN t : Len(s) + j \in DOMAIN c /\ c[Len(s) + j] = t[j]
      /\ \A k \in DOMAIN c : k \in DOMAIN s \/ (k - Len(s) \in DOMAIN t /\ k = Len(s) + (k - Len(s)))
  BY ConcatRows
<1>3. SortedByTime(c)
  BY ConcatSorted DEF Contiguous
<1> HIDE DEF c
<1>4. ASSUME NEW k \in DOMAIN c PROVE c[k].source = c[1].source
  <2>1. CASE k \in DOMAIN s
    BY <1>1, <1>2, <2>1 DEF Contiguous
  <2>2. CASE k - Len(s) \in DOMAIN t /\ k = Len(s) + (k - Len(s))
    BY <1>1, <1>2, <2>2 DEF Contiguous
  <2>3. QED
    BY <1>2, <2>1, <2>2
<1>5. ASSUME NEW r \in held, r.source = c[1].source, r.ts > c[1].ts, r.ts < c[Len(c)].ts
      PROVE  \E i \in DOMAIN c : c[i].ts = r.ts
  <2>1. /\ r.ts \in Int /\ s[1].ts \in Int /\ s[Len(s)].ts \in Int /\ t[1].ts \in Int
        /\ t[Len(t)].ts \in Int
    BY <1>1 DEF Timed
  <2>2. CASE r.ts <= s[Len(s)].ts
    <3>1. \E i \in DOMAIN s : s[i].ts = r.ts
      BY <1>1, <1>5, <2>1, <2>2 DEF Contiguous
    <3>2. QED
      BY <1>2, <3>1
  <2>3. CASE r.ts >= t[1].ts
    <3>1. \E j \in DOMAIN t : t[j].ts = r.ts
      BY <1>1, <1>5, <2>1, <2>3 DEF Contiguous
    <3>2. QED
      BY <1>2, <3>1
  <2>4. QED
    BY <1>1, <1>5, <2>2, <2>3
<1>6. QED
  BY <1>3, <1>4, <1>5 DEF Contiguous, c

(* The pivot alone.                                                        *)
LEMMA PivotKeeps ==
    ASSUME TqInv, ContextFindsPivot
    PROVE  TqInv'
<1>1. PICK pivot \in logs : reading' = [stage |-> "pivot", counted |-> logs, page |-> <<pivot>>]
  BY DEF ContextFindsPivot
<1>2. /\ reading'.stage = "pivot" /\ reading'.counted = logs /\ reading'.page = <<pivot>>
      /\ <<pivot>> \in Seq(logs) /\ pivot.ts \in Int
  BY <1>1, LogsAreTimed DEF Timed
<1>3. Len(reading'.page) = 1 /\ reading'.page # <<>> /\ reading'.page[1] = pivot
  BY <1>2
<1>4. ContextIsContiguous'
  <2>1. DOMAIN reading'.page = {1} /\ \A r \in reading'.counted : r.ts \in Int
    BY <1>2, LogsAreTimed DEF Timed
  <2>2. SortedByTime(reading'.page)
    BY <2>1 DEF SortedByTime
  <2>3. reading'.page[Len(reading'.page)] = pivot
    BY <1>3
  <2>4. QED
    BY <1>2, <1>3, <2>1, <2>2, <2>3 DEF ContextIsContiguous, SortedByTime
<1>5. UNCHANGED <<logs, spans, points, since, seen, late>>
  BY DEF ContextFindsPivot
<1>6. QED
  BY <1>1, <1>2, <1>3, <1>4, <1>5 DEF TqInv, PageCoversCount, SortedByTime, Readings

(* A page extended by one of the two statements is kept by the invariant.  *)
LEMMA ExtendedPage ==
    ASSUME TqInv, NEW stage \in {"before", "around"}, NEW page \in Seq(logs), page # <<>>,
           reading' = [reading EXCEPT !.stage = stage, !.page = page],
           reading.stage \in {"pivot", "before"},
           Contiguous(page, reading.counted), UNCHANGED <<logs, spans, points, since, seen, late>>
    PROVE  TqInv'
<1>1. /\ reading'.page = page /\ reading'.counted = reading.counted /\ reading'.stage = stage
      /\ reading' \in Readings
  <2>1. reading \in Readings
    BY DEF TqInv
  <2>2. QED
    BY <2>1 DEF Readings
<1>2. ContextIsContiguous'
  BY <1>1 DEF ContextIsContiguous, Contiguous, SortedByTime
<1>3. QED
  BY <1>1, <1>2 DEF TqInv, PageCoversCount, SortedByTime, Readings

(* The rows before the pivot, read when more may be stored than was held.  *)
LEMMA BeforeKeeps ==
    ASSUME TqInv, ContextReadsBefore
    PROVE  TqInv'
<1> DEFINE pivot   == reading.page[1]
           earlier == {r \in OfSource(reading.page) : r.ts < Last(reading.page).ts}
<1>1. PICK before \in LastRows(earlier, Window) :
        reading' = [reading EXCEPT !.stage = "before", !.page = before \o reading.page]
  BY DEF ContextReadsBefore
<1>2. /\ reading.stage = "pivot" /\ reading.page \in Seq(logs) /\ Len(reading.page) = 1
      /\ Timed(logs) /\ reading.counted \subseteq logs /\ IsFiniteSet(logs)
      /\ Contiguous(reading.page, reading.counted) /\ Window \in Nat
      /\ UNCHANGED <<logs, spans, points, since, seen, late>>
  BY LogsAreTimed, QueryAssumption
  DEF TqInv, ContextReadsBefore, ContextIsContiguous, Contiguous, Readings
<1>3. /\ Last(reading.page) = pivot /\ pivot \in logs /\ pivot.ts \in Int
      /\ DOMAIN reading.page = {1} /\ reading.page # <<>> /\ Len(reading.page) = 1
  BY <1>2 DEF Last, Timed
<1>4. earlier = {r \in logs : r.source = pivot.source /\ r.ts < pivot.ts}
  BY <1>3 DEF OfSource
<1>5. /\ earlier \subseteq logs /\ IsFiniteSet(earlier) /\ Timed(earlier)
      /\ \A r \in earlier : r.source = pivot.source /\ r.ts < pivot.ts
      /\ \A r \in logs : r.source = pivot.source /\ r.ts < pivot.ts => r \in earlier
  BY <1>2, <1>4, FS_Subset DEF Timed
<1> HIDE DEF earlier
<1>6. /\ before \in Seq(earlier) /\ SortedByTime(before)
      /\ \A r \in earlier \ Range(before) : \A i \in DOMAIN before : r.ts <= before[i].ts
  BY <1>2, <1>5, LastPage
<1>7. before \in Seq(logs)
  BY <1>5, <1>6
<1>8. CASE before = <<>>
  <2>1. before \o reading.page = reading.page
    BY <1>2, <1>8
  <2>2. QED
    BY <1>1, <1>2, <1>3, <2>1, ExtendedPage
<1>9. CASE before # <<>>
  <2>1. Contiguous(before, reading.counted) /\ before[1].source = pivot.source
    <3>1. \A r \in reading.counted, x, y \in earlier :
            r.source = pivot.source /\ x.ts < r.ts /\ r.ts < y.ts => r \in earlier
      BY <1>2, <1>3, <1>5 DEF Timed
    <3>2. \A r \in earlier \ Range(before) :
            (\A i \in DOMAIN before : before[i].ts <= r.ts) \/ \A i \in DOMAIN before : r.ts <= before[i].ts
      BY <1>6
    <3>3. earlier \in SUBSET logs /\ reading.counted \in SUBSET logs
      BY <1>2, <1>5
    <3>4. PICK source : source = pivot.source
      OBVIOUS
    <3>5. /\ \A r \in earlier : r.source = source
          /\ \A r \in reading.counted, x, y \in earlier :
               r.source = source /\ x.ts < r.ts /\ r.ts < y.ts => r \in earlier
      BY <1>5, <3>1, <3>4
    <3> HIDE DEF pivot
    <3>6. /\ 1 \in DOMAIN before /\ Len(before) \in DOMAIN before
          /\ \A i \in DOMAIN before : before[i] \in earlier /\ before[i].ts \in Int
      BY <1>5, <1>6, <1>9 DEF Timed
    <3>7. ASSUME NEW r \in reading.counted, r.source = source,
                 r.ts > before[1].ts, r.ts < before[Len(before)].ts
          PROVE  \E i \in DOMAIN before : before[i].ts = r.ts
      <4>1. r \in earlier /\ r.ts \in Int
        BY <1>2, <3>3, <3>5, <3>6, <3>7 DEF Timed
      <4>2. r \in Range(before)
        BY <3>2, <3>6, <3>7, <4>1
      <4>3. QED
        BY <4>2 DEF Range
    <3>8. Contiguous(before, reading.counted)
      BY <1>6, <3>5, <3>6, <3>7 DEF Contiguous
    <3>9. QED
      BY <3>4, <3>5, <3>6, <3>8
  <2>2. \A i \in DOMAIN before, j \in DOMAIN reading.page : before[i].ts <= reading.page[j].ts
    BY <1>2, <1>3, <1>5, <1>6 DEF Timed
  <2>3. ASSUME NEW r \in reading.counted, r.source = pivot.source
        PROVE  r.ts <= before[Len(before)].ts \/ r.ts >= pivot.ts
    <3>1. /\ Len(before) \in DOMAIN before /\ r \in logs /\ r.ts \in Int
          /\ \A i \in DOMAIN before : before[i].ts \in Int /\ i <= Len(before)
      BY <1>2, <1>7, <1>9 DEF Timed
    <3>2. CASE r \in earlier \ Range(before)
      BY <1>6, <3>1, <3>2
    <3>3. CASE r \in Range(before)
      <4>1. PICK i \in DOMAIN before : before[i] = r
        BY <3>3 DEF Range
      <4>2. CASE i = Len(before)
        BY <3>1, <4>1, <4>2
      <4>3. CASE i < Len(before)
        BY <1>6, <3>1, <4>1, <4>3 DEF SortedByTime
      <4>4. QED
        BY <1>7, <3>1, <4>2, <4>3
    <3>4. CASE r \notin earlier
      BY <1>3, <1>5, <2>3, <3>1, <3>4
    <3>5. QED
      BY <3>2, <3>3, <3>4
  <2>4. Contiguous(before \o reading.page, reading.counted)
    BY <1>2, <1>3, <1>7, <1>9, <2>1, <2>2, <2>3, JoinIsContiguous
  <2>5. before \o reading.page \in Seq(logs) /\ before \o reading.page # <<>>
    BY <1>2, <1>3, <1>7
  <2>6. QED
    BY <1>1, <1>2, <2>4, <2>5, ExtendedPage
<1>10. QED
  BY <1>8, <1>9

(* The rows after the pivot, read last.                                    *)
LEMMA AfterKeeps ==
    ASSUME TqInv, ContextReadsAfter
    PROVE  TqInv'
<1> DEFINE pivot == Last(reading.page)
           later == {r \in OfSource(reading.page) : r.ts > Last(reading.page).ts}
<1>1. PICK after \in FirstRows(later, Window) :
        reading' = [reading EXCEPT !.stage = "around", !.page = reading.page \o after]
  BY DEF ContextReadsAfter
<1>2. /\ reading.stage = "before" /\ reading.page \in Seq(logs) /\ reading.page # <<>>
      /\ Timed(logs) /\ reading.counted \subseteq logs /\ IsFiniteSet(logs)
      /\ Contiguous(reading.page, reading.counted) /\ Window \in Nat
      /\ UNCHANGED <<logs, spans, points, since, seen, late>>
  BY LogsAreTimed, QueryAssumption
  DEF TqInv, ContextReadsAfter, ContextIsContiguous, Contiguous, Readings
<1>3. /\ pivot = reading.page[Len(reading.page)] /\ Len(reading.page) \in DOMAIN reading.page
      /\ pivot \in logs /\ pivot.ts \in Int /\ 1 \in DOMAIN reading.page
      /\ pivot.source = reading.page[1].source
      /\ \A i \in DOMAIN reading.page : reading.page[i].ts \in Int /\ i <= Len(reading.page)
  BY <1>2 DEF Last, Timed, Contiguous
<1>4. later = {r \in logs : r.source = pivot.source /\ r.ts > pivot.ts}
  BY DEF OfSource
<1>5. /\ later \subseteq logs /\ IsFiniteSet(later) /\ Timed(later)
      /\ \A r \in later : r.source = pivot.source /\ r.ts > pivot.ts
      /\ \A r \in logs : r.source = pivot.source /\ r.ts > pivot.ts => r \in later
  BY <1>2, <1>4, FS_Subset DEF Timed
<1> HIDE DEF later, pivot
<1>6. /\ after \in Seq(later) /\ SortedByTime(after)
      /\ \A r \in later \ Range(after) : \A i \in DOMAIN after : after[i].ts <= r.ts
  BY <1>2, <1>5, FirstPage
<1>7. after \in Seq(logs)
  BY <1>5, <1>6
<1>8. CASE after = <<>>
  <2>1. reading.page \o after = reading.page
    BY <1>2, <1>8
  <2>2. QED
    BY <1>1, <1>2, <2>1, ExtendedPage
<1>9. CASE after # <<>>
  <2>1. Contiguous(after, reading.counted) /\ after[1].source = pivot.source
    <3>1. \A r \in reading.counted, x, y \in later :
            r.source = pivot.source /\ x.ts < r.ts /\ r.ts < y.ts => r \in later
      BY <1>2, <1>3, <1>5 DEF Timed
    <3>2. \A r \in later \ Range(after) :
            (\A i \in DOMAIN after : after[i].ts <= r.ts) \/ \A i \in DOMAIN after : r.ts <= after[i].ts
      BY <1>6
    <3>3. later \in SUBSET logs /\ reading.counted \in SUBSET logs
      BY <1>2, <1>5
    <3>4. PICK source : source = pivot.source
      OBVIOUS
    <3>5. /\ \A r \in later : r.source = source
          /\ \A r \in reading.counted, x, y \in later :
               r.source = source /\ x.ts < r.ts /\ r.ts < y.ts => r \in later
      BY <1>5, <3>1, <3>4
    <3>6. /\ 1 \in DOMAIN after /\ Len(after) \in DOMAIN after
          /\ \A i \in DOMAIN after : after[i] \in later /\ after[i].ts \in Int
      BY <1>5, <1>6, <1>9 DEF Timed
    <3>7. ASSUME NEW r \in reading.counted, r.source = source,
                 r.ts > after[1].ts, r.ts < after[Len(after)].ts
          PROVE  \E i \in DOMAIN after : after[i].ts = r.ts
      <4>1. r \in later /\ r.ts \in Int
        BY <1>2, <3>3, <3>5, <3>6, <3>7 DEF Timed
      <4>2. r \in Range(after)
        BY <3>2, <3>6, <3>7, <4>1
      <4>3. QED
        BY <4>2 DEF Range
    <3>8. Contiguous(after, reading.counted)
      BY <1>6, <3>5, <3>6, <3>7 DEF Contiguous
    <3>9. QED
      BY <3>4, <3>5, <3>6, <3>8
  <2>2. \A i \in DOMAIN reading.page, j \in DOMAIN after : reading.page[i].ts <= after[j].ts
    <3>1. ASSUME NEW i \in DOMAIN reading.page PROVE reading.page[i].ts <= pivot.ts
      <4>1. CASE i = Len(reading.page)
        BY <1>3, <4>1
      <4>2. CASE i # Len(reading.page)
        <5>1. i < Len(reading.page)
          BY <1>2, <1>3, <4>2
        <5>2. QED
          BY <1>2, <1>3, <5>1 DEF Contiguous, SortedByTime
      <4>3. QED
        BY <4>1, <4>2
    <3>2. \A j \in DOMAIN after : after[j].ts \in Int /\ after[j].ts > pivot.ts
      BY <1>2, <1>5, <1>6, <1>7 DEF Timed
    <3>3. QED
      BY <1>3, <3>1, <3>2
  <2>3. ASSUME NEW r \in reading.counted, r.source = after[1].source
        PROVE  r.ts <= reading.page[Len(reading.page)].ts \/ r.ts >= after[1].ts
    <3>1. /\ 1 \in DOMAIN after /\ r \in logs /\ r.ts \in Int
          /\ \A i \in DOMAIN after : after[i].ts \in Int /\ i >= 1
      BY <1>2, <1>7, <1>9 DEF Timed
    <3>2. CASE r \in later \ Range(after)
      BY <1>6, <3>1, <3>2
    <3>3. CASE r \in Range(after)
      <4>1. PICK i \in DOMAIN after : after[i] = r
        BY <3>3 DEF Range
      <4>2. CASE i = 1
        BY <3>1, <4>1, <4>2
      <4>3. CASE i > 1
        BY <1>6, <3>1, <4>1, <4>3 DEF SortedByTime
      <4>4. QED
        BY <1>7, <3>1, <4>2, <4>3
    <3>4. CASE r \notin later
      BY <1>3, <1>5, <2>1, <2>3, <3>1, <3>4
    <3>5. QED
      BY <3>2, <3>3, <3>4
  <2>4. Contiguous(reading.page \o after, reading.counted)
    BY <1>2, <1>3, <1>7, <1>9, <2>1, <2>2, <2>3, JoinIsContiguous
  <2>5. reading.page \o after \in Seq(logs) /\ reading.page \o after # <<>>
    BY <1>2, <1>7
  <2>6. QED
    BY <1>1, <1>2, <2>4, <2>5, ExtendedPage
<1>10. QED
  BY <1>8, <1>9
(* Every step of a client of the queries and every arrival keeps it.       *)
LEMMA TqStepKeeps == TqInv /\ [TqNext]_tqVars => TqInv'
<1> SUFFICES ASSUME TqInv, [TqNext]_tqVars PROVE TqInv'
  OBVIOUS
<1>1. CASE \E r \in LogPool : LogArrives(r)
  BY <1>1, ArrivalKeeps
<1>2. CASE TailPolls
  BY <1>2, PollKeeps
<1>3. CASE SearchFetches
  BY <1>3, FetchKeeps
<1>4. CASE SearchCounts \/ RequestEnds
  <2>1. UNCHANGED <<logs, spans, since, seen, late>>
    BY <1>4 DEF SearchCounts, RequestEnds
  <2>2. reading'.stage \in {"idle", "counted"} /\ reading' \in Readings
    <3>1. <<>> \in Seq(logs) /\ {} \in SUBSET logs /\ log_search_where_clause(0, MaxTime) \in SUBSET logs
      BY DEF log_search_where_clause
    <3>2. \/ reading' = [stage |-> "counted", counted |-> log_search_where_clause(0, MaxTime), page |-> <<>>]
          \/ reading' = [stage |-> "idle", counted |-> {}, page |-> <<>>]
      BY <1>4 DEF SearchCounts, RequestEnds, NoReading
    <3>3. \A counted \in SUBSET logs, page \in Seq(logs), stage \in {"idle", "counted"} :
            [stage |-> stage, counted |-> counted, page |-> page] \in Readings
      BY DEF Readings
    <3>4. reading'.stage \in {"idle", "counted"}
      BY <3>2
    <3>5. reading' \in Readings
      BY <3>1, <3>2, <3>3, Zenon
    <3>6. QED
      BY <3>4, <3>5
  <2>3. QED
    BY <2>1, <2>2 DEF TqInv, SortedByTime, PageCoversCount, ContextIsContiguous, Readings
<1>5. CASE SpanNext
  <2>1. UNCHANGED <<logs, since, seen, late, reading>>
    BY <1>5 DEF SpanNext, SpanArrives
  <2>2. spans' \subseteq SpanPool /\ IsFiniteSet(spans')
    BY <1>5, FS_AddElement DEF SpanNext, SpanArrives, TqInv
  <2>3. QED
    BY <2>1, <2>2 DEF TqInv, SortedByTime, PageCoversCount, ContextIsContiguous, Readings
<1>6. CASE PointNext \/ UNCHANGED tqVars
  <2>1. UNCHANGED <<logs, spans, since, seen, late, reading>>
    BY <1>6 DEF PointNext, PointArrives, tqVars
  <2>2. QED
    BY <2>1 DEF TqInv, SortedByTime, PageCoversCount, ContextIsContiguous, Readings
<1>7. CASE ContextFindsPivot
  BY <1>7, PivotKeeps
<1>8. CASE ContextReadsBefore
  BY <1>8, BeforeKeeps
<1>9. CASE ContextReadsAfter
  BY <1>9, AfterKeeps
<1>10. QED
  BY <1>1, <1>2, <1>3, <1>4, <1>5, <1>6, <1>7, <1>8, <1>9 DEF TqNext, LogNext

(* The tail shows no row twice and leaves out only what it must.           *)
LEMMA TailHolds == TqInv => TailIsSound
<1> SUFFICES ASSUME TqInv PROVE TailIsSound
  OBVIOUS
<1>1. seen \in Seq(logs) /\ IsInjective(seen)
  BY DEF TqInv
<1>2. Cardinality(Range(seen)) = Len(seen)
  BY <1>1, PageSize
<1>3. QED
  BY <1>2 DEF TqInv, TailIsSound

-----------------------------------------------------------------------------
(***************************************************************************)
(* Histograms.                                                             *)
(***************************************************************************)
(* Max of two numbers, as max() of two u64.                                *)
LEMMA MaxOfTwo ==
    ASSUME NEW a \in Int, NEW b \in Int
    PROVE  Max({a, b}) = IF a < b THEN b ELSE a
<1>1. \E x \in {a, b} : \A y \in {a, b} : x >= y
  OBVIOUS
<1>2. Max({a, b}) \in {a, b} /\ \A y \in {a, b} : Max({a, b}) >= y
  BY <1>1 DEF Max
<1>3. QED
  BY <1>2

(* Division of natural numbers, rounding down.                             *)
LEMMA Quotient ==
    ASSUME NEW d \in Nat, NEW w \in Nat \ {0}
    PROVE  d \div w \in Nat /\ (d \div w) * w <= d /\ d < (d \div w) * w + w
  OBVIOUS

(* The buckets are at least one wide and as wide as fits the range: what   *)
(* they leave over at its end is less than one of each.                    *)
LEMMA IntervalFits ==
    ASSUME NEW from \in Nat, NEW to \in Nat, from <= to, NEW n \in Nat \ {0}
    PROVE  LET w == HistogramInterval(from, to, n)
           IN  /\ w \in Nat \ {0}
               /\ (to - from) - n * w < n
               /\ to > from /\ to - from >= n => from + n * w <= to
<1> DEFINE d == to - from
           m == IF d < 1 THEN 1 ELSE d
           k == m \div n
           w == IF k < 1 THEN 1 ELSE k
<1>1. d \in Nat /\ m \in Nat
  OBVIOUS
<1>2. k \in Nat /\ k * n <= m /\ m < k * n + n
  <2> HIDE DEF m
  <2>1. QED
    BY <1>1, Quotient
<1>3. HistogramInterval(from, to, n) = w
  <2>1. Max({1, d}) = m
    <3>1. Max({1, d}) = IF 1 < d THEN d ELSE 1
      BY <1>1, MaxOfTwo
    <3>2. QED
      BY <1>1, <3>1
  <2>2. Max({1, k}) = w
    <3>1. Max({1, k}) = IF 1 < k THEN k ELSE 1
      BY <1>2, MaxOfTwo
    <3>2. QED
      BY <1>2, <3>1
  <2>3. HistogramInterval(from, to, n) = Max({1, Max({1, d}) \div n})
    BY DEF HistogramInterval
  <2>4. QED
    BY <2>1, <2>2, <2>3
<1>4. w \in Nat \ {0} /\ (k >= 1 => w = k) /\ (k < 1 => w = 1 /\ k * n = 0)
  <2> HIDE DEF k
  <2>1. QED
    BY <1>2
<1>5. m >= d /\ (d >= 1 => m = d)
  BY <1>1
<1> HIDE DEF d, m, k, w
<1>6. d - n * w < n
  <2>1. CASE k >= 1
    <3>1. w = k /\ n * k = k * n
      BY <1>2, <1>4, <2>1
    <3>2. n * w \in Nat /\ n * w = k * n
      BY <1>2, <3>1
    <3>3. QED
      BY <1>1, <1>2, <1>5, <3>2
  <2>2. CASE k < 1
    <3>1. m < n /\ n * w = n
      BY <1>1, <1>2, <1>4, <2>2
    <3>2. QED
      BY <1>1, <1>5, <3>1
  <2>3. QED
    BY <1>2, <2>1, <2>2
<1>7. ASSUME d >= 1, d >= n PROVE n * w <= d
  <2>1. k >= 1
    BY <1>1, <1>2, <1>4, <1>5, <1>7
  <2>2. n * w = k * n /\ k * n <= d
    BY <1>1, <1>2, <1>4, <1>5, <1>7, <2>1
  <2>3. QED
    BY <2>2
<1>8. n * w \in Nat
  BY <1>4
<1>9. to > from /\ to - from >= n => from + n * w <= to
  BY <1>7, <1>8 DEF d
<1>10. QED
  BY <1>3, <1>4, <1>6, <1>9 DEF d

(* Sizes of disjoint sets add up to that of their union.                   *)
LEMMA DisjointSizes ==
    ASSUME NEW h, NEW S, IsFiniteSet(S), \A b \in S : IsFiniteSet(h[b]),
           \A a, b \in S : a # b => h[a] \cap h[b] = {},
           NEW count, \A b \in S : count[b] = Cardinality(h[b])
    PROVE  SumOn(count, S) = Cardinality(UNION {h[b] : b \in S})
<1> DEFINE Union(T) == UNION {h[b] : b \in T}
           Good(T)  == IsFiniteSet(Union(T)) /\ SumOn(count, T) = Cardinality(Union(T))
           wrong == {T \in SUBSET S : ~Good(T)}
<1>1. SUFFICES ASSUME wrong # {} PROVE FALSE
  OBVIOUS
<1>2. PICK T \in wrong : \A U \in wrong : Cardinality(T) <= Cardinality(U)
  BY <1>1, SmallestSet
<1>3. T \in SUBSET S /\ ~Good(T) /\ IsFiniteSet(T)
  BY <1>2, FS_Subset
<1>4. T # {}
  <2>1. Good({})
    <3>1. Union({}) = {}
      OBVIOUS
    <3>2. QED
      BY <3>1, SumEmpty, FS_EmptySet
  <2>2. QED
    BY <1>3, <2>1
<1>5. PICK x : x \in T
  BY <1>4
<1>6. T \ {x} \in SUBSET S /\ IsFiniteSet(T \ {x})
  BY <1>3, <1>5, FS_RemoveElement
<1>7. Union(T) = Union(T \ {x}) \union h[x] /\ Union(T \ {x}) \cap h[x] = {}
  BY <1>3, <1>5
<1>8. \A U \in SUBSET S : U \in wrong <=> ~Good(U)
  OBVIOUS
<1> HIDE DEF wrong
<1>9. Good(T \ {x})
  <2> HIDE DEF Good
  <2>1. Cardinality(T \ {x}) < Cardinality(T)
    <3>1. Cardinality(T) \in Nat /\ Cardinality(T \ {x}) = Cardinality(T) - 1
      BY <1>3, <1>5, FS_RemoveElement, FS_CardinalityType
    <3>2. QED
      BY <3>1
  <2>2. Cardinality(T) \in Nat /\ Cardinality(T \ {x}) \in Nat
    BY <1>3, <1>6, FS_CardinalityType
  <2>3. T \ {x} \notin wrong
    BY <1>2, <2>1, <2>2
  <2>4. QED
    BY <1>6, <1>8, <2>3
<1>10. SumOn(count, T) = SumOn(count, T \ {x}) + count[x] /\ count[x] = Cardinality(h[x])
  <2>1. \A b \in T : count[b] \in Nat
    BY <1>3, FS_CardinalityType
  <2>2. QED
    BY <1>3, <1>5, <2>1, SumSplit
<1>11. /\ IsFiniteSet(Union(T))
       /\ Cardinality(Union(T)) = Cardinality(Union(T \ {x})) + Cardinality(h[x])
  <2>1. IsFiniteSet(h[x]) /\ IsFiniteSet(Union(T \ {x}))
    BY <1>3, <1>5, <1>9
  <2> HIDE DEF Union, Good
  <2>2. /\ IsFiniteSet(Union(T \ {x}) \union h[x])
        /\ Cardinality(Union(T \ {x}) \union h[x]) =
             Cardinality(Union(T \ {x})) + Cardinality(h[x]) - Cardinality(Union(T \ {x}) \cap h[x])
    BY <2>1, FS_Union
  <2>3. Cardinality(Union(T \ {x}) \cap h[x]) = 0
    BY <1>7, FS_EmptySet
  <2>4. Cardinality(Union(T \ {x})) \in Nat /\ Cardinality(h[x]) \in Nat
    BY <2>1, FS_CardinalityType
  <2>5. QED
    BY <1>7, <2>2, <2>3, <2>4
<1>12. Good(T)
  <2> HIDE DEF Union
  <2>1. QED
    BY <1>9, <1>10, <1>11
<1>13. QED
  BY <1>3, <1>12

(* A histogram counts each row of its range once, but for the few after    *)
(* its last whole bucket.                                                  *)
LEMMA HistogramHolds == TqInv => HistogramMatchesSearch
<1> SUFFICES ASSUME TqInv, NEW q \in HistogramRequests
             PROVE  LET h     == log_histogram(q[1], q[2], q[3])
                        found == log_search_where_clause(q[1], q[2])
                        shown == UNION Range(h)
                        width == HistogramInterval(q[1], q[2], q[3])
                        count == [b \in DOMAIN h |-> Cardinality(h[b])]
                    IN  /\ MapThenSumSet(LAMBDA b : count[b], DOMAIN h) = Cardinality(shown)
                        /\ shown \subseteq found
                        /\ \A r \in found \ shown : r.ts >= q[1] + q[3] * width
                        /\ (q[2] - q[1]) - q[3] * width < q[3]
                        /\ q[2] > q[1] /\ q[2] - q[1] >= q[3] => q[1] + q[3] * width <= q[2]
  BY DEF HistogramMatchesSearch
<1> DEFINE from == q[1]
           to == q[2]
           n == q[3]
           h == log_histogram(from, to, n)
           found == log_search_where_clause(from, to)
           shown == UNION Range(h)
           width == HistogramInterval(from, to, n)
           count == [b \in DOMAIN h |-> Cardinality(h[b])]
           S == 0 .. (n - 1)
<1>1. from \in Nat /\ to \in Nat /\ from <= to /\ n \in Nat \ {0}
  BY QueryAssumption DEF HistogramRequests
<1>2. /\ width \in Nat \ {0} /\ (to - from) - n * width < n
      /\ to > from /\ to - from >= n => from + n * width <= to
  <2> HIDE DEF from, to, n
  <2>1. QED
    BY <1>1, IntervalFits
<1>3. /\ DOMAIN h = S /\ IsFiniteSet(S)
      /\ \A b \in S : h[b] = {r \in logs : /\ r.ts >= from /\ r.ts <= to
                                           /\ (r.ts - from) \div width = b}
  <2>1. IsFiniteSet(S)
    BY <1>1, FS_Interval
  <2>2. h = [b \in S |-> plan_log_histogram(from, to, n, b)]
    BY DEF log_histogram
  <2>3. \A b \in S : plan_log_histogram(from, to, n, b) =
                       {r \in logs : /\ r.ts >= from /\ r.ts <= to
                                     /\ (r.ts - from) \div width = b}
    BY DEF plan_log_histogram
  <2> HIDE DEF h, S, width, from, to, n
  <2>4. QED
    BY <2>1, <2>2, <2>3
<1>4. shown = UNION {h[b] : b \in S}
  BY <1>3 DEF Range
<1>5. MapThenSumSet(LAMBDA b : count[b], DOMAIN h) = SumOn(count, DOMAIN h)
  <2> HIDE DEF count, h
  <2>1. QED
    BY DEF MapThenSumSet, SumOn, FoldFunctionOnSet
<1> HIDE DEF h, width, from, to, n
<1>6. SumOn(count, DOMAIN h) = Cardinality(shown)
  <2>1. \A b \in S : IsFiniteSet(h[b])
    BY <1>3, FS_Subset DEF TqInv
  <2>2. \A a, b \in S : a # b => h[a] \cap h[b] = {}
    BY <1>3
  <2>3. \A b \in S : count[b] = Cardinality(h[b])
    BY <1>3
  <2> HIDE DEF count, S, shown
  <2>4. SumOn(count, S) = Cardinality(UNION {h[b] : b \in S})
    BY <1>3, <2>1, <2>2, <2>3, DisjointSizes
  <2>5. QED
    BY <1>3, <1>4, <2>4
<1>7. found = {r \in logs : r.ts >= from /\ r.ts <= to}
  BY DEF log_search_where_clause
<1> HIDE DEF found, count, shown
<1>8. shown \subseteq found
  BY <1>3, <1>4, <1>7
<1>9. ASSUME NEW r \in found \ shown PROVE r.ts >= from + n * width
  <2>1. r \in logs /\ r.ts \in Int /\ r.ts >= from /\ r.ts <= to
    BY <1>7, LogsAreTimed DEF Timed
  <2> DEFINE d == r.ts - from
             b == d \div width
  <2>2. d \in Nat /\ r.ts = from + d
    BY <1>1, <2>1
  <2>3. b \notin S
    BY <1>3, <1>4, <1>9, <2>1
  <2> HIDE DEF d
  <2>4. b \in Nat /\ b * width <= d
    BY <1>2, <2>2, Quotient
  <2> HIDE DEF b
  <2>5. b >= n
    BY <1>1, <2>3, <2>4
  <2>6. n * width <= b * width /\ n * width \in Nat /\ b * width \in Nat
    BY <1>1, <1>2, <2>4, <2>5
  <2>7. QED
    BY <1>1, <2>2, <2>4, <2>6
<1>10. QED
  BY <1>2, <1>5, <1>6, <1>8, <1>9 DEF h, found, shown, width, count, from, to, n

(* The playground shows the same rows, and no row more than one bucket     *)
(* late.                                                                   *)
LEMMA PlaygroundLogsHold == TqInv => PlaygroundLogsMirror
<1> SUFFICES ASSUME TqInv PROVE PlaygroundLogsMirror
  OBVIOUS
<1>1. ASSUME NEW q \in HistogramRequests
      PROVE  render_log_query_duckdb(q[1], q[2])
               = LastRows(log_search_where_clause(q[1], q[2]), PageLimit)
  BY DEF render_log_query_duckdb, log_search_where_clause
<1>2. ASSUME NEW q \in HistogramRequests, NEW b \in 0 .. MaxTime,
             NEW r \in render_log_histogram_duckdb(q[1], q[2], q[3], b)
      PROVE  r \in plan_log_histogram(q[1], q[2], q[3], b)
                     \union plan_log_histogram(q[1], q[2], q[3], b - 1)
  <2> DEFINE d == r.ts - q[1]
             w == HistogramInterval(q[1], q[2], q[3])
             k == d \div w
  <2>1. r \in logs /\ r.ts >= q[1] /\ r.ts <= q[2] /\ CastQuotient(d, w) = b
    BY <1>2 DEF render_log_histogram_duckdb
  <2>2. k \in Int /\ (CastQuotient(d, w) = k \/ CastQuotient(d, w) = k + 1)
    <3>1. q[1] \in Nat /\ q[2] \in Nat /\ q[1] <= q[2] /\ q[3] \in Nat \ {0} /\ r.ts \in Int
      BY <2>1, QueryAssumption, LogsAreTimed DEF HistogramRequests, Timed
    <3>2. d \in Nat
      BY <2>1, <3>1
    <3>3. w \in Nat \ {0}
      <4> DEFINE from == q[1]
                 to == q[2]
                 n == q[3]
      <4>1. from \in Nat /\ to \in Nat /\ from <= to /\ n \in Nat \ {0} /\ w = HistogramInterval(from, to, n)
        BY <3>1
      <4> HIDE DEF from, to, n, w
      <4>2. QED
        BY <4>1, IntervalFits
    <3> HIDE DEF d, w
    <3>4. k \in Nat
      BY <3>2, <3>3, Quotient
    <3>5. CastQuotient(d, w) = k \/ CastQuotient(d, w) = k + 1
      BY DEF CastQuotient
    <3>6. QED
      BY <3>4, <3>5
  <2>3. k = b \/ k = b - 1
    <3> HIDE DEF k
    <3>1. QED
      BY <2>1, <2>2
  <2>4. QED
    BY <2>1, <2>3 DEF plan_log_histogram
<1>3. QED
  BY <1>1, <1>2 DEF PlaygroundLogsMirror

(* The cursor, the shown rows and the counted rows stay as TqInv says      *)
(* (LogArrives, TailPolls, SearchFetches).                                 *)
LEMMA TqInvariant == TqSpec => []TqInv
<1>1. TqInit => TqInv
  BY FS_EmptySet DEF TqInit, TqInv, NoReading, PageCoversCount, ContextIsContiguous,
                            SortedByTime, IsInjective, Readings
<1>2. QED
  BY <1>1, TqStepKeeps, PTL DEF TqSpec

(* The tail, the search, the histogram, the context and the playground's   *)
(* log queries show the same rows, whatever order rows arrive in           *)
(* and between the statements of a request (tail_logs, search_logs,        *)
(* log_histogram, get_log_context).                                        *)
THEOREM LogViewsAgreeAlways == TqSpec => []AllLogViewsAgree
<1>1. TqInv => AllLogViewsAgree
  BY TailHolds, HistogramHolds, PlaygroundLogsHold
  DEF AllLogViewsAgree, LogViewsAgree, TqInv
<1>2. QED
  BY <1>1, TqInvariant, PTL

-----------------------------------------------------------------------------
(***************************************************************************)
(* Traces, topology and inventory.                                         *)
(***************************************************************************)
(* Min of two numbers, as LIMIT takes it.                                  *)
LEMMA MinOfTwo ==
    ASSUME NEW a \in Int, NEW b \in Int
    PROVE  Min({a, b}) = IF a < b THEN a ELSE b
<1>1. \E x \in {a, b} : \A y \in {a, b} : x <= y
  OBVIOUS
<1>2. Min({a, b}) \in {a, b} /\ \A y \in {a, b} : Min({a, b}) <= y
  BY <1>1 DEF Min
<1>3. QED
  BY <1>2

(* A page with LIMIT of a finite set leaves something out only when it is  *)
(* full.                                                                   *)
LEMMA LimitedPage ==
    ASSUME NEW all, IsFiniteSet(all), NEW limit \in Nat \ {0},
           NEW page \in SUBSET all, Cardinality(page) = Min({limit, Cardinality(all)})
    PROVE  /\ page # all => Cardinality(page) = limit
           /\ all # {} => page # {}
           /\ Cardinality(all) <= limit => page = all
<1>1. /\ Cardinality(all) \in Nat /\ Cardinality(page) \in Nat
      /\ page # all => Cardinality(page) < Cardinality(all)
      /\ all # {} => Cardinality(all) # 0
      /\ page = {} => Cardinality(page) = 0
  BY FS_Subset, FS_CardinalityType, FS_EmptySet
<1>2. Cardinality(page) = IF limit < Cardinality(all) THEN limit ELSE Cardinality(all)
  BY <1>1, MinOfTwo
<1>3. QED
  BY <1>1, <1>2

(* A set of pairs of rows of a finite set is finite.                       *)
LEMMA CallsAreFinite ==
    ASSUME TqInv, NEW pairs \in SUBSET (spans \X spans)
    PROVE  IsFiniteSet(pairs) /\ Cardinality(pairs) \in Nat
  BY FS_Product, FS_Subset, FS_CardinalityType DEF TqInv

(* The traces of the rows of any condition.                                *)
LEMMA TracesAreFinite ==
    ASSUME TqInv, NEW rows \in SUBSET spans
    PROVE  IsFiniteSet(TracesOf(rows)) /\ IsFiniteSet(rows)
<1>1. IsFiniteSet(rows)
  BY FS_Subset DEF TqInv
<1>2. [s \in rows |-> s.trace] \in Surjection(rows, TracesOf(rows))
  BY DEF Surjection, TracesOf
<1>3. QED
  BY <1>1, <1>2, FS_Surjection

(* Search, histogram and page of a trace tell one story.                   *)
LEMMA TracesHold == TqInv => TraceViewsAgree
<1> SUFFICES ASSUME TqInv, NEW q \in HistogramRequests
             PROVE  LET counted == trace_histogram(q[1], q[2], q[3])
                        rows    == {s \in spans : s.start >= q[1] /\ s.start <= q[2]}
                        timed(b) == UNION {get_service_response_time_history(v, q[1], q[2], q[3])[b] : v \in Services}
                    IN  /\ \A T \in plan_trace_search(q[1], q[2]) :
                             /\ \A u \in (UNION Range(counted)) \ T :
                                  /\ Cardinality(T) = PageLimit
                                  /\ \A t \in T : NewestStart(rows, t) >= NewestStart(rows, u)
                             /\ \A t \in T : \A page \in get_trace(t) :
                                  page # {} /\ \A s \in rows \ page :
                                     s.trace = t => Cardinality(page) = TraceLimit
                        /\ \A b \in DOMAIN counted : TracesOf(timed(b)) = counted[b]
  BY DEF TraceViewsAgree
<1> DEFINE counted == trace_histogram(q[1], q[2], q[3])
           rows    == {s \in spans : s.start >= q[1] /\ s.start <= q[2]}
           timed(b) == UNION {get_service_response_time_history(v, q[1], q[2], q[3])[b] : v \in Services}
           S == 0 .. (q[3] - 1)
           inBucket(b) == {s \in spans : /\ s.start >= q[1] /\ s.start <= q[2]
                                         /\ (s.start - q[1]) \div HistogramInterval(q[1], q[2], q[3]) = b}
<1>1. DOMAIN counted = S /\ \A b \in S : counted[b] = TracesOf(inBucket(b))
  BY DEF trace_histogram, plan_trace_histogram
<1>2. UNION Range(counted) \subseteq TracesOf(rows)
  <2>1. \A b \in S : counted[b] \subseteq TracesOf(rows)
    BY <1>1 DEF TracesOf
  <2> HIDE DEF counted, rows
  <2>2. QED
    BY <1>1, <2>1 DEF Range
<1>3. ASSUME NEW T \in plan_trace_search(q[1], q[2]),
             NEW u \in (UNION Range(counted)) \ T
      PROVE  Cardinality(T) = PageLimit /\ \A t \in T : NewestStart(rows, t) >= NewestStart(rows, u)
  <2>1. /\ T \in SUBSET TracesOf(rows) /\ Cardinality(T) = Min({PageLimit, Cardinality(TracesOf(rows))})
        /\ \A t \in T, v \in TracesOf(rows) \ T : NewestStart(rows, t) >= NewestStart(rows, v)
    BY <1>3 DEF plan_trace_search
  <2>2. IsFiniteSet(TracesOf(rows)) /\ u \in TracesOf(rows) \ T
    BY <1>2, <1>3, TracesAreFinite
  <2> HIDE DEF rows
  <2>3. Cardinality(T) = PageLimit
    BY <2>1, <2>2, LimitedPage, QueryAssumption
  <2>4. QED
    BY <2>1, <2>2, <2>3
<1>4. ASSUME NEW T \in plan_trace_search(q[1], q[2]), NEW t \in T, NEW page \in get_trace(t)
      PROVE  page # {} /\ \A s \in rows \ page : s.trace = t => Cardinality(page) = TraceLimit
  <2> DEFINE all == {s \in spans : s.trace = t}
  <2>1. page \in SUBSET all /\ Cardinality(page) = Min({TraceLimit, Cardinality(all)})
    BY DEF get_trace
  <2>2. IsFiniteSet(all)
    BY TracesAreFinite
  <2>3. T \subseteq TracesOf(rows)
    BY DEF plan_trace_search
  <2>4. all # {}
    BY <2>3 DEF TracesOf
  <2>5. \A s \in rows \ page : s.trace = t => s \in all \ page
    OBVIOUS
  <2> HIDE DEF all, rows
  <2>6. page # {} /\ (page # all => Cardinality(page) = TraceLimit)
    BY <2>1, <2>2, <2>4, LimitedPage, QueryAssumption
  <2>7. QED
    BY <2>5, <2>6
<1>5. ASSUME NEW b \in S PROVE TracesOf(timed(b)) = counted[b]
  <2>1. \A v \in Services : get_service_response_time_history(v, q[1], q[2], q[3])[b]
                              = {s \in inBucket(b) : s.service = v}
    BY <1>5 DEF get_service_response_time_history, plan_response_time_histogram
  <2>2. \A s \in inBucket(b) : s.service \in Services
    BY DEF TqInv, Services
  <2>3. timed(b) = inBucket(b)
    BY <2>1, <2>2
  <2>4. QED
    BY <1>1, <2>3
<1>6. QED
  BY <1>1, <1>3, <1>4, <1>5

(* What the two branches say of a pair of services.                        *)
LEMMA EdgeCounts ==
    ASSUME TqInv, NEW from, NEW caller, NEW callee
    PROVE  LET edge     == plan_topology(from, caller, callee)
               called   == Between(CallPairs(from), caller, callee)
               together == Between(CooccurrencePairs(from), caller, callee)
           IN  /\ edge.requests \in Nat /\ edge.errors \in Nat
               /\ Cardinality(called) <= edge.requests
               /\ Cardinality(Failing(called)) <= edge.errors
               /\ edge.errors > 0 => Failing(called) # {} \/ Failing(together) # {}
<1> DEFINE edge     == plan_topology(from, caller, callee)
           called   == Between(CallPairs(from), caller, callee)
           together == Between(CooccurrencePairs(from), caller, callee)
           a == Cardinality(called)
           b == Cardinality(together)
           x == Cardinality(Failing(called))
           y == Cardinality(Failing(together))
<1>1. called \in SUBSET (spans \X spans) /\ together \in SUBSET (spans \X spans)
  BY DEF Between, CallPairs, CooccurrencePairs
<1>2. Failing(called) \subseteq called /\ Failing(together) \subseteq together
  BY DEF Failing
<1>3. /\ IsFiniteSet(called) /\ IsFiniteSet(together)
      /\ IsFiniteSet(Failing(called)) /\ IsFiniteSet(Failing(together))
  <2> HIDE DEF called, together
  <2>1. QED
    BY <1>1, <1>2, CallsAreFinite, FS_Subset
<1>4. /\ a \in Nat /\ b \in Nat /\ x \in Nat /\ y \in Nat
      /\ (Failing(called) = {} => x = 0) /\ (Failing(together) = {} => y = 0)
  <2> HIDE DEF called, together
  <2>1. QED
    BY <1>3, FS_CardinalityType, FS_EmptySet
<1>5. edge.requests = Max({a, b}) /\ edge.errors = Max({x, y})
  BY DEF plan_topology
<1> HIDE DEF a, b, x, y, called, together, edge
<1>6. edge.requests = (IF a < b THEN b ELSE a) /\ edge.errors = (IF x < y THEN y ELSE x)
  BY <1>4, <1>5, MaxOfTwo
<1>7. /\ edge.requests \in Nat /\ edge.errors \in Nat /\ a <= edge.requests /\ x <= edge.errors
      /\ edge.errors > 0 => Failing(called) # {} \/ Failing(together) # {}
  BY <1>4, <1>6
<1>8. QED
  BY <1>7 DEF a, x, called, together, edge

(* Of each pair of a branch, the callee's span is from the window, so the  *)
(* trace is one that a search of the window knows.                         *)
LEMMA PairsAreFound ==
    ASSUME TqInv, NEW from \in 0 .. MaxTime, NEW p \in CallPairs(from) \union CooccurrencePairs(from)
    PROVE  /\ p[1] \in spans /\ p[2] \in spans /\ p[1].trace = p[2].trace
           /\ p[2].start >= from /\ p[2].start <= MaxTime
<1>1. p[1] \in spans /\ p[2] \in spans /\ p[1].trace = p[2].trace
  BY DEF CallPairs, CooccurrencePairs
<1>2. p[1].start \in 0 .. MaxTime /\ p[2].start \in 0 .. MaxTime
  BY <1>1, QueryAssumption DEF TqInv
<1>3. p[2].start >= from \/ (p[1].start <= p[2].start /\ p[1].start >= from)
  BY DEF CallPairs, CooccurrencePairs
<1>4. QED
  BY <1>1, <1>2, <1>3, QueryAssumption

(* Edges come from traces of the window, and the traces of the window      *)
(* leave their edges.                                                      *)
LEMMA TopologyHolds == TqInv => TopologyIsBacked
<1> SUFFICES ASSUME TqInv, NEW from \in 0 .. MaxTime
             PROVE  /\ \A e \in TopologyEdges(from) :
                         /\ \A T \in plan_trace_search(from, MaxTime) :
                              \/ Cardinality(T) = PageLimit
                              \/ \E t \in T : {e[1], e[2]} \subseteq
                                                {s.service : s \in {x \in spans : x.trace = t}}
                         /\ plan_topology(from, e[1], e[2]).errors > 0 =>
                              \E s \in spans : s.service = e[2] /\ s.error /\ s.start >= from
                    /\ \A s, o \in {x \in spans : x.start >= from} :
                         s.trace = o.trace /\ s.service # o.service =>
                           {<<s.service, o.service>>, <<o.service, s.service>>} \cap TopologyEdges(from) # {}
  BY DEF TopologyIsBacked
<1>1. ASSUME NEW e \in TopologyEdges(from), NEW T \in plan_trace_search(from, MaxTime),
             Cardinality(T) # PageLimit
      PROVE  \E t \in T : {e[1], e[2]} \subseteq {s.service : s \in {x \in spans : x.trace = t}}
  <2> DEFINE rows == {s \in spans : s.start >= from /\ s.start <= MaxTime}
  <2>1. T \in SUBSET TracesOf(rows) /\ Cardinality(T) = Min({PageLimit, Cardinality(TracesOf(rows))})
    BY DEF plan_trace_search
  <2>2. IsFiniteSet(TracesOf(rows))
    BY TracesAreFinite
  <2>3. T = TracesOf(rows)
    <3> HIDE DEF rows
    <3>1. QED
      BY <1>1, <2>1, <2>2, LimitedPage, QueryAssumption
  <2>4. PICK p \in CallPairs(from) \union CooccurrencePairs(from) :
          p[1].service = e[1] /\ p[2].service = e[2]
    BY DEF TopologyEdges, Between
  <2>5. p[2].trace \in T
    BY <2>3, <2>4, PairsAreFound DEF TracesOf
  <2>6. {e[1], e[2]} \subseteq {s.service : s \in {x \in spans : x.trace = p[2].trace}}
    BY <2>4, PairsAreFound
  <2>7. QED
    BY <2>5, <2>6
<1>2. ASSUME NEW e \in TopologyEdges(from), plan_topology(from, e[1], e[2]).errors > 0
      PROVE  \E s \in spans : s.service = e[2] /\ s.error /\ s.start >= from
  <2>1. PICK p \in CallPairs(from) \union CooccurrencePairs(from) :
          p[2].service = e[2] /\ p[2].error
    <3>1. \/ Failing(Between(CallPairs(from), e[1], e[2])) # {}
          \/ Failing(Between(CooccurrencePairs(from), e[1], e[2])) # {}
      BY <1>2, EdgeCounts
    <3>2. QED
      BY <3>1 DEF Failing, Between
  <2>2. QED
    BY <2>1, PairsAreFound
<1>3. ASSUME NEW s \in spans, NEW o \in spans, s.start >= from, o.start >= from,
             s.trace = o.trace, s.service # o.service
      PROVE  \/ <<s.service, o.service>> \in TopologyEdges(from)
             \/ <<o.service, s.service>> \in TopologyEdges(from)
  <2>1. s.service \in Services /\ o.service \in Services
    BY DEF Services, TqInv
  <2>2. s.start \in 0 .. MaxTime /\ o.start \in 0 .. MaxTime
    BY QueryAssumption DEF TqInv
  <2>3. <<s, o>> \in CooccurrencePairs(from) \/ <<o, s>> \in CooccurrencePairs(from)
    BY <1>3, <2>2 DEF CooccurrencePairs
  <2>4. CASE <<s, o>> \in CooccurrencePairs(from)
    <3>1. <<s, o>> \in Between(CallPairs(from) \union CooccurrencePairs(from), s.service, o.service)
      BY <2>4 DEF Between
    <3>2. QED
      BY <2>1, <3>1 DEF TopologyEdges
  <2>5. CASE <<o, s>> \in CooccurrencePairs(from)
    <3>1. <<o, s>> \in Between(CallPairs(from) \union CooccurrencePairs(from), o.service, s.service)
      BY <2>5 DEF Between
    <3>2. QED
      BY <2>1, <3>1 DEF TopologyEdges
  <2>6. QED
    BY <2>3, <2>4, <2>5
<1>4. QED
  BY <1>1, <1>2, <1>3

(* Two names one after the other.                                          *)
LEMMA JoinedNames ==
    ASSUME NEW s \in Seq(STRING), NEW t \in Seq(STRING)
    PROVE  /\ s \o t \in Seq(STRING) /\ Len(s \o t) = Len(s) + Len(t)
           /\ Len(s) \in Nat /\ Len(t) \in Nat
           /\ \A i \in DOMAIN s : (s \o t)[i] = s[i]
           /\ \A i \in DOMAIN t : (s \o t)[Len(s) + i] = t[i]
  BY ConcatRows

(* Two paths whose first parts have one length are equal only part by part. *)
LEMMA PartsCancel ==
    ASSUME NEW s \in Seq(STRING), NEW t \in Seq(STRING), NEW u \in Seq(STRING), NEW v \in Seq(STRING),
           Len(s) = Len(u), s \o t = u \o v
    PROVE  s = u /\ t = v
<1>1. \A i \in DOMAIN s : (s \o t)[i] = s[i]
  BY JoinedNames, Zenon
<1>2. \A i \in DOMAIN u : (u \o v)[i] = u[i]
  BY JoinedNames, Zenon
<1>3. \A i \in DOMAIN t : (s \o t)[Len(s) + i] = t[i]
  BY JoinedNames, Zenon
<1>4. \A i \in DOMAIN v : (u \o v)[Len(u) + i] = v[i]
  BY JoinedNames, Zenon
<1>5. Len(t) = Len(v)
  <2>1. Len(s \o t) = Len(s) + Len(t)
    BY JoinedNames, Zenon
  <2>2. Len(u \o v) = Len(u) + Len(v)
    BY JoinedNames, Zenon
  <2>3. Len(s) \in Nat /\ Len(t) \in Nat /\ Len(v) \in Nat
    BY JoinedNames, Zenon
  <2>4. QED
    BY <2>1, <2>2, <2>3
<1>6. DOMAIN s = DOMAIN u /\ DOMAIN t = DOMAIN v
  BY <1>5
<1>7. \A i \in DOMAIN s : s[i] = u[i]
  BY <1>1, <1>2, <1>6
<1>8. \A i \in DOMAIN t : t[i] = v[i]
  BY <1>3, <1>4, <1>6
<1>9. QED
  BY <1>6, <1>7, <1>8

(* A path of names that are all there and plain is that of no other names, *)
(* unless one of them holds a slash.                                       *)
LEMMA PathsDiffer ==
    ASSUME NEW p \in [1..4 -> Seq(STRING)], NEW q \in [1..4 -> Seq(STRING)],
           \A i \in 1..4 : Len(p[i]) = 1 /\ Len(q[i]) <= 1
    PROVE  /\ p[1] \o p[2] \o p[4] = q[1] \o q[2] \o q[4] => p[1] = q[1] /\ p[2] = q[2] /\ p[4] = q[4]
           /\ p[1] \o p[2] \o p[3] \o p[4] = q[1] \o q[2] \o q[3] \o q[4] =>
                p[1] = q[1] /\ p[2] = q[2] /\ p[3] = q[3] /\ p[4] = q[4]
<1>1. PICK a \in Seq(STRING), b \in Seq(STRING), c \in Seq(STRING), e \in Seq(STRING) :
        a = p[1] /\ b = p[2] /\ c = p[3] /\ e = p[4]
  OBVIOUS
<1>2. PICK x \in Seq(STRING), y \in Seq(STRING), z \in Seq(STRING), w \in Seq(STRING) :
        x = q[1] /\ y = q[2] /\ z = q[3] /\ w = q[4]
  OBVIOUS
<1>3. /\ Len(a) = 1 /\ Len(b) = 1 /\ Len(c) = 1 /\ Len(e) = 1
      /\ Len(x) <= 1 /\ Len(y) <= 1 /\ Len(z) <= 1 /\ Len(w) <= 1
  BY <1>1, <1>2
<1>4. /\ Len(x) \in Nat /\ Len(y) \in Nat /\ Len(z) \in Nat /\ Len(w) \in Nat
      /\ a \o b \in Seq(STRING) /\ x \o y \in Seq(STRING)
      /\ Len(a \o b) = 2 /\ Len(x \o y) = Len(x) + Len(y)
  <2>1. a \o b \in Seq(STRING) /\ Len(a \o b) = Len(a) + Len(b)
    BY JoinedNames, Zenon
  <2>2. x \o y \in Seq(STRING) /\ Len(x \o y) = Len(x) + Len(y)
    BY JoinedNames, Zenon
  <2>3. QED
    BY <1>3, <2>1, <2>2
<1>5. /\ a \o b \o c \in Seq(STRING) /\ x \o y \o z \in Seq(STRING)
      /\ Len(a \o b \o c) = 3 /\ Len(x \o y \o z) = Len(x) + Len(y) + Len(z)
  BY <1>4, <1>3, JoinedNames
<1>6. ASSUME a \o b = x \o y PROVE a = x /\ b = y
  <2>1. Len(x) + Len(y) = 2
    BY <1>4, <1>6
  <2>2. Len(a) = Len(x)
    BY <1>4, <1>3, <2>1
  <2>3. QED
    BY <1>6, <2>2, PartsCancel, Zenon
<1>7. ASSUME a \o b \o e = x \o y \o w PROVE a = x /\ b = y /\ e = w
  <2>1. Len(a \o b \o e) = 3 /\ Len(x \o y \o w) = Len(x) + Len(y) + Len(w)
    BY <1>4, <1>3, JoinedNames
  <2>2. Len(a \o b) = Len(x \o y)
    BY <1>4, <1>7, <2>1, <1>3
  <2>3. a \o b = x \o y /\ e = w
    BY <1>4, <1>7, <2>2, PartsCancel, Zenon
  <2>4. QED
    BY <1>6, <2>3
<1>8. ASSUME a \o b \o c = x \o y \o z PROVE a = x /\ b = y /\ c = z
  <2>1. Len(a \o b) = Len(x \o y)
    BY <1>4, <1>5, <1>8, <1>3
  <2>2. a \o b = x \o y /\ c = z
    BY <1>4, <1>8, <2>1, PartsCancel, Zenon
  <2>3. QED
    BY <1>6, <2>2
<1>9. ASSUME a \o b \o c \o e = x \o y \o z \o w PROVE a = x /\ b = y /\ c = z /\ e = w
  <2>1. Len(a \o b \o c \o e) = 4 /\ Len(x \o y \o z \o w) = Len(x) + Len(y) + Len(z) + Len(w)
    BY <1>5, <1>3, JoinedNames
  <2>2. Len(a \o b \o c) = Len(x \o y \o z)
    BY <1>4, <1>5, <1>9, <2>1, <1>3
  <2>3. PICK s \in Seq(STRING), t \in Seq(STRING) : s = a \o b \o c /\ t = x \o y \o z
    BY <1>5
  <2>4. Len(s) = Len(t) /\ s \o e = t \o w
    BY <1>9, <2>2, <2>3
  <2>5. s = t /\ e = w
    BY <2>4, PartsCancel, Zenon
  <2>6. QED
    BY <1>8, <2>3, <2>5
<1>10. QED
  BY <1>1, <1>2, <1>7, <1>9

(* The names of a workload, the whole before its parts.                    *)
PathOf(row) ==
  [i \in 1..4 |-> IF i = 1 THEN row.cluster ELSE IF i = 2 THEN row.namespace
                  ELSE IF i = 3 THEN row.pod ELSE row.entity]

(* The id of a workload with all its names, all plain, belongs to one row, *)
(* or another row of that id has a name with a slash.                      *)
LEMMA WorkloadsHold == TqInv => WorkloadsOpen
<1> SUFFICES ASSUME TqInv, NEW type \in {"pod", "container"},
                    NEW row \in fetch_infrastructure_summaries(type),
                    Plain(row.cluster), Plain(row.namespace), Plain(row.pod), Plain(row.entity)
             PROVE  LET id == infrastructure_identity(type, row)
                    IN  /\ id \in list_infrastructure_inventory(type)
                        /\ \/ get_infrastructure_detail(type, id)
                           \/ \E other \in fetch_infrastructure_summaries(type) \ {row} :
                                /\ infrastructure_identity(type, other) = id
                                /\ \E name \in {other.cluster, other.namespace, other.pod, other.entity} :
                                     Len(name) > 1
  BY DEF WorkloadsOpen
<1> DEFINE id == infrastructure_identity(type, row)
           rows == fetch_infrastructure_summaries(type)
<1>1. id \in list_infrastructure_inventory(type)
  BY DEF list_infrastructure_inventory
<1>2. ASSUME NEW r \in rows
      PROVE  /\ r = [cluster |-> r.cluster, namespace |-> r.namespace, pod |-> r.pod, entity |-> r.entity]
             /\ {r.cluster, r.namespace, r.pod, r.entity} \subseteq Seq(STRING)
             /\ type = "pod" => r.entity = r.pod
             /\ \A name \in {r.cluster, r.namespace, r.pod, r.entity} : Len(name) \in Nat
  <2>1. PICK s \in spans : r = [cluster |-> s.cluster, namespace |-> s.namespace, pod |-> s.pod,
                                entity |-> attribute_sql_expr(type, s)]
    BY DEF fetch_infrastructure_summaries
  <2>2. attribute_sql_expr(type, s) = IF type = "pod" THEN s.pod ELSE s.container
    BY DEF attribute_sql_expr
  <2>3. {s.cluster, s.namespace, s.pod, s.container} \subseteq Seq(STRING)
    BY QueryAssumption DEF TqInv
  <2>4. {r.cluster, r.namespace, r.pod, r.entity} \subseteq Seq(STRING)
    BY <2>1, <2>2, <2>3
  <2>5. \A name \in Seq(STRING) : Len(name) \in Nat
    OBVIOUS
  <2>6. QED
    BY <2>1, <2>2, <2>4, <2>5
<1>3. ASSUME NEW other \in rows, infrastructure_identity(type, other) = id,
             \A name \in {other.cluster, other.namespace, other.pod, other.entity} : Len(name) <= 1
      PROVE  other = row
  <2>1. /\ {other.cluster, other.namespace, other.pod, other.entity} \subseteq Seq(STRING)
        /\ {row.cluster, row.namespace, row.pod, row.entity} \subseteq Seq(STRING)
    BY <1>2
  <2>2. /\ Len(row.cluster) = 1 /\ Len(row.namespace) = 1 /\ Len(row.pod) = 1 /\ Len(row.entity) = 1
        /\ Len(other.cluster) <= 1 /\ Len(other.namespace) <= 1 /\ Len(other.pod) <= 1
        /\ Len(other.entity) <= 1
    BY <1>3 DEF Plain
  <2>3. /\ row.cluster \o row.namespace \o row.entity = other.cluster \o other.namespace \o other.entity
             => /\ row.cluster = other.cluster /\ row.namespace = other.namespace
                /\ row.entity = other.entity
        /\ row.cluster \o row.namespace \o row.pod \o row.entity
               = other.cluster \o other.namespace \o other.pod \o other.entity
             => /\ row.cluster = other.cluster /\ row.namespace = other.namespace
                /\ row.pod = other.pod /\ row.entity = other.entity
    <3>1. /\ row.cluster \in Seq(STRING) /\ row.namespace \in Seq(STRING) /\ row.pod \in Seq(STRING)
          /\ row.entity \in Seq(STRING)
          /\ other.cluster \in Seq(STRING) /\ other.namespace \in Seq(STRING)
          /\ other.pod \in Seq(STRING) /\ other.entity \in Seq(STRING)
      BY <2>1
    <3>2. /\ PathOf(row) \in [1..4 -> Seq(STRING)] /\ PathOf(row)[1] = row.cluster
          /\ PathOf(row)[2] = row.namespace /\ PathOf(row)[3] = row.pod /\ PathOf(row)[4] = row.entity
      BY <3>1 DEF PathOf
    <3>3. /\ PathOf(other) \in [1..4 -> Seq(STRING)] /\ PathOf(other)[1] = other.cluster
          /\ PathOf(other)[2] = other.namespace /\ PathOf(other)[3] = other.pod
          /\ PathOf(other)[4] = other.entity
      BY <3>1 DEF PathOf
    <3>4. PICK p \in [1..4 -> Seq(STRING)], q \in [1..4 -> Seq(STRING)] : p = PathOf(row) /\ q = PathOf(other)
      BY <3>2, <3>3
    <3>5. \A i \in 1..4 : Len(p[i]) = 1 /\ Len(q[i]) <= 1
      <4>1. \A i \in 1..4 : i = 1 \/ i = 2 \/ i = 3 \/ i = 4
        OBVIOUS
      <4>2. QED
        BY <2>2, <3>2, <3>3, <3>4, <4>1
    <3>6. /\ p[1] \o p[2] \o p[4] = q[1] \o q[2] \o q[4] => p[1] = q[1] /\ p[2] = q[2] /\ p[4] = q[4]
          /\ p[1] \o p[2] \o p[3] \o p[4] = q[1] \o q[2] \o q[3] \o q[4] =>
               p[1] = q[1] /\ p[2] = q[2] /\ p[3] = q[3] /\ p[4] = q[4]
      BY <3>5, PathsDiffer, Zenon
    <3>7. QED
      BY <3>2, <3>3, <3>4, <3>6
  <2>4. CASE type = "pod"
    <3>1. row.cluster \o row.namespace \o row.entity = other.cluster \o other.namespace \o other.entity
      BY <1>3, <2>4 DEF infrastructure_identity
    <3>2. QED
      BY <1>2, <2>3, <2>4, <3>1
  <2>5. CASE type = "container"
    <3>1. row.cluster \o row.namespace \o row.pod \o row.entity
            = other.cluster \o other.namespace \o other.pod \o other.entity
      BY <1>3, <2>5 DEF infrastructure_identity
    <3>2. QED
      BY <1>2, <2>3, <3>1
  <2>6. QED
    BY <2>4, <2>5
<1>4. CASE \E other \in rows \ {row} : infrastructure_identity(type, other) = id
  <2>1. PICK other \in rows \ {row} : infrastructure_identity(type, other) = id
    BY <1>4
  <2>2. \E name \in {other.cluster, other.namespace, other.pod, other.entity} : ~ (Len(name) <= 1)
    BY <1>3, <2>1
  <2>3. \E name \in {other.cluster, other.namespace, other.pod, other.entity} : Len(name) > 1
    BY <1>2, <2>1, <2>2
  <2>4. QED
    BY <1>1, <2>1, <2>3
<1>5. CASE ~ \E other \in rows \ {row} : infrastructure_identity(type, other) = id
  <2>1. {r \in rows : infrastructure_identity(type, r) = id} = {row}
    BY <1>5
  <2>2. get_infrastructure_detail(type, id)
    BY <2>1, FS_Singleton DEF get_infrastructure_detail
  <2>3. QED
    BY <1>1, <2>2
<1>6. QED
  BY <1>4, <1>5

(* Each failed call that the playground draws is a failed span of the      *)
(* callee.                                                                 *)
LEMMA FailedCallsAreSpans ==
    ASSUME TqInv, NEW from, NEW pairs \in SUBSET CallPairs(from), NEW rows \in SUBSET spans,
           \A p \in pairs : p[2] \in rows
    PROVE  Cardinality(Failing(pairs)) <= Cardinality({s \in rows : s.error})
<1> DEFINE failed == {s \in rows : s.error}
           hit    == {s \in failed : \E p \in Failing(pairs) : p[2] = s}
           f      == [p \in Failing(pairs) |-> p[2]]
<1>1. \A p \in Failing(pairs) :
        p \in spans \X spans /\ p[2].parent = p[1].id /\ p[2].trace = p[1].trace
  BY DEF Failing, CallPairs
<1>2. \A p \in Failing(pairs) : p[2] \in hit
  <2>1. \A p \in Failing(pairs) : p[2] \in failed
    BY DEF Failing
  <2> HIDE DEF failed
  <2>2. QED
    BY <2>1
<1>3. \A p, o \in Failing(pairs) : p[2] = o[2] => p = o
  <2>1. \A p, o \in Failing(pairs) : p[2] = o[2] => p[1] = o[1]
    <3>1. \A s, o \in spans : s.trace = o.trace /\ s.id = o.id => s = o
      BY QueryAssumption DEF TqInv
    <3>2. QED
      BY <1>1, <3>1
  <2>2. \A p \in Failing(pairs) : p = <<p[1], p[2]>>
    BY <1>1
  <2>3. QED
    BY <2>1, <2>2
<1>4. IsFiniteSet(failed) /\ IsFiniteSet(Failing(pairs)) /\ hit \subseteq failed
  <2>1. failed \in SUBSET spans /\ Failing(pairs) \in SUBSET (spans \X spans)
    BY <1>1
  <2> HIDE DEF failed
  <2>2. QED
    BY <2>1, CallsAreFinite, FS_Subset DEF TqInv
<1> HIDE DEF failed
<1>5. f \in Surjection(Failing(pairs), hit) /\ f \in Injection(Failing(pairs), hit)
  BY <1>2, <1>3 DEF Surjection, Injection, IsInjective
<1>6. Cardinality(hit) = Cardinality(Failing(pairs)) /\ Cardinality(hit) <= Cardinality(failed)
  <2> HIDE DEF hit, f
  <2>1. QED
    BY <1>4, <1>5, FS_Surjection, FS_Subset
<1>7. QED
  BY <1>6 DEF failed

(* The playground draws no call, finds no trace and times no span that     *)
(* production does not.                                                    *)
LEMMA PlaygroundSpansHold == TqInv => PlaygroundSpansMirror
<1> SUFFICES ASSUME TqInv, NEW q \in HistogramRequests
             PROVE  /\ \A caller, callee \in Services :
                         LET edge == render_topology_duckdb(q[1], q[2], caller, callee)
                         IN  edge.requests > 0 =>
                               /\ <<caller, callee>> \in TopologyEdges(q[1])
                               /\ edge.requests <= plan_topology(q[1], caller, callee).requests
                               /\ edge.errors <= plan_topology(q[1], caller, callee).errors
                               /\ edge.errors <= render_service_summary_duckdb(callee, q[1], q[2]).errors
                    /\ \A page \in render_trace_query_duckdb(q[1], q[2]) :
                         \/ Cardinality(TracesOf(spans)) > PageLimit
                         \/ \A T \in plan_trace_search(q[1], q[2]) : TracesOf(page) \subseteq T
                    /\ \A b \in 0 .. MaxTime :
                         render_trace_histogram_duckdb(q[1], q[2], q[3], b)
                           = TracesOf(UNION {render_response_time_histogram_duckdb(s, q[1], q[2], q[3], b) :
                                               s \in Services})
  BY DEF PlaygroundSpansMirror
<1>1. ASSUME NEW caller \in Services, NEW callee \in Services,
             render_topology_duckdb(q[1], q[2], caller, callee).requests > 0
      PROVE  LET edge == render_topology_duckdb(q[1], q[2], caller, callee)
             IN  /\ <<caller, callee>> \in TopologyEdges(q[1])
                 /\ edge.requests <= plan_topology(q[1], caller, callee).requests
                 /\ edge.errors <= plan_topology(q[1], caller, callee).errors
                 /\ edge.errors <= render_service_summary_duckdb(callee, q[1], q[2]).errors
  <2> DEFINE called == Between(CallPairs(q[1]), caller, callee)
             pairs  == {p \in called : p[2].start <= q[2]}
             rows   == {s \in spans : s.service = callee /\ s.start >= q[1] /\ s.start <= q[2]}
             edge   == render_topology_duckdb(q[1], q[2], caller, callee)
             whole  == plan_topology(q[1], caller, callee)
  <2>1. edge.requests = Cardinality(pairs) /\ edge.errors = Cardinality(Failing(pairs))
    BY DEF render_topology_duckdb
  <2>2. render_service_summary_duckdb(callee, q[1], q[2]).errors = Cardinality({s \in rows : s.error})
    BY DEF render_service_summary_duckdb
  <2>3. Cardinality(Failing(pairs)) <= Cardinality({s \in rows : s.error})
    <3>1. /\ pairs \in SUBSET CallPairs(q[1]) /\ rows \in SUBSET spans
          /\ \A p \in pairs : p[2] \in rows
      BY DEF Between, CallPairs
    <3> HIDE DEF pairs, rows
    <3>2. QED
      BY <3>1, FailedCallsAreSpans
  <2>4. Cardinality(called) <= whole.requests /\ Cardinality(Failing(called)) <= whole.errors
        /\ whole.requests \in Nat /\ whole.errors \in Nat
    BY EdgeCounts
  <2>5. /\ called \in SUBSET (spans \X spans) /\ pairs \subseteq called
        /\ Failing(called) \in SUBSET (spans \X spans) /\ Failing(pairs) \subseteq Failing(called)
    BY DEF Between, CallPairs, Failing
  <2>6. called \subseteq Between(CallPairs(q[1]) \union CooccurrencePairs(q[1]), caller, callee)
    BY DEF Between
  <2> HIDE DEF called, pairs, rows, edge, whole
  <2>7. /\ Cardinality(pairs) \in Nat /\ Cardinality(pairs) <= Cardinality(called)
        /\ Cardinality(called) \in Nat /\ Cardinality(Failing(called)) \in Nat
        /\ Cardinality(Failing(pairs)) \in Nat
        /\ Cardinality(Failing(pairs)) <= Cardinality(Failing(called))
    BY <2>5, CallsAreFinite, FS_Subset, FS_CardinalityType
  <2>8. pairs # {}
    BY <1>1, <2>1, FS_EmptySet DEF edge
  <2>9. <<caller, callee>> \in TopologyEdges(q[1])
    BY <2>5, <2>6, <2>8 DEF TopologyEdges
  <2>10. edge.requests <= whole.requests /\ edge.errors <= whole.errors
    BY <2>1, <2>4, <2>7
  <2>11. QED
    BY <2>1, <2>2, <2>3, <2>9, <2>10 DEF edge, whole
<1>2. ASSUME NEW page \in render_trace_query_duckdb(q[1], q[2]),
             ~ (Cardinality(TracesOf(spans)) > PageLimit),
             NEW T \in plan_trace_search(q[1], q[2])
      PROVE  TracesOf(page) \subseteq T
  <2> DEFINE rows == {s \in spans : s.start >= q[1] /\ s.start <= q[2]}
             all  == TracesOf(rows)
  <2>1. T \in SUBSET all /\ Cardinality(T) = Min({PageLimit, Cardinality(all)})
    BY DEF plan_trace_search
  <2>2. page \subseteq rows
    BY DEF render_trace_query_duckdb
  <2>3. TracesOf(page) \subseteq all /\ all \subseteq TracesOf(spans)
    BY <2>2 DEF TracesOf
  <2>4. IsFiniteSet(all) /\ IsFiniteSet(TracesOf(spans))
    BY TracesAreFinite
  <2> HIDE DEF all
  <2>5. Cardinality(all) <= PageLimit
    BY <1>2, <2>3, <2>4, FS_Subset, FS_CardinalityType, QueryAssumption
  <2>6. T = all
    BY <2>1, <2>4, <2>5, LimitedPage, QueryAssumption
  <2>7. QED
    BY <2>3, <2>6
<1>3. ASSUME NEW b \in 0 .. MaxTime
      PROVE  render_trace_histogram_duckdb(q[1], q[2], q[3], b)
               = TracesOf(UNION {render_response_time_histogram_duckdb(s, q[1], q[2], q[3], b) :
                                   s \in Services})
  <2> DEFINE inBucket == {s \in spans : /\ s.start >= q[1] /\ s.start <= q[2]
                                        /\ CastQuotient(s.start - q[1], HistogramInterval(q[1], q[2], q[3])) = b}
  <2>1. \A v \in Services : render_response_time_histogram_duckdb(v, q[1], q[2], q[3], b)
                              = {s \in inBucket : s.service = v}
    BY DEF render_response_time_histogram_duckdb
  <2>2. \A s \in inBucket : s.service \in Services
    BY DEF TqInv, Services
  <2>3. UNION {render_response_time_histogram_duckdb(s, q[1], q[2], q[3], b) : s \in Services} = inBucket
    BY <2>1, <2>2
  <2>4. QED
    BY <2>3 DEF render_trace_histogram_duckdb
<1>4. QED
  BY <1>1, <1>2, <1>3

(* Traces, topology and the inventory agree, in production and in the      *)
(* playground, however the rows arrived and whatever slashes their names   *)
(* hold (SpanArrives, plan_topology, infrastructure_identity).             *)
THEOREM SpanViewsAgreeAlways == TqSpec => []AllSpanViewsAgree
<1>1. TqInv => AllSpanViewsAgree
  BY TracesHold, TopologyHolds, WorkloadsHold, PlaygroundSpansHold DEF AllSpanViewsAgree, SpanViewsAgree
<1>2. QED
  BY <1>1, TqInvariant, PTL

-----------------------------------------------------------------------------
(***************************************************************************)
(* Metrics: the tables, the catalog, the charts and the rates.             *)
(***************************************************************************)
(* The values of a function on a finite set are finitely many.             *)
LEMMA ImageIsFinite ==
    ASSUME NEW f, NEW S, IsFiniteSet(S)
    PROVE  IsFiniteSet({f[x] : x \in S})
<1> DEFINE T == {f[x] : x \in S}
           g == [x \in S |-> f[x]]
<1>1. g \in Surjection(S, T)
  BY DEF Surjection
<1>2. QED
  BY <1>1, FS_Surjection

(* A block of a batch holds a row for every sorting key of the batch.      *)
LEMMA BlockHoldsKeys ==
    ASSUME MetricAssumption, NEW b \in DOMAIN MetricBatches,
           NEW block \in BlocksOf(MetricBatches[b].series)
    PROVE  /\ block \subseteq MetricBatches[b].series
           /\ \A s \in MetricBatches[b].series : \E o \in block : SeriesOf[o].key = SeriesOf[s].key
<1>1. block \subseteq MetricBatches[b].series
  BY DEF BlocksOf
<1>2. ASSUME NEW s \in MetricBatches[b].series
      PROVE  \E o \in block : SeriesOf[o].key = SeriesOf[s].key
  <2>1. PICK alike : alike = {k \in block : SeriesOf[k].key = SeriesOf[s].key}
    OBVIOUS
  <2>2. Cardinality(alike) = 1
    BY <2>1 DEF BlocksOf
  <2>3. alike # {}
    <3>1. Cardinality({}) = 0
      BY FS_EmptySet, Zenon
    <3>2. Cardinality(alike) # 0
      BY <2>2
    <3>3. QED
      BY <3>1, <3>2, Zenon
  <2>4. QED
    BY <2>1, <2>3
<1>3. QED
  BY <1>1, <1>2

\* The parts after two neighbours, the one at i and the next, have become one.
MergedAt(old, i, one) == SubSeq(old, 1, i - 1) \o <<one>> \o SubSeq(old, i + 2, Len(old))

\* The parts at i and the next replaced by one, the other parts in their order.
AreMerged(new, old, i, one) ==
    /\ Len(new) = Len(old) - 1
    /\ \A j \in 1 .. Len(new) :
         /\ j < i => new[j] = old[j]
         /\ j = i => new[j] = one
         /\ j > i => new[j] = old[j + 1]

(* The merge keeps the other parts, in their order.                        *)
LEMMA MergedParts ==
    ASSUME NEW T, NEW old \in Seq(T), NEW i \in 1 .. (Len(old) - 1), NEW one \in T,
           NEW new, new = MergedAt(old, i, one)
    PROVE  new \in Seq(T) /\ AreMerged(new, old, i, one)
<1>1. /\ Len(old) \in Nat /\ i \in Nat /\ i >= 1 /\ i + 1 <= Len(old)
      /\ \A j \in 1 .. Len(old) : old[j] \in T
  BY LenProperties
<1>2. PICK a : a = SubSeq(old, 1, i - 1)
  OBVIOUS
<1>3. PICK c : c = SubSeq(old, i + 2, Len(old))
  OBVIOUS
<1>4. PICK b : b = <<one>>
  OBVIOUS
<1>5. /\ a \in Seq(T) /\ Len(a) = i - 1
      /\ \A j \in 1 .. (i - 1) : a[j] = old[j]
  <2>1. \A j \in 1 .. (i - 1) : old[j] \in T
    BY <1>1
  <2>2. i - 1 \in Int /\ 1 \in Int /\ (i - 1) - 1 + 1 = i - 1
    BY <1>1
  <2>3. /\ a \in Seq(T) /\ Len(a) = IF 1 <= i - 1 THEN (i - 1) - 1 + 1 ELSE 0
        /\ \A j \in 1 .. ((i - 1) - 1 + 1) : a[j] = old[1 + j - 1]
    BY <1>2, <2>1, <2>2, SubSeqProperties
  <2>4. \A j \in 1 .. (i - 1) : 1 + j - 1 = j
    OBVIOUS
  <2>5. Len(a) = i - 1
    BY <1>1, <2>2, <2>3
  <2>6. QED
    BY <2>2, <2>3, <2>4, <2>5
<1>6. /\ c \in Seq(T) /\ Len(c) = Len(old) - i - 1
      /\ \A j \in 1 .. (Len(old) - i - 1) : c[j] = old[i + 1 + j]
  <2>1. \A j \in (i + 2) .. Len(old) : old[j] \in T
    BY <1>1
  <2>2. PICK n : n = Len(old)
    OBVIOUS
  <2>3. i + 2 \in Int /\ n \in Int /\ n - (i + 2) + 1 = n - i - 1
    BY <1>1, <2>2
  <2>4. /\ c \in Seq(T) /\ Len(c) = IF i + 2 <= n THEN n - (i + 2) + 1 ELSE 0
        /\ \A j \in 1 .. (n - (i + 2) + 1) : c[j] = old[(i + 2) + j - 1]
    BY <1>3, <2>1, <2>2, <2>3, SubSeqProperties
  <2>5. \A j \in Int : (i + 2) + j - 1 = i + 1 + j
    BY <1>1
  <2>6. Len(c) = n - i - 1
    BY <1>1, <2>2, <2>3, <2>4
  <2>7. QED
    BY <2>2, <2>3, <2>4, <2>5, <2>6
<1>7. b \in Seq(T) /\ Len(b) = 1 /\ b[1] = one
  BY <1>4
<1>8. PICK d : d = a \o b
  OBVIOUS
<1>9. /\ d \in Seq(T) /\ Len(d) = i
      /\ \A j \in 1 .. i : d[j] = IF j < i THEN old[j] ELSE one
  <2>1. /\ d \in Seq(T) /\ Len(d) = Len(a) + Len(b)
        /\ \A j \in 1 .. Len(a) + Len(b) : d[j] = IF j <= Len(a) THEN a[j] ELSE b[j - Len(a)]
    BY <1>5, <1>7, <1>8, ConcatProperties
  <2>2. Len(d) = i
    BY <1>1, <1>5, <1>7, <2>1
  <2>3. ASSUME NEW j \in 1 .. i PROVE d[j] = IF j < i THEN old[j] ELSE one
    <3>1. d[j] = IF j <= i - 1 THEN a[j] ELSE b[j - (i - 1)]
      BY <1>1, <1>5, <1>7, <2>1
    <3>2. CASE j < i
      BY <1>1, <1>5, <3>1, <3>2
    <3>3. CASE j = i
      <4>1. j - (i - 1) = 1 /\ ~ (j <= i - 1)
        BY <1>1, <3>3
      <4>2. QED
        BY <1>7, <3>1, <3>3, <4>1
    <3>4. QED
      BY <1>1, <3>2, <3>3
  <2>4. QED
    BY <2>1, <2>2, <2>3
<1>10. new = d \o c
  BY <1>2, <1>3, <1>4, <1>8 DEF MergedAt
<1>11. PICK n : n = Len(old)
  OBVIOUS
<1>12. /\ new \in Seq(T) /\ Len(new) = Len(d) + Len(c)
       /\ \A j \in 1 .. Len(d) + Len(c) : new[j] = IF j <= Len(d) THEN d[j] ELSE c[j - Len(d)]
  <2>1. d \in Seq(T) /\ c \in Seq(T)
    BY <1>6, <1>9
  <2>2. QED
    BY <1>10, <2>1, ConcatProperties, ZenonT(60)
<1>13. /\ new \in Seq(T) /\ Len(new) = n - 1
       /\ \A j \in 1 .. (n - 1) : new[j] = IF j <= i THEN d[j] ELSE c[j - i]
  <2>1. Len(d) = i /\ Len(d) + Len(c) = n - 1
    BY <1>1, <1>6, <1>9, <1>11
  <2>2. QED
    BY <1>12, <2>1
<1>14. ASSUME NEW j \in 1 .. (n - 1)
       PROVE  /\ j < i => new[j] = old[j]
              /\ j = i => new[j] = one
              /\ j > i => new[j] = old[j + 1]
  <2>1. new[j] = IF j <= i THEN d[j] ELSE c[j - i]
    BY <1>13
  <2>2. n \in Nat /\ i \in Nat /\ i >= 1
    BY <1>1, <1>11
  <2>3. CASE j <= i
    <3>1. j \in 1 .. i
      BY <2>2, <2>3
    <3>2. d[j] = IF j < i THEN old[j] ELSE one
      BY <1>9, <3>1
    <3>3. new[j] = d[j]
      BY <2>1, <2>3
    <3>4. j < i \/ j = i
      BY <2>2, <2>3
    <3>5. QED
      BY <2>2, <3>2, <3>3, <3>4
  <2>4. CASE ~ (j <= i)
    <3>1. j - i \in 1 .. (n - i - 1) /\ i + 1 + (j - i) = j + 1
      BY <2>2, <2>4
    <3>2. c[j - i] = old[i + 1 + (j - i)]
      BY <1>6, <1>11, <3>1
    <3>3. new[j] = c[j - i]
      BY <2>1, <2>4
    <3>4. ~ (j < i) /\ j # i
      BY <2>2, <2>4
    <3>5. QED
      BY <3>1, <3>2, <3>3, <3>4
  <2>5. QED
    BY <2>3, <2>4
<1>15. QED
  BY <1>11, <1>13, <1>14 DEF AreMerged

(* What MqInv says of the parts, the points and the batches.               *)
PartsCover ==
    /\ described \subseteq DOMAIN SeriesOf
    /\ parts \in Seq(SUBSET described)
    /\ \A s \in described : \E i \in DOMAIN parts : \E o \in parts[i] :
         SeriesOf[o].key = SeriesOf[s].key

PointsBelong ==
    /\ IsFiniteSet(metricPoints)
    /\ \A p \in metricPoints :
         /\ p.batch \in DOMAIN MetricBatches /\ <<"metric_points", p.batch>> \in inserts
         /\ p.series \in MetricBatches[p.batch].series /\ p.v \in Int

BatchesDescribed ==
    \A b \in DOMAIN MetricBatches :
      <<"metric_series", b>> \in inserts => MetricBatches[b].series \subseteq described

(* A series insert adds a part (insert_metric_series).                     *)
LEMMA SeriesInsertKeeps ==
    ASSUME MqInv, NEW b \in DOMAIN MetricBatches, insert_metric_series(b)
    PROVE  MqInv'
<1>1. PICK block \in BlocksOf(MetricBatches[b].series) : parts' = Append(parts, block)
  BY DEF insert_metric_series
<1>2. PICK S : S = MetricBatches[b].series
  OBVIOUS
<1>3. PICK D : D = described \union S
  OBVIOUS
<1>4. /\ described' = D /\ inserts' = inserts \union {<<"metric_series", b>>}
      /\ metricPoints' = metricPoints
  BY <1>2, <1>3 DEF insert_metric_series
<1>5. block \subseteq S /\ \A s \in S : \E o \in block : SeriesOf[o].key = SeriesOf[s].key
  BY <1>1, <1>2, BlockHoldsKeys, MetricAssumption
<1>6. D \subseteq DOMAIN SeriesOf
  BY <1>2, <1>3, MetricAssumption DEF MqInv
<1>7. PICK n : n = Len(parts)
  OBVIOUS
<1>8. n \in Nat /\ DOMAIN parts = 1 .. n /\ parts \in Seq(SUBSET D)
  <2>1. n \in Nat /\ parts \in [1 .. n -> SUBSET described]
    BY <1>7, LenProperties DEF MqInv
  <2>2. parts \in [1 .. n -> SUBSET D]
    BY <1>3, <2>1
  <2>3. QED
    BY <2>1, <2>2
<1>9. /\ parts' \in Seq(SUBSET D) /\ DOMAIN parts' = 1 .. (n + 1)
      /\ \A i \in 1 .. n : parts'[i] = parts[i]
      /\ parts'[n + 1] = block
  <2>1. block \in SUBSET D
    BY <1>3, <1>5
  <2>2. PICK q : q = Append(parts, block)
    OBVIOUS
  <2>3. /\ q \in Seq(SUBSET D) /\ Len(q) = n + 1
        /\ \A i \in 1 .. n : q[i] = parts[i]
        /\ q[n + 1] = block
    BY <1>7, <1>8, <2>1, <2>2, AppendProperties
  <2>4. DOMAIN q = 1 .. (n + 1)
    BY <2>3, LenProperties
  <2>5. QED
    BY <1>1, <2>2, <2>3, <2>4
<1>10. ASSUME NEW s \in D
       PROVE  \E i \in DOMAIN parts' : \E o \in parts'[i] : SeriesOf[o].key = SeriesOf[s].key
  <2>1. CASE s \in described
    <3>1. PICK i \in DOMAIN parts : \E o \in parts[i] : SeriesOf[o].key = SeriesOf[s].key
      BY <2>1 DEF MqInv
    <3>2. i \in DOMAIN parts' /\ parts'[i] = parts[i]
      BY <1>8, <1>9
    <3>3. QED
      BY <3>1, <3>2
  <2>2. CASE s \in S
    <3>1. n + 1 \in DOMAIN parts' /\ parts'[n + 1] = block
      BY <1>8, <1>9
    <3>2. \E o \in block : SeriesOf[o].key = SeriesOf[s].key
      BY <1>5, <2>2
    <3>3. QED
      BY <3>1, <3>2
  <2>3. QED
    BY <1>3, <2>1, <2>2
<1>11. PartsCover'
  BY <1>4, <1>6, <1>9, <1>10 DEF PartsCover
<1>12. PointsBelong'
  BY <1>4 DEF PointsBelong, MqInv
<1>13. BatchesDescribed'
  <2>1. ASSUME NEW c \in DOMAIN MetricBatches, <<"metric_series", c>> \in inserts'
        PROVE  MetricBatches[c].series \subseteq D
    <3>1. CASE c = b
      BY <1>2, <1>3, <3>1
    <3>2. CASE c # b
      BY <1>3, <1>4, <2>1, <3>2 DEF MqInv
    <3>3. QED
      BY <3>1, <3>2
  <2>2. QED
    BY <1>4, <2>1 DEF BatchesDescribed
<1>14. QED
  BY <1>11, <1>12, <1>13 DEF MqInv, PartsCover, PointsBelong, BatchesDescribed

(* A point insert adds the points of its batch (insert_metric_points).     *)
LEMMA PointsInsertKeeps ==
    ASSUME MqInv, NEW b \in DOMAIN MetricBatches, insert_metric_points(b)
    PROVE  MqInv'
<1> DEFINE row == [p \in MetricBatches[b].points |->
                     [series |-> p.series, t |-> p.t, v |-> p.v, batch |-> b]]
<1>1. PICK new : new = {row[p] : p \in MetricBatches[b].points}
  OBVIOUS
<1>2. new = {[series |-> p.series, t |-> p.t, v |-> p.v, batch |-> b] : p \in MetricBatches[b].points}
  BY <1>1
<1>3. IsFiniteSet(new)
  <2> HIDE DEF row
  <2>1. QED
    BY <1>1, ImageIsFinite, MetricAssumption
<1>4. /\ metricPoints' = metricPoints \union new
      /\ inserts' = inserts \union {<<"metric_points", b>>}
      /\ parts' = parts /\ described' = described
  BY <1>2 DEF insert_metric_points
<1>5. \A p \in new : /\ p.batch = b /\ p.series \in MetricBatches[b].series /\ p.v \in Int
  BY <1>2, MetricAssumption
<1> HIDE DEF row
<1>6. PointsBelong'
  <2>1. IsFiniteSet(metricPoints \union new)
    BY <1>3, FS_Union DEF MqInv
  <2>2. ASSUME NEW p \in metricPoints \union new
        PROVE  /\ p.batch \in DOMAIN MetricBatches /\ <<"metric_points", p.batch>> \in inserts'
               /\ p.series \in MetricBatches[p.batch].series /\ p.v \in Int
    BY <1>4, <1>5 DEF MqInv
  <2>3. QED
    BY <1>4, <2>1, <2>2 DEF PointsBelong
<1>7. PartsCover'
  BY <1>4 DEF MqInv, PartsCover
<1>8. BatchesDescribed'
  BY <1>4 DEF MqInv, BatchesDescribed
<1>9. QED
  BY <1>6, <1>7, <1>8 DEF MqInv, PartsCover, PointsBelong, BatchesDescribed

(* A merge leaves for every sorting key a row (MergeParts).                *)
LEMMA MergeKeeps ==
    ASSUME MqInv, NEW i \in DOMAIN parts, MergeParts(i)
    PROVE  MqInv'
<1>1. PICK one : one = Survivors(parts[i], parts[i + 1]) \union parts[i + 1]
  OBVIOUS
<1>2. /\ i \in 1 .. (Len(parts) - 1) /\ parts' = MergedAt(parts, i, one)
      /\ metricPoints' = metricPoints /\ inserts' = inserts /\ described' = described
  BY <1>1 DEF MergeParts, MergedAt
<1>3. PICK n : n = Len(parts)
  OBVIOUS
<1>4. /\ n \in Nat /\ DOMAIN parts = 1 .. n /\ i \in 1 .. (n - 1)
      /\ parts \in Seq(SUBSET described) /\ \A j \in 1 .. n : parts[j] \in SUBSET described
  BY <1>2, <1>3, LenProperties DEF MqInv
<1>5. one \in SUBSET described
  <2>1. i \in 1 .. n /\ i + 1 \in 1 .. n
    BY <1>4
  <2>2. QED
    BY <1>1, <1>4, <2>1 DEF Survivors
<1>6. PICK q : q = parts'
  OBVIOUS
<1>7. /\ q \in Seq(SUBSET described) /\ DOMAIN q = 1 .. (n - 1)
      /\ \A j \in 1 .. (n - 1) :
           /\ j < i => q[j] = parts[j]
           /\ j = i => q[j] = one
           /\ j > i => q[j] = parts[j + 1]
  <2>1. q = MergedAt(parts, i, one)
    BY <1>2, <1>6
  <2>2. /\ q \in Seq(SUBSET described) /\ Len(q) = Len(parts) - 1
        /\ \A j \in 1 .. Len(q) :
             /\ j < i => q[j] = parts[j]
             /\ j = i => q[j] = one
             /\ j > i => q[j] = parts[j + 1]
    <3>1. PICK T : T = SUBSET described
      OBVIOUS
    <3>2. PICK old : old = parts
      OBVIOUS
    <3>3. q = MergedAt(old, i, one)
      BY <2>1, <3>2, Zenon
    <3>4. old \in Seq(T) /\ one \in T /\ i \in 1 .. (Len(old) - 1)
      BY <1>2, <1>4, <1>5, <3>1, <3>2
    <3>5. q \in Seq(T) /\ AreMerged(q, old, i, one)
      BY <3>3, <3>4, MergedParts
    <3>6. QED
      BY <3>1, <3>2, <3>5 DEF AreMerged
  <2>3. QED
    BY <1>3, <2>2, LenProperties
<1>8. ASSUME NEW s \in described
      PROVE  \E j \in 1 .. (n - 1) : \E o \in q[j] : SeriesOf[o].key = SeriesOf[s].key
  <2>1. PICK j \in 1 .. n : \E o \in parts[j] : SeriesOf[o].key = SeriesOf[s].key
    BY <1>4 DEF MqInv
  <2>2. PICK o \in parts[j] : SeriesOf[o].key = SeriesOf[s].key
    BY <2>1
  <2>3. i \in Nat /\ i >= 1 /\ i \in 1 .. (n - 1) /\ i + 1 \in 1 .. n /\ q[i] = one
    BY <1>4, <1>7
  <2>4. CASE j < i
    <3>1. j \in 1 .. (n - 1) /\ q[j] = parts[j]
      BY <1>4, <1>7, <2>4
    <3>2. QED
      BY <2>1, <3>1
  <2>5. CASE j = i
    <3>1. \E k \in one : SeriesOf[k].key = SeriesOf[s].key
      <4>1. CASE \A k \in parts[i + 1] : SeriesOf[k].key # SeriesOf[o].key
        BY <1>1, <2>2, <2>5, <4>1 DEF Survivors
      <4>2. CASE \E k \in parts[i + 1] : SeriesOf[k].key = SeriesOf[o].key
        BY <1>1, <2>2, <4>2
      <4>3. QED
        BY <4>1, <4>2
    <3>2. QED
      BY <2>3, <3>1
  <2>6. CASE j = i + 1
    <3>1. \E k \in one : SeriesOf[k].key = SeriesOf[s].key
      BY <1>1, <2>2, <2>6
    <3>2. QED
      BY <2>3, <3>1
  <2>7. CASE j > i + 1
    <3>1. /\ j - 1 \in 1 .. (n - 1) /\ j - 1 > i /\ (j - 1) + 1 = j
      BY <1>4, <2>3, <2>7
    <3>2. q[j - 1] = parts[j]
      BY <1>7, <3>1
    <3>3. QED
      BY <2>1, <3>1, <3>2
  <2>8. QED
    BY <2>3, <2>4, <2>5, <2>6, <2>7
<1>9. PartsCover'
  <2>1. described' \subseteq DOMAIN SeriesOf
    BY <1>2 DEF MqInv
  <2>2. QED
    BY <1>2, <1>6, <1>7, <1>8, <2>1 DEF PartsCover
<1>10. PointsBelong' /\ BatchesDescribed'
  BY <1>2 DEF MqInv, PointsBelong, BatchesDescribed
<1>11. QED
  BY <1>9, <1>10 DEF MqInv, PartsCover, PointsBelong, BatchesDescribed

(* What the metric tables hold comes from the flushes, and every series    *)
(* that was inserted is held under its sorting key, whatever was merged    *)
(* (insert_metric_series, insert_metric_points).                           *)
LEMMA MqInvariant == MqSpec => []MqInv
<1>1. MqInit => MqInv
  <2> SUFFICES ASSUME MqInit PROVE MqInv
    OBVIOUS
  <2>1. parts \in Seq(SUBSET described)
    BY DEF MqInit
  <2>2. QED
    BY <2>1, FS_EmptySet DEF MqInit, MqInv
<1>2. MqInv /\ [MqNext]_mqVars => MqInv'
  <2> SUFFICES ASSUME MqInv, [MqNext]_mqVars PROVE MqInv'
    OBVIOUS
  <2>1. ASSUME NEW b \in DOMAIN MetricBatches, insert_metric_series(b) PROVE MqInv'
    BY <2>1, SeriesInsertKeeps
  <2>2. ASSUME NEW b \in DOMAIN MetricBatches, insert_metric_points(b) PROVE MqInv'
    BY <2>2, PointsInsertKeeps
  <2>3. ASSUME NEW i \in DOMAIN parts, MergeParts(i) PROVE MqInv'
    BY <2>3, MergeKeeps
  <2>4. CASE UNCHANGED mqVars
    BY <2>4 DEF MqInv, mqVars
  <2>5. QED
    BY <2>1, <2>2, <2>3, <2>4 DEF MqNext
<1>3. QED
  BY <1>1, <1>2, PTL DEF MqSpec

-----------------------------------------------------------------------------
(* Of finitely many integers one is the least.                             *)
LEMMA FiniteLeast ==
    ASSUME NEW f, NEW S, IsFiniteSet(S), S # {}, \A x \in S : f[x] \in Int
    PROVE  \E x \in S : \A y \in S : f[x] <= f[y]
<1> DEFINE without == {T \in SUBSET S : T # {} /\ ~ \E x \in T : \A y \in T : f[x] <= f[y]}
<1>1. SUFFICES ASSUME without # {} PROVE FALSE
  OBVIOUS
<1>2. PICK T \in without : \A U \in without : Cardinality(T) <= Cardinality(U)
  BY <1>1, SmallestSet
<1>3. T \in SUBSET S /\ T # {} /\ ~ \E x \in T : \A y \in T : f[x] <= f[y]
  OBVIOUS
<1>4. PICK x \in T : TRUE
  BY <1>3
<1>5. IsFiniteSet(T)
  BY <1>3, FS_Subset
<1>6. Cardinality(T \ {x}) = Cardinality(T) - 1 /\ Cardinality(T) \in Nat
  BY <1>4, <1>5, FS_RemoveElement, FS_CardinalityType
<1>7. T \ {x} \notin without
  <2> HIDE DEF without
  <2>1. QED
    BY <1>2, <1>6
<1>8. CASE T \ {x} = {}
  <2>1. \A y \in T : y = x
    BY <1>8
  <2>2. QED
    BY <1>3, <1>4, <2>1
<1>9. CASE T \ {x} # {}
  <2>1. PICK z \in T \ {x} : \A y \in T \ {x} : f[z] <= f[y]
    BY <1>3, <1>7, <1>9
  <2>2. f[x] \in Int /\ f[z] \in Int /\ \A y \in T : f[y] \in Int
    BY <1>3, <1>4, <2>1
  <2>3. CASE f[x] <= f[z]
    BY <1>3, <1>4, <2>1, <2>2, <2>3
  <2>4. CASE ~ (f[x] <= f[z])
    BY <1>3, <1>4, <2>1, <2>2, <2>4
  <2>5. QED
    BY <2>3, <2>4
<1>10. QED
  BY <1>8, <1>9

(* A weighted average is not below every value nor above every value.      *)
LEMMA AverageIsBetween ==
    ASSUME NEW S, IsFiniteSet(S), S # {}, NEW weight, NEW value, NEW product,
           \A x \in S : /\ weight[x] \in Nat /\ value[x] \in Int
                        /\ product[x] = weight[x] * value[x]
    PROVE  /\ \E x \in S : value[x] * SumOn(weight, S) <= SumOn(product, S)
           /\ \E x \in S : value[x] * SumOn(weight, S) >= SumOn(product, S)
<1>1. \A a \in Nat, b, c \in Int : b <= c => a * b <= a * c /\ a * b \in Int
  OBVIOUS
<1>2. \A x \in S : weight[x] \in Int /\ product[x] \in Int
  BY <1>1
<1>3. SumOn(weight, S) \in Int
  BY <1>2, SumType
<1>4. \E x \in S : value[x] * SumOn(weight, S) <= SumOn(product, S)
  <2>1. PICK x \in S : \A y \in S : value[x] <= value[y]
    BY FiniteLeast
  <2>2. PICK m \in Int : m = value[x]
    OBVIOUS
  <2> DEFINE low == [y \in S |-> weight[y] * m]
  <2>3. \A y \in S : low[y] = weight[y] * m /\ low[y] \in Int /\ low[y] <= product[y]
    BY <1>1, <2>1, <2>2
  <2> HIDE DEF low
  <2>4. SumOn(low, S) <= SumOn(product, S)
    BY <1>2, <2>3, SumMonotone
  <2>5. SumOn(low, S) = SumOn(weight, S) * m
    BY <1>2, <2>3, SumScaled
  <2>6. SumOn(weight, S) * m = m * SumOn(weight, S)
    BY <1>3
  <2>7. QED
    BY <2>2, <2>4, <2>5, <2>6
<1>5. \E x \in S : value[x] * SumOn(weight, S) >= SumOn(product, S)
  <2> DEFINE minus == [y \in S |-> 0 - value[y]]
  <2>1. \A y \in S : minus[y] = 0 - value[y] /\ minus[y] \in Int
    OBVIOUS
  <2> HIDE DEF minus
  <2>2. PICK x \in S : \A y \in S : minus[x] <= minus[y]
    BY <2>1, FiniteLeast
  <2>3. PICK m \in Int : m = value[x]
    OBVIOUS
  <2>4. \A y \in S : value[y] <= m
    BY <2>1, <2>2, <2>3
  <2> DEFINE high == [y \in S |-> weight[y] * m]
  <2>5. \A y \in S : high[y] = weight[y] * m /\ high[y] \in Int /\ product[y] <= high[y]
    BY <1>1, <2>3, <2>4
  <2> HIDE DEF high
  <2>6. SumOn(product, S) <= SumOn(high, S)
    BY <1>2, <2>5, SumMonotone
  <2>7. SumOn(high, S) = SumOn(weight, S) * m
    BY <1>2, <2>5, SumScaled
  <2>8. SumOn(weight, S) * m = m * SumOn(weight, S)
    BY <1>3
  <2>9. SumOn(product, S) \in Int /\ m * SumOn(weight, S) \in Int
    BY <1>1, <1>2, <1>3, <2>3, SumType
  <2>10. QED
    BY <2>3, <2>6, <2>7, <2>8, <2>9
<1>6. QED
  BY <1>4, <1>5

-----------------------------------------------------------------------------
(* A series has a row where some part holds it, and then it was inserted.  *)
LEMMA CopiesCount ==
    ASSUME MqInv
    PROVE  \A s : /\ Copies(s) \in Nat
                  /\ Copies(s) > 0 <=> \E i \in DOMAIN parts : s \in parts[i]
                  /\ Copies(s) > 0 => s \in described
<1> SUFFICES ASSUME NEW s
             PROVE  /\ Copies(s) \in Nat
                    /\ Copies(s) > 0 <=> \E i \in DOMAIN parts : s \in parts[i]
                    /\ Copies(s) > 0 => s \in described
  OBVIOUS
<1>1. PICK n : n = Len(parts)
  OBVIOUS
<1>2. n \in Nat /\ DOMAIN parts = 1 .. n /\ \A i \in 1 .. n : parts[i] \in SUBSET described
  BY <1>1, LenProperties DEF MqInv
<1>3. IsFiniteSet(1 .. n)
  BY <1>2, FS_Interval
<1>4. PICK rows : rows = {i \in DOMAIN parts : s \in parts[i]}
  OBVIOUS
<1>5. rows \subseteq 1 .. n /\ Copies(s) = Cardinality(rows)
  BY <1>2, <1>4 DEF Copies
<1>6. IsFiniteSet(rows)
  BY <1>3, <1>5, FS_Subset
<1>7. Cardinality(rows) \in Nat /\ (Cardinality(rows) = 0 <=> rows = {})
  BY <1>6, FS_CardinalityType, FS_EmptySet
<1>8. QED
  BY <1>2, <1>4, <1>5, <1>7

(* Where no other series has its sorting key, a series that was inserted   *)
(* has a row.                                                              *)
LEMMA ShownSeries ==
    ASSUME MqInv, NEW g, Unshared(g), NEW s \in OfGroup(g)
    PROVE  Copies(s) > 0 <=> s \in described
<1>1. ASSUME s \in described PROVE Copies(s) > 0
  <2>1. PICK i \in DOMAIN parts : \E o \in parts[i] : SeriesOf[o].key = SeriesOf[s].key
    BY <1>1 DEF MqInv
  <2>2. PICK o \in parts[i] : SeriesOf[o].key = SeriesOf[s].key
    BY <2>1
  <2>3. o \in DOMAIN SeriesOf
    <3>1. Copies(o) > 0
      BY <2>1, <2>2, CopiesCount
    <3>2. o \in described
      BY <3>1, CopiesCount
    <3>3. QED
      BY <3>2 DEF MqInv
  <2>4. o = s
    BY <2>2, <2>3 DEF Unshared
  <2>5. QED
    BY <2>1, <2>2, <2>4, CopiesCount
<1>2. QED
  BY <1>1, CopiesCount

(* The catalog counts the series of an entry that were inserted.           *)
LEMMA CatalogHolds ==
    ASSUME MqInv, NEW g, Unshared(g), NEW k
    PROVE  list_metrics(g, k) = Cardinality(OfEntry(g, k) \intersect described)
<1>1. {s \in OfEntry(g, k) : Copies(s) > 0} = OfEntry(g, k) \intersect described
  BY ShownSeries DEF OfEntry
<1>2. QED
  BY <1>1 DEF list_metrics

(* The points of a group at a time: finitely many, integers, each of a     *)
(* series of the group.                                                    *)
LEMMA PointsOfChart ==
    ASSUME MqInv, NEW g, NEW t
    PROVE  /\ PointsAt(g, t) = {p \in metricPoints : p.t = t /\ p.series \in OfGroup(g)}
           /\ Joined(g, t) = {p \in PointsAt(g, t) : Copies(p.series) > 0}
           /\ IsFiniteSet(PointsAt(g, t)) /\ IsFiniteSet(Joined(g, t))
           /\ \A p \in PointsAt(g, t) : p.v \in Int /\ p.series \in OfGroup(g) /\ p \in metricPoints
<1>1. PointsAt(g, t) = {p \in metricPoints : p.t = t /\ p.series \in OfGroup(g)}
  BY DEF PointsAt, get_metric_points
<1>2. Joined(g, t) = {p \in PointsAt(g, t) : Copies(p.series) > 0}
  BY <1>1 DEF Joined
<1>3. IsFiniteSet(PointsAt(g, t)) /\ IsFiniteSet(Joined(g, t))
  <2>1. PointsAt(g, t) \subseteq metricPoints /\ Joined(g, t) \subseteq metricPoints
    BY <1>1, <1>2
  <2>2. QED
    BY <2>1, FS_Subset DEF MqInv
<1>4. \A p \in PointsAt(g, t) : p.v \in Int /\ p.series \in OfGroup(g) /\ p \in metricPoints
  BY <1>1 DEF MqInv
<1>5. QED
  BY <1>1, <1>2, <1>3, <1>4

(* Once the flushes are complete a chart misses no point.                  *)
LEMMA NoPointMissing ==
    ASSUME MqInv, Flushed, NEW g, Unshared(g), NEW t
    PROVE  Joined(g, t) = PointsAt(g, t)
<1>1. ASSUME NEW p \in PointsAt(g, t) PROVE Copies(p.series) > 0
  <2>1. p \in metricPoints /\ p.series \in OfGroup(g)
    BY PointsOfChart
  <2>2. /\ p.batch \in DOMAIN MetricBatches /\ <<"metric_points", p.batch>> \in inserts
        /\ p.series \in MetricBatches[p.batch].series
    BY <2>1 DEF MqInv
  <2>3. <<"metric_series", p.batch>> \in inserts
    BY <2>2 DEF Flushed
  <2>4. p.series \in described
    BY <2>2, <2>3 DEF MqInv
  <2>5. QED
    BY <2>1, <2>4, ShownSeries
<1>2. QED
  BY <1>1, PointsOfChart

\* The rows a point is joined with, its value, and what it adds to the chart.
RowsOf(S) == [p \in S |-> Copies(p.series)]
ValuesOf(S) == [p \in S |-> p.v]
AddedBy(S) == [p \in S |-> Copies(p.series) * p.v]

(* What a chart shows at one time, as sums.                                *)
LEMMA ChartSums ==
    ASSUME MqInv, NEW g, NEW t
    PROVE  /\ get_metric_group_points(g, t).total = SumOn(AddedBy(Joined(g, t)), Joined(g, t))
           /\ get_metric_group_points(g, t).over =
                IF \E s \in OfGroup(g) : SeriesOf[s].gauge
                THEN SumOn(RowsOf(Joined(g, t)), Joined(g, t)) ELSE 1
           /\ \A p \in Joined(g, t) :
                /\ RowsOf(Joined(g, t))[p] = Copies(p.series) /\ Copies(p.series) \in Nat \ {0}
                /\ AddedBy(Joined(g, t))[p] = Copies(p.series) * p.v
                /\ AddedBy(Joined(g, t))[p] \in Int /\ p.v \in Int /\ p.series \in OfGroup(g)
<1>1. PICK rows : rows = Joined(g, t)
  OBVIOUS
<1>2. /\ SumFunction([p \in rows |-> Copies(p.series) * p.v]) = SumOn(AddedBy(rows), rows)
      /\ SumFunction([p \in rows |-> Copies(p.series)]) = SumOn(RowsOf(rows), rows)
  <2>1. DOMAIN AddedBy(rows) = rows /\ DOMAIN RowsOf(rows) = rows
    BY DEF AddedBy, RowsOf
  <2>2. /\ SumFunction(AddedBy(rows)) = SumOn(AddedBy(rows), rows)
        /\ SumFunction(RowsOf(rows)) = SumOn(RowsOf(rows), rows)
    BY <2>1, SumOfFunction
  <2>3. QED
    BY <2>2 DEF AddedBy, RowsOf
<1>3. /\ get_metric_group_points(g, t).total = SumOn(AddedBy(rows), rows)
      /\ get_metric_group_points(g, t).over =
           IF \E s \in OfGroup(g) : SeriesOf[s].gauge THEN SumOn(RowsOf(rows), rows) ELSE 1
  BY <1>1, <1>2 DEF get_metric_group_points
<1>4. ASSUME NEW p \in rows
      PROVE  /\ RowsOf(rows)[p] = Copies(p.series) /\ Copies(p.series) \in Nat \ {0}
             /\ AddedBy(rows)[p] = Copies(p.series) * p.v
             /\ AddedBy(rows)[p] \in Int /\ p.v \in Int /\ p.series \in OfGroup(g)
  <2>1. p.v \in Int /\ p.series \in OfGroup(g) /\ Copies(p.series) > 0
    BY <1>1, PointsOfChart
  <2>2. Copies(p.series) \in Nat \ {0}
    BY <2>1, CopiesCount
  <2>3. \A a \in Nat, b \in Int : a * b \in Int
    OBVIOUS
  <2>4. QED
    BY <2>1, <2>2, <2>3 DEF RowsOf, AddedBy
<1>5. QED
  BY <1>1, <1>3, <1>4

(* A chart shows an average within the values it averages, a sum that is   *)
(* never too small, and both exactly where each series has one row.        *)
LEMMA ChartHolds ==
    ASSUME MqInv, Flushed, NEW g \in Groups, Unshared(g), NEW t, PointsAt(g, t) # {}
    PROVE  LET at    == PointsAt(g, t)
               shown == get_metric_group_points(g, t)
               sum   == SumFunction([p \in at |-> p.v])
           IN  /\ Joined(g, t) = at
               /\ IF \E s \in OfGroup(g) : SeriesOf[s].gauge
                  THEN /\ \E p \in at : p.v * shown.over <= shown.total
                       /\ \E p \in at : p.v * shown.over >= shown.total
                  ELSE (\A p \in at : p.v >= 0) => shown.total >= sum
               /\ (\A p \in at : Copies(p.series) = 1) =>
                    shown.total = sum /\ shown.over \in {1, Cardinality(at)}
<1> DEFINE shown == get_metric_group_points(g, t)
<1>1. PICK at : at = PointsAt(g, t)
  OBVIOUS
<1>2. Joined(g, t) = at /\ IsFiniteSet(at) /\ at # {}
  BY <1>1, NoPointMissing, PointsOfChart
<1>3. PICK product : product = AddedBy(at)
  OBVIOUS
<1>4. PICK weight : weight = RowsOf(at)
  OBVIOUS
<1>5. PICK value : value = ValuesOf(at)
  OBVIOUS
<1>6. /\ shown.total = SumOn(product, at)
      /\ shown.over = IF \E s \in OfGroup(g) : SeriesOf[s].gauge THEN SumOn(weight, at) ELSE 1
      /\ \A p \in at : /\ weight[p] = Copies(p.series) /\ weight[p] \in Nat \ {0}
                       /\ product[p] = weight[p] * p.v /\ product[p] \in Int /\ p.v \in Int
  BY <1>2, <1>3, <1>4, ChartSums
<1>7. \A p \in at : value[p] = p.v /\ value[p] \in Int
  BY <1>5, <1>6 DEF ValuesOf
<1>8. PICK sum : sum = SumFunction([p \in at |-> p.v])
  OBVIOUS
<1>9. sum = SumOn(value, at)
  <2>1. DOMAIN value = at
    BY <1>5 DEF ValuesOf
  <2>2. sum = SumFunction(value)
    BY <1>5, <1>8 DEF ValuesOf
  <2>3. QED
    BY <2>1, <2>2, SumOfFunction
<1> HIDE DEF shown
<1>10. ASSUME \E s \in OfGroup(g) : SeriesOf[s].gauge
       PROVE  /\ \E p \in at : p.v * shown.over <= shown.total
              /\ \E p \in at : p.v * shown.over >= shown.total
  <2>1. shown.over = SumOn(weight, at)
    BY <1>6, <1>10
  <2>2. \A p \in at : weight[p] \in Nat /\ value[p] \in Int /\ product[p] = weight[p] * value[p]
    BY <1>6, <1>7
  <2>3. /\ \E p \in at : value[p] * SumOn(weight, at) <= SumOn(product, at)
        /\ \E p \in at : value[p] * SumOn(weight, at) >= SumOn(product, at)
    BY <1>2, <2>2, AverageIsBetween
  <2>4. QED
    BY <1>6, <1>7, <2>1, <2>3
<1>11. ASSUME \A p \in at : p.v >= 0 PROVE shown.total >= sum
  <2>1. \A a \in Nat \ {0}, b \in Nat : b <= a * b
    OBVIOUS
  <2>2. \A p \in at : value[p] \in Int /\ product[p] \in Int /\ value[p] <= product[p]
    BY <1>6, <1>7, <1>11, <2>1
  <2>3. /\ SumOn(value, at) \in Int /\ SumOn(product, at) \in Int
        /\ SumOn(value, at) <= SumOn(product, at)
    BY <1>2, <2>2, SumMonotone
  <2>4. QED
    BY <1>6, <1>9, <2>3
<1>12. ASSUME \A p \in at : Copies(p.series) = 1
       PROVE  shown.total = sum /\ shown.over \in {1, Cardinality(at)}
  <2>1. \A p \in at : weight[p] = 1 /\ value[p] \in Int /\ product[p] = value[p]
    BY <1>6, <1>7, <1>12
  <2>2. SumOn(product, at) = SumOn(value, at)
    BY <1>2, <2>1, SumSame
  <2>3. SumOn(weight, at) = Cardinality(at)
    BY <1>2, <2>1, SumOnes
  <2>4. QED
    BY <1>6, <1>9, <2>2, <2>3
<1>13. QED
  BY <1>1, <1>2, <1>8, <1>10, <1>11, <1>12 DEF shown

(* The catalog and the charts agree with the series opened one by one.     *)
LEMMA MetricViewsHold == MqInv => MetricViewsAgree
<1> SUFFICES ASSUME MqInv PROVE MetricViewsAgree
  OBVIOUS
<1>1. ASSUME NEW g \in Groups, Unshared(g), NEW k
      PROVE  list_metrics(g, k) = Cardinality(OfEntry(g, k) \intersect described)
  BY <1>1, CatalogHolds
<1>2. QED
  BY <1>1, ChartHolds DEF MetricViewsAgree

\* What the playground draws of a series at one time.
DrawnTotal(g, t) == [s \in OfGroup(g) |-> render_metric_group_points_duckdb(g, s, t).total]
DrawnOver(g, t) == [s \in OfGroup(g) |-> render_metric_group_points_duckdb(g, s, t).over]

(* The points that the playground draws add up to production's chart.      *)
LEMMA DrawnAddUp ==
    ASSUME MqInv, NEW g \in Groups, NEW t
    PROVE  /\ SumFunction(DrawnTotal(g, t)) = get_metric_group_points(g, t).total
           /\ get_metric_group_points(g, t).over # 1 =>
                SumFunction(DrawnOver(g, t)) = get_metric_group_points(g, t).over
<1>1. PICK rows : rows = Joined(g, t)
  OBVIOUS
<1>2. PICK product : product = AddedBy(rows)
  OBVIOUS
<1>3. PICK weight : weight = RowsOf(rows)
  OBVIOUS
<1>4. PICK K : K = OfGroup(g)
  OBVIOUS
<1>5. PICK shown : shown = get_metric_group_points(g, t)
  OBVIOUS
<1>6. IsFiniteSet(rows) /\ IsFiniteSet(K) /\ K \subseteq DOMAIN SeriesOf
  <2>1. K \subseteq DOMAIN SeriesOf
    BY <1>4 DEF OfGroup
  <2>2. QED
    BY <1>1, <2>1, PointsOfChart, FS_Subset, MetricAssumption
<1>7. /\ shown.total = SumOn(product, rows)
      /\ shown.over = IF \E s \in K : SeriesOf[s].gauge THEN SumOn(weight, rows) ELSE 1
      /\ \A p \in rows : /\ weight[p] = Copies(p.series) /\ weight[p] \in Int
                         /\ product[p] = Copies(p.series) * p.v /\ product[p] \in Int
                         /\ p.series \in K
  BY <1>1, <1>2, <1>3, <1>4, <1>5, ChartSums
<1> DEFINE mine(s) == {p \in rows : p.series = s}
           k == [p \in rows |-> p.series]
<1>8. \A p \in rows : k[p] = p.series /\ k[p] \in K
  BY <1>7
<1>9. ASSUME NEW s \in K
      PROVE  /\ IsFiniteSet(mine(s)) /\ mine(s) = {p \in rows : k[p] = s}
             /\ SumFunction([p \in mine(s) |-> Copies(s) * p.v]) = SumOn(product, mine(s))
             /\ SumFunction([p \in mine(s) |-> Copies(s)]) = SumOn(weight, mine(s))
  <2>1. IsFiniteSet(mine(s)) /\ mine(s) = {p \in rows : k[p] = s}
    BY <1>6, FS_Subset
  <2>2. PICK of : of = mine(s)
    OBVIOUS
  <2>3. IsFiniteSet(of) /\ \A p \in of : p \in rows /\ p.series = s
    BY <2>1, <2>2
  <2>4. PICK values : values = [p \in of |-> Copies(s) * p.v]
    OBVIOUS
  <2>5. PICK counts : counts = [p \in of |-> Copies(s)]
    OBVIOUS
  <2>6. /\ \A p \in of : product[p] \in Int /\ values[p] = product[p]
        /\ \A p \in of : weight[p] \in Int /\ counts[p] = weight[p]
    BY <1>7, <2>3, <2>4, <2>5
  <2>7. SumOn(values, of) = SumOn(product, of) /\ SumOn(counts, of) = SumOn(weight, of)
    BY <2>3, <2>6, SumSame
  <2>8. DOMAIN values = of /\ DOMAIN counts = of
    BY <2>4, <2>5
  <2>9. SumFunction(values) = SumOn(values, of) /\ SumFunction(counts) = SumOn(counts, of)
    BY <2>8, SumOfFunction
  <2> HIDE DEF mine, k
  <2>10. QED
    BY <2>1, <2>2, <2>4, <2>5, <2>7, <2>9
<1>10. PICK totals : totals = DrawnTotal(g, t)
  OBVIOUS
<1>11. PICK overs : overs = DrawnOver(g, t)
  OBVIOUS
<1>12. /\ DOMAIN totals = K /\ DOMAIN overs = K
       /\ \A s \in K :
            /\ totals[s] = SumFunction([p \in mine(s) |-> Copies(s) * p.v])
            /\ overs[s] = IF SeriesOf[s].gauge THEN SumFunction([p \in mine(s) |-> Copies(s)]) ELSE 1
  BY <1>1, <1>4, <1>10, <1>11 DEF DrawnTotal, DrawnOver, render_metric_group_points_duckdb
<1> HIDE DEF mine, k
<1>13. SumFunction(totals) = shown.total
  <2>1. \A s \in K : totals[s] = SumOn(product, GroupOf(rows, k, s))
    BY <1>9, <1>12 DEF GroupOf
  <2>2. SumOn(totals, K) = SumOn(product, rows)
    BY <1>6, <1>7, <1>8, <2>1, SumGroups
  <2>3. QED
    BY <1>7, <1>12, <2>2, SumOfFunction
<1>14. ASSUME shown.over # 1 PROVE SumFunction(overs) = shown.over
  <2>1. \E s \in K : SeriesOf[s].gauge
    BY <1>7, <1>14
  <2>2. \A s \in K : SeriesOf[s].gauge
    <3>1. \A s, o \in K : SeriesOf[s].group = SeriesOf[o].group /\ s \in DOMAIN SeriesOf
      BY <1>4, <1>6 DEF OfGroup
    <3>2. QED
      BY <1>6, <2>1, <3>1, MetricAssumption
  <2>3. \A s \in K : overs[s] = SumOn(weight, GroupOf(rows, k, s))
    BY <1>9, <1>12, <2>2 DEF GroupOf
  <2>4. SumOn(overs, K) = SumOn(weight, rows)
    BY <1>6, <1>7, <1>8, <2>3, SumGroups
  <2>5. QED
    BY <1>7, <1>12, <2>1, <2>4, SumOfFunction
<1>15. QED
  BY <1>5, <1>10, <1>11, <1>13, <1>14

(* The playground's charts and its catalog agree with production's.        *)
LEMMA PlaygroundMetricsHold == MqInv => PlaygroundMetricsMirror
<1> SUFFICES ASSUME MqInv, NEW g \in Groups
             PROVE  /\ \A k \in Streams : render_metric_catalog_duckdb(g, k) = list_metrics(g, k)
                    /\ \A t \in 0 .. MaxTime :
                         LET drawn == [s \in OfGroup(g) |-> render_metric_group_points_duckdb(g, s, t)]
                             whole == get_metric_group_points(g, t)
                         IN  /\ SumFunction([s \in OfGroup(g) |-> drawn[s].total]) = whole.total
                             /\ whole.over # 1 =>
                                  SumFunction([s \in OfGroup(g) |-> drawn[s].over]) = whole.over
  BY DEF PlaygroundMetricsMirror
<1>1. \A k \in Streams : render_metric_catalog_duckdb(g, k) = list_metrics(g, k)
  BY DEF render_metric_catalog_duckdb, list_metrics
<1>2. ASSUME NEW t \in 0 .. MaxTime
      PROVE  LET drawn == [s \in OfGroup(g) |-> render_metric_group_points_duckdb(g, s, t)]
                 whole == get_metric_group_points(g, t)
             IN  /\ SumFunction([s \in OfGroup(g) |-> drawn[s].total]) = whole.total
                 /\ whole.over # 1 =>
                      SumFunction([s \in OfGroup(g) |-> drawn[s].over]) = whole.over
  <2> DEFINE drawn == [s \in OfGroup(g) |-> render_metric_group_points_duckdb(g, s, t)]
  <2>1. /\ [s \in OfGroup(g) |-> drawn[s].total] = DrawnTotal(g, t)
        /\ [s \in OfGroup(g) |-> drawn[s].over] = DrawnOver(g, t)
    BY DEF DrawnTotal, DrawnOver
  <2> HIDE DEF drawn
  <2>2. PICK totals : totals = DrawnTotal(g, t)
    OBVIOUS
  <2>3. PICK overs : overs = DrawnOver(g, t)
    OBVIOUS
  <2>4. /\ SumFunction(totals) = get_metric_group_points(g, t).total
        /\ get_metric_group_points(g, t).over # 1 =>
             SumFunction(overs) = get_metric_group_points(g, t).over
    BY <2>2, <2>3, DrawnAddUp
  <2>5. /\ [s \in OfGroup(g) |-> drawn[s].total] = totals
        /\ [s \in OfGroup(g) |-> drawn[s].over] = overs
    BY <2>1, <2>2, <2>3
  <2>6. QED
    BY <2>4, <2>5 DEF drawn
<1>3. QED
  BY <1>1, <1>2

-----------------------------------------------------------------------------
\* Finitely many points, no two of one time.
Distinct(rows) ==
    /\ IsFiniteSet(rows) /\ \A p \in rows : p.t \in Int /\ p.v \in Int
    /\ \A p, q \in rows : p.t = q.t => p = q

(* A later point goes to the end of the order.                             *)
LEMMA InTimeGrows ==
    ASSUME NEW T, Distinct(T), NEW x \in T, \A y \in T : y.t <= x.t,
           NEW s \in InTime(T \ {x})
    PROVE  InTime(T) # {}
<1>1. PICK n : n = Cardinality(T)
  OBVIOUS
<1>2. n \in Nat \ {0} /\ Cardinality(T \ {x}) = n - 1
  BY <1>1, FS_RemoveElement, FS_CardinalityType, FS_EmptySet DEF Distinct
<1>3. PICK R : R = T \ {x}
  OBVIOUS
<1>4. /\ s \in [1 .. (n - 1) -> R] /\ \A y \in R : \E i \in 1 .. (n - 1) : s[i] = y
      /\ \A i, j \in 1 .. (n - 1) : i < j => s[i].t < s[j].t
  <2>1. s \in [1 .. (n - 1) -> R] /\ Range(s) = R
    BY <1>2, <1>3 DEF InTime
  <2>2. DOMAIN s = 1 .. (n - 1)
    BY <2>1
  <2>3. QED
    BY <1>2, <1>3, <2>1, <2>2 DEF InTime, Range
<1>5. \A i \in 1 .. (n - 1) : s[i] \in R /\ s[i] \in T /\ s[i].t < x.t
  <2>1. ASSUME NEW i \in 1 .. (n - 1) PROVE s[i] \in R /\ s[i] \in T /\ s[i].t < x.t
    <3>1. s[i] \in R /\ s[i] \in T /\ s[i] # x
      BY <1>3, <1>4
    <3>2. s[i].t <= x.t /\ s[i].t # x.t /\ s[i].t \in Int /\ x.t \in Int
      BY <3>1 DEF Distinct
    <3>3. QED
      BY <3>1, <3>2
  <2>2. QED
    BY <2>1
<1> DEFINE q == [i \in 1 .. n |-> IF i = n THEN x ELSE s[i]]
<1>6. /\ q[n] = x /\ DOMAIN q = 1 .. n
      /\ \A i \in 1 .. n : i = n \/ (i \in 1 .. (n - 1) /\ q[i] = s[i])
  BY <1>2
<1>7. q \in [1 .. n -> T]
  <2>1. \A i \in 1 .. n : (IF i = n THEN x ELSE s[i]) \in T
    BY <1>2, <1>5
  <2>2. QED
    BY <2>1
<1> HIDE DEF q
<1>8. Range(q) = T
  <2>1. \A i \in 1 .. n : q[i] \in T
    BY <1>7
  <2>2. ASSUME NEW y \in T PROVE \E i \in 1 .. n : q[i] = y
    <3>1. CASE y = x
      BY <1>2, <1>6, <3>1
    <3>2. CASE y # x
      <4>1. PICK i \in 1 .. (n - 1) : s[i] = y
        BY <1>3, <1>4, <3>2
      <4>2. i \in 1 .. n /\ i # n
        BY <1>2
      <4>3. QED
        BY <1>6, <4>1, <4>2
    <3>3. QED
      BY <3>1, <3>2
  <2>3. QED
    BY <1>6, <2>1, <2>2 DEF Range
<1>9. ASSUME NEW i \in 1 .. n, NEW j \in 1 .. n, i < j PROVE q[i].t < q[j].t
  <2>1. i \in 1 .. (n - 1) /\ i # n
    BY <1>2, <1>9
  <2>2. q[i] = s[i]
    BY <1>6, <2>1
  <2>3. CASE j = n
    BY <1>5, <1>6, <2>1, <2>2, <2>3
  <2>4. CASE j # n
    BY <1>4, <1>6, <1>9, <2>1, <2>2, <2>4
  <2>5. QED
    BY <2>3, <2>4
<1>10. q \in InTime(T)
  BY <1>1, <1>6, <1>7, <1>8, <1>9 DEF InTime
<1>11. QED
  BY <1>10

(* Finitely many points of different times have an order in time.          *)
LEMMA InTimeExists ==
    ASSUME NEW rows, Distinct(rows)
    PROVE  InTime(rows) # {}
<1> DEFINE without == {T \in SUBSET rows : InTime(T) = {}}
<1>1. SUFFICES ASSUME without # {} PROVE FALSE
  OBVIOUS
<1>2. IsFiniteSet(rows)
  BY DEF Distinct
<1>3. PICK T \in without : \A U \in without : Cardinality(T) <= Cardinality(U)
  BY <1>1, <1>2, SmallestSet
<1>4. T \in SUBSET rows /\ InTime(T) = {}
  OBVIOUS
<1>5. Distinct(T) /\ IsFiniteSet(T)
  BY <1>4, FS_Subset DEF Distinct
<1>6. T # {}
  <2>1. SUFFICES ASSUME T = {} PROVE FALSE
    OBVIOUS
  <2>2. Cardinality(T) = 0
    BY <2>1, FS_EmptySet
  <2> DEFINE none == [i \in {} |-> i]
  <2>3. 1 .. 0 = {}
    OBVIOUS
  <2>4. none \in [1 .. 0 -> T] /\ DOMAIN none = {}
    BY <2>3
  <2>5. none \in InTime(T)
    BY <2>1, <2>2, <2>4 DEF InTime, Range
  <2>6. QED
    BY <1>4, <2>5
<1>7. PICK x \in T : \A y \in T : y.t <= x.t
  <2> DEFINE before == [y \in T |-> 0 - y.t]
  <2>1. \A y \in T : before[y] = 0 - y.t /\ before[y] \in Int /\ y.t \in Int
    BY <1>5 DEF Distinct
  <2> HIDE DEF before
  <2>2. PICK x \in T : \A y \in T : before[x] <= before[y]
    BY <1>5, <1>6, <2>1, FiniteLeast
  <2>3. \A y \in T : y.t <= x.t
    BY <2>1, <2>2
  <2>4. QED
    BY <2>3
<1>8. Cardinality(T \ {x}) = Cardinality(T) - 1 /\ Cardinality(T) \in Nat
  BY <1>5, FS_RemoveElement, FS_CardinalityType
<1>9. T \ {x} \notin without
  <2> HIDE DEF without
  <2>1. QED
    BY <1>3, <1>8
<1>10. PICK s : s \in InTime(T \ {x})
  BY <1>4, <1>9
<1>11. QED
  BY <1>4, <1>5, <1>7, <1>10, InTimeGrows

(* There is only one order in time.                                        *)
LEMMA InTimeUnique ==
    ASSUME NEW rows, Distinct(rows), NEW r \in InTime(rows), NEW s \in InTime(rows)
    PROVE  r = s
<1>1. PICK n : n = Cardinality(rows)
  OBVIOUS
<1>2. n \in Nat
  BY <1>1, FS_CardinalityType DEF Distinct
<1>3. \A q \in InTime(rows) :
        /\ q \in [1 .. n -> rows] /\ \A y \in rows : \E i \in 1 .. n : q[i] = y
        /\ \A i, j \in 1 .. n : i < j => q[i].t < q[j].t
  <2>1. ASSUME NEW q \in InTime(rows)
        PROVE  /\ q \in [1 .. n -> rows] /\ \A y \in rows : \E i \in 1 .. n : q[i] = y
               /\ \A i, j \in 1 .. n : i < j => q[i].t < q[j].t
    <3>1. q \in [1 .. n -> rows] /\ Range(q) = rows
      BY <1>1 DEF InTime
    <3>2. DOMAIN q = 1 .. n
      BY <3>1
    <3>3. QED
      BY <1>1, <3>1, <3>2 DEF InTime, Range
  <2>2. QED
    BY <2>1
<1> DEFINE differ == {i \in 1 .. n : r[i] # s[i]}
<1>4. ASSUME differ # {} PROVE FALSE
  <2>1. differ \in SUBSET Nat
    BY <1>2
  <2>2. PICK i \in differ : \A j \in differ : i <= j
    BY <1>4, <2>1, LeastNat
  <2>3. i \in 1 .. n /\ r[i] # s[i] /\ r[i] \in rows /\ s[i] \in rows
    BY <1>3, <2>2
  <2>4. \A j \in 1 .. n : j < i => r[j] = s[j]
    BY <2>2, <2>3
  <2> HIDE DEF differ
  <2>5. \A p \in rows : p.t \in Int
    BY DEF Distinct
  <2>6. r[i].t > s[i].t
    <3>1. PICK j \in 1 .. n : s[j] = r[i]
      BY <1>3, <2>3
    <3>2. ~ (j < i)
      <4>1. SUFFICES ASSUME j < i PROVE FALSE
        OBVIOUS
      <4>2. r[j] = r[i] /\ r[j].t < r[i].t
        BY <1>3, <2>3, <2>4, <3>1, <4>1
      <4>3. QED
        BY <2>3, <2>5, <4>2
    <3>3. i < j
      BY <2>3, <3>1, <3>2
    <3>4. QED
      BY <1>3, <2>3, <2>5, <3>1, <3>3
  <2>7. s[i].t > r[i].t
    <3>1. PICK j \in 1 .. n : r[j] = s[i]
      BY <1>3, <2>3
    <3>2. ~ (j < i)
      <4>1. SUFFICES ASSUME j < i PROVE FALSE
        OBVIOUS
      <4>2. s[j] = s[i] /\ s[j].t < s[i].t
        BY <1>3, <2>3, <2>4, <3>1, <4>1
      <4>3. QED
        BY <2>3, <2>5, <4>2
    <3>3. i < j
      BY <2>3, <3>1, <3>2
    <3>4. QED
      BY <1>3, <2>3, <2>5, <3>1, <3>3
  <2>8. QED
    BY <2>3, <2>5, <2>6, <2>7
<1>5. \A i \in 1 .. n : r[i] = s[i]
  BY <1>4
<1>6. r \in [1 .. n -> rows] /\ s \in [1 .. n -> rows]
  BY <1>3
<1> HIDE DEF differ
<1>7. r = [i \in 1 .. n |-> r[i]] /\ s = [i \in 1 .. n |-> s[i]]
  BY <1>6
<1>8. [i \in 1 .. n |-> r[i]] = [i \in 1 .. n |-> s[i]]
  BY <1>5
<1>9. QED
  BY <1>7, <1>8, Zenon

(* The samples of the points are the points in time order.                 *)
LEMMA SamplesAre ==
    ASSUME NEW rows, Distinct(rows), NEW n, n = Cardinality(rows), NEW s, s = Samples(rows)
    PROVE  /\ n \in Nat /\ s \in InTime(rows) /\ s \in [1 .. n -> rows]
           /\ Len(s) = n /\ DOMAIN s = 1 .. n
           /\ \A y \in rows : \E i \in 1 .. n : s[i] = y
           /\ \A i, j \in 1 .. n : i < j => s[i].t < s[j].t
           /\ \A i \in 1 .. n : s[i] \in rows /\ s[i].t \in Int /\ s[i].v \in Int
<1>1. n \in Nat
  BY FS_CardinalityType DEF Distinct
<1>2. s \in InTime(rows)
  BY InTimeExists DEF Samples
<1>3. s \in [1 .. n -> rows] /\ Range(s) = rows
  BY <1>2 DEF InTime
<1>4. DOMAIN s = 1 .. n
  BY <1>3
<1>5. Len(s) = n
  <2>1. s \in Seq(rows)
    BY <1>1, <1>3
  <2>2. Len(s) \in Nat /\ DOMAIN s = 1 .. Len(s)
    BY <2>1, LenProperties
  <2>3. QED
    BY <1>1, <1>4, <2>2
<1>6. \A y \in rows : \E i \in 1 .. n : s[i] = y
  BY <1>3, <1>4 DEF Range
<1>7. \A i, j \in 1 .. n : i < j => s[i].t < s[j].t
  BY <1>2, <1>4 DEF InTime
<1>8. \A i \in 1 .. n : s[i] \in rows /\ s[i].t \in Int /\ s[i].v \in Int
  BY <1>3 DEF Distinct
<1>9. QED
  BY <1>1, <1>2, <1>3, <1>4, <1>5, <1>6, <1>7, <1>8

(* Without the last point the samples are those before it.                 *)
LEMMA SamplesOfRest ==
    ASSUME NEW rows, Distinct(rows), NEW n, n = Cardinality(rows), n # 0,
           NEW s, s = Samples(rows), NEW rest, rest = rows \ {s[n]}, NEW q, q = Samples(rest)
    PROVE  /\ Distinct(rest) /\ Cardinality(rest) = n - 1
           /\ \A i \in 1 .. (n - 1) : q[i] = s[i]
<1>1. /\ n \in Nat /\ s \in [1 .. n -> rows]
      /\ \A y \in rows : \E i \in 1 .. n : s[i] = y
      /\ \A i, j \in 1 .. n : i < j => s[i].t < s[j].t
      /\ \A i \in 1 .. n : s[i] \in rows /\ s[i].t \in Int
  BY SamplesAre
<1>2. n \in 1 .. n /\ \A i \in 1 .. (n - 1) : i \in 1 .. n /\ i < n
  BY <1>1
<1>3. Distinct(rest)
  BY FS_RemoveElement DEF Distinct
<1>4. Cardinality(rest) = n - 1
  BY <1>1, <1>2, FS_RemoveElement DEF Distinct
<1> DEFINE p == [i \in 1 .. (n - 1) |-> s[i]]
<1>5. \A i \in 1 .. (n - 1) : s[i] \in rest
  <2>1. ASSUME NEW i \in 1 .. (n - 1) PROVE s[i] \in rest
    <3>1. s[i].t < s[n].t /\ s[i].t \in Int /\ s[n].t \in Int /\ s[i] \in rows
      BY <1>1, <1>2
    <3>2. s[i] # s[n]
      <4>1. s[i].t # s[n].t
        BY <3>1
      <4>2. QED
        BY <4>1
    <3>3. QED
      BY <3>1, <3>2
  <2>2. QED
    BY <2>1
<1>6. p \in [1 .. (n - 1) -> rest] /\ DOMAIN p = 1 .. (n - 1) /\ \A i \in 1 .. (n - 1) : p[i] = s[i]
  BY <1>5
<1> HIDE DEF p
<1>7. Range(p) = rest
  <2>1. ASSUME NEW y \in rest PROVE \E i \in 1 .. (n - 1) : p[i] = y
    <3>1. PICK i \in 1 .. n : s[i] = y
      BY <1>1
    <3>2. i # n
      BY <3>1
    <3>3. i \in 1 .. (n - 1)
      BY <1>1, <3>2
    <3>4. QED
      BY <1>6, <3>1, <3>3
  <2>2. \A i \in 1 .. (n - 1) : p[i] \in rest
    BY <1>5, <1>6
  <2>3. QED
    BY <1>6, <2>1, <2>2 DEF Range
<1>8. \A i, j \in DOMAIN p : i < j => p[i].t < p[j].t
  BY <1>1, <1>2, <1>6
<1>9. p \in InTime(rest)
  BY <1>4, <1>6, <1>7, <1>8 DEF InTime
<1>10. q \in InTime(rest)
  BY <1>3, InTimeExists DEF Samples
<1>11. q = p
  BY <1>3, <1>9, <1>10, InTimeUnique
<1>12. QED
  BY <1>3, <1>4, <1>6, <1>11

\* What each sample adds to the increase.
GainsOf(s, n) == [i \in 1 .. n |-> Delta(s, i)]

(* The gains of the samples of points, added up, are their increase.       *)
LEMMA IncreaseIsSum ==
    ASSUME NEW rows, Distinct(rows), NEW n, n = Cardinality(rows), NEW s, s = Samples(rows)
    PROVE  /\ increase_sql(rows) = SumOn(GainsOf(s, n), 1 .. n)
           /\ \A i \in 1 .. n : /\ GainsOf(s, n)[i] = Delta(s, i) /\ Delta(s, i) \in Int
           /\ n # 0 => Delta(s, 1) = 0
           /\ \A i \in 2 .. n : Delta(s, i) = IF s[i].v < s[i - 1].v THEN s[i].v
                                                ELSE s[i].v - s[i - 1].v
<1>1. n \in Nat /\ DOMAIN s = 1 .. n /\ \A i \in 1 .. n : s[i].v \in Int
  BY SamplesAre
<1>2. increase_sql(rows) = SumOn(GainsOf(s, n), 1 .. n)
  <2>1. PICK gains : gains = GainsOf(s, n)
    OBVIOUS
  <2>2. DOMAIN gains = 1 .. n
    BY <2>1 DEF GainsOf
  <2>3. increase_sql(rows) = SumFunction(gains)
    BY <1>1, <2>1 DEF increase_sql, GainsOf
  <2>4. QED
    BY <2>1, <2>2, <2>3, SumOfFunction
<1>3. Delta(s, 1) = 0
  BY DEF Delta
<1>4. \A i \in 2 .. n : Delta(s, i) = IF s[i].v < s[i - 1].v THEN s[i].v
                                        ELSE s[i].v - s[i - 1].v
  <2>1. \A i \in 2 .. n : i # 1 /\ i > 1
    BY <1>1
  <2>2. QED
    BY <2>1 DEF Delta
<1>5. \A i \in 1 .. n : Delta(s, i) \in Int
  <2>1. \A i \in 1 .. n : i = 1 \/ (i \in 2 .. n /\ i - 1 \in 1 .. n)
    BY <1>1
  <2>2. ASSUME NEW i \in 2 .. n PROVE Delta(s, i) \in Int
    <3>1. s[i].v \in Int /\ s[i - 1].v \in Int
      BY <1>1, <2>1
    <3>2. QED
      BY <1>4, <3>1
  <2>3. QED
    BY <1>3, <2>1, <2>2
<1>6. \A i \in 1 .. n : GainsOf(s, n)[i] = Delta(s, i)
  BY DEF GainsOf
<1>7. QED
  BY <1>2, <1>3, <1>4, <1>5, <1>6

\* The samples of one bucket.
BucketOf(s, n, width, b) == {i \in 1 .. n : s[i].t \div width = b}

(* The buckets of a rate add up to the increase.                           *)
LEMMA RateAddsUp ==
    ASSUME NEW rows, Distinct(rows), \A p \in rows : p.t \in 0 .. MaxTime,
           NEW width \in 1 .. (MaxTime + 1)
    PROVE  SumFunction(rate_sql(rows, width)) = increase_sql(rows)
<1>1. PICK n : n = Cardinality(rows)
  OBVIOUS
<1>2. PICK s : s = Samples(rows)
  OBVIOUS
<1>3. /\ n \in Nat /\ DOMAIN s = 1 .. n /\ IsFiniteSet(1 .. n)
      /\ \A i \in 1 .. n : s[i] \in rows
  BY <1>1, <1>2, SamplesAre, FS_Interval
<1>4. width \in Nat \ {0} /\ MaxTime \in Nat
  BY QueryAssumption
<1>5. PICK K : K = 0 .. (MaxTime \div width)
  OBVIOUS
<1>6. IsFiniteSet(K)
  BY <1>4, <1>5, Quotient, FS_Interval
<1>7. PICK gains : gains = GainsOf(s, n)
  OBVIOUS
<1>8. /\ increase_sql(rows) = SumOn(gains, 1 .. n)
      /\ \A i \in 1 .. n : gains[i] = Delta(s, i) /\ gains[i] \in Int
  BY <1>1, <1>2, <1>7, IncreaseIsSum
<1>9. PICK k : k = [i \in 1 .. n |-> s[i].t \div width]
  OBVIOUS
<1>10. \A i \in 1 .. n : k[i] = s[i].t \div width /\ k[i] \in K
  <2>1. ASSUME NEW i \in 1 .. n PROVE s[i].t \div width \in K
    <3>1. PICK a \in Nat : a = s[i].t /\ a <= MaxTime
      BY <1>3, <1>4
    <3>2. PICK x \in Nat : x = a \div width /\ x * width <= a
      BY <1>4, <3>1, Quotient
    <3>3. PICK y \in Nat : y = MaxTime \div width /\ MaxTime < y * width + width
      BY <1>4, Quotient
    <3>4. x <= y
      <4>1. SUFFICES ASSUME y + 1 <= x PROVE FALSE
        OBVIOUS
      <4>2. (y + 1) * width <= x * width /\ (y + 1) * width = y * width + width
        BY <1>4, <4>1
      <4>3. y * width \in Nat /\ x * width \in Nat
        BY <1>4
      <4>4. QED
        BY <1>4, <3>1, <3>2, <3>3, <4>2, <4>3
    <3>5. QED
      BY <1>5, <3>1, <3>2, <3>3, <3>4
  <2>2. QED
    BY <1>9, <2>1
<1>11. PICK rate : rate = rate_sql(rows, width)
  OBVIOUS
<1>12. DOMAIN rate = K /\ \A b \in K : rate[b] = SumFunction([i \in BucketOf(s, n, width, b) |-> Delta(s, i)])
  BY <1>2, <1>3, <1>5, <1>11 DEF rate_sql, BucketOf
<1>13. ASSUME NEW b \in K PROVE rate[b] = SumOn(gains, GroupOf(1 .. n, k, b))
  <2>1. PICK of : of = BucketOf(s, n, width, b)
    OBVIOUS
  <2>2. of \subseteq 1 .. n /\ of = GroupOf(1 .. n, k, b)
    BY <1>10, <2>1 DEF BucketOf, GroupOf
  <2>3. IsFiniteSet(of)
    BY <1>3, <2>2, FS_Subset
  <2>4. PICK part : part = [i \in of |-> Delta(s, i)]
    OBVIOUS
  <2>5. DOMAIN part = of /\ \A i \in of : gains[i] \in Int /\ part[i] = gains[i]
    BY <1>8, <2>2, <2>4
  <2>6. SumOn(part, of) = SumOn(gains, of)
    BY <2>3, <2>5, SumSame
  <2>7. rate[b] = SumFunction(part)
    BY <1>12, <2>1, <2>4
  <2>8. QED
    BY <2>2, <2>5, <2>6, <2>7, SumOfFunction
<1>14. SumOn(rate, K) = SumOn(gains, 1 .. n)
  <2>1. PICK S : S = 1 .. n
    OBVIOUS
  <2>2. /\ IsFiniteSet(S) /\ \A i \in S : gains[i] \in Int /\ k[i] \in K
        /\ \A b \in K : rate[b] = SumOn(gains, GroupOf(S, k, b))
    BY <1>3, <1>8, <1>10, <1>13, <2>1
  <2>3. SumOn(rate, K) = SumOn(gains, S)
    BY <1>6, <2>2, SumGroups
  <2>4. QED
    BY <2>1, <2>3
<1>15. QED
  BY <1>8, <1>11, <1>12, <1>14, SumOfFunction

(* The increase is what the counter gained and what its resets hid.        *)
LEMMA IncreaseIsGain ==
    ASSUME NEW rows, Distinct(rows), rows # {}, NEW s, s = Samples(rows)
    PROVE  increase_sql(rows) = s[Len(s)].v - s[1].v
              + SumFunction([i \in {j \in 2 .. Len(s) : s[j].v < s[j - 1].v} |-> s[i - 1].v])
<1>1. PICK n : n = Cardinality(rows)
  OBVIOUS
<1>2. /\ n \in Nat /\ Len(s) = n /\ \A i \in 1 .. n : s[i].v \in Int
  BY <1>1, SamplesAre
<1>3. n \in Nat \ {0}
  BY <1>1, <1>2, FS_EmptySet DEF Distinct
<1>4. PICK gains : gains = GainsOf(s, n)
  OBVIOUS
<1>5. /\ increase_sql(rows) = SumOn(gains, 1 .. n)
      /\ \A i \in 1 .. n : gains[i] = Delta(s, i)
      /\ Delta(s, 1) = 0
      /\ \A i \in 2 .. n : Delta(s, i) = IF s[i].v < s[i - 1].v THEN s[i].v ELSE s[i].v - s[i - 1].v
  BY <1>1, <1>3, <1>4, IncreaseIsSum
<1>6. PICK v : v = [i \in 1 .. n |-> s[i].v]
  OBVIOUS
<1>7. PICK resets : resets = {j \in 2 .. n : v[j] < v[j - 1]}
  OBVIOUS
<1>8. PICK hid : hid = [i \in 2 .. n |-> s[i - 1].v]
  OBVIOUS
<1>9. 1 \in 1 .. n /\ n \in 1 .. n /\ \A i \in 2 .. n : i \in 1 .. n /\ i - 1 \in 1 .. n
  BY <1>3
<1>10. AreGains(n, v, gains, hid)
  <2>1. \A i \in 1 .. n : v[i] = s[i].v /\ v[i] \in Int
    BY <1>2, <1>6
  <2>2. gains[1] = 0
    BY <1>5, <1>9
  <2>3. ASSUME NEW i \in 2 .. n
        PROVE  /\ gains[i] = IF v[i] < v[i - 1] THEN v[i] ELSE v[i] - v[i - 1]
               /\ hid[i] = v[i - 1]
    <3>1. v[i] = s[i].v /\ v[i - 1] = s[i - 1].v /\ gains[i] = Delta(s, i)
      BY <1>5, <1>9, <2>1
    <3>2. Delta(s, i) = IF s[i].v < s[i - 1].v THEN s[i].v ELSE s[i].v - s[i - 1].v
      BY <1>5
    <3>3. gains[i] = IF v[i] < v[i - 1] THEN v[i] ELSE v[i] - v[i - 1]
      BY <3>1, <3>2
    <3>4. QED
      BY <1>8, <3>1, <3>3
  <2>4. QED
    BY <2>1, <2>2, <2>3 DEF AreGains
<1>11. SumOn(gains, 1 .. n) = v[n] - v[1] + SumOn(hid, resets)
  BY <1>3, <1>7, <1>10, GainsAddUp
<1>12. resets = {j \in 2 .. n : s[j].v < s[j - 1].v}
  BY <1>6, <1>7, <1>9
<1>13. SumFunction([i \in resets |-> s[i - 1].v]) = SumOn(hid, resets)
  <2>1. PICK values : values = [i \in resets |-> s[i - 1].v]
    OBVIOUS
  <2>2. resets \subseteq 2 .. n /\ IsFiniteSet(resets)
    <3>1. resets \subseteq 1 .. n /\ IsFiniteSet(1 .. n)
      BY <1>3, <1>7, <1>9, FS_Interval
    <3>2. QED
      BY <1>7, <3>1, FS_Subset
  <2>3. DOMAIN values = resets /\ \A i \in resets : hid[i] \in Int /\ values[i] = hid[i]
    BY <1>2, <1>8, <1>9, <2>1, <2>2
  <2>4. SumOn(values, resets) = SumOn(hid, resets)
    BY <2>2, <2>3, SumSame
  <2>5. QED
    BY <2>1, <2>3, <2>4, SumOfFunction
<1>14. v[n] = s[n].v /\ v[1] = s[1].v
  BY <1>6, <1>9
<1>15. QED
  BY <1>2, <1>5, <1>11, <1>12, <1>13, <1>14

(* A rate is for a length of time, and of two samples.                     *)
LEMMA RatesOfTwo ==
    ASSUME NEW rows, Distinct(rows), rows # {}, NEW s, s = Samples(rows)
    PROVE  /\ \A last \in irate_sql(rows) : last.over > 0
           /\ Len(s) > 1 <=> \E last \in irate_sql(rows) : last.delta # {}
<1>1. PICK n : n = Cardinality(rows)
  OBVIOUS
<1>2. /\ n \in Nat /\ Len(s) = n /\ \A i \in 1 .. n : s[i].v \in Int /\ s[i].t \in Int
      /\ \A i, j \in 1 .. n : i < j => s[i].t < s[j].t
  BY <1>1, SamplesAre
<1>3. CASE n > 1
  <2>1. PICK d : d = IF s[n].v < s[n - 1].v THEN s[n].v ELSE s[n].v - s[n - 1].v
    OBVIOUS
  <2>2. PICK over : over = s[n].t - s[n - 1].t
    OBVIOUS
  <2>3. n \in 1 .. n /\ n - 1 \in 1 .. n /\ n - 1 < n
    BY <1>2, <1>3
  <2>4. s[n].t \in Int /\ s[n - 1].t \in Int /\ s[n - 1].t < s[n].t
    BY <1>2, <2>3
  <2>5. over > 0
    BY <2>2, <2>4
  <2>6. irate_sql(rows) = {[delta |-> {d}, over |-> over]}
    BY <1>2, <1>3, <2>1, <2>2 DEF irate_sql
  <2>7. QED
    BY <1>2, <1>3, <2>5, <2>6
<1>4. CASE ~ (n > 1)
  <2>1. irate_sql(rows) = {[delta |-> {}, over |-> p.t] : p \in {q \in rows : q.t > 0}}
    BY <1>2, <1>4 DEF irate_sql
  <2>2. QED
    BY <1>2, <1>4, <2>1
<1>5. QED
  BY <1>3, <1>4

(* The last two samples add to the increase what irate reports.            *)
LEMMA LastGain ==
    ASSUME NEW rows, Distinct(rows), rows # {}, NEW s, s = Samples(rows),
           NEW last \in irate_sql(rows), NEW d \in last.delta
    PROVE  increase_sql(rows) = increase_sql(rows \ {s[Len(s)]}) + d
<1>1. PICK n : n = Cardinality(rows)
  OBVIOUS
<1>2. /\ n \in Nat /\ Len(s) = n /\ \A i \in 1 .. n : s[i].v \in Int /\ s[i].t \in Int
      /\ \A i, j \in 1 .. n : i < j => s[i].t < s[j].t
  BY <1>1, SamplesAre
<1>3. n >= 2 /\ d = IF s[n].v < s[n - 1].v THEN s[n].v ELSE s[n].v - s[n - 1].v
  <2>1. n > 1
    BY <1>2 DEF irate_sql
  <2>2. last.delta = {IF s[n].v < s[n - 1].v THEN s[n].v ELSE s[n].v - s[n - 1].v}
    BY <1>2, <2>1 DEF irate_sql
  <2>3. QED
    BY <1>2, <2>1, <2>2
<1>4. n \in 2 .. n /\ n \in 1 .. n /\ n - 1 \in 1 .. n /\ n - 1 \in Nat /\ n - 1 < n
  BY <1>2, <1>3
<1>5. PICK rest : rest = rows \ {s[n]}
  OBVIOUS
<1>6. PICK q : q = Samples(rest)
  OBVIOUS
<1>7. Distinct(rest) /\ Cardinality(rest) = n - 1 /\ \A i \in 1 .. (n - 1) : q[i] = s[i]
  BY <1>1, <1>3, <1>5, <1>6, SamplesOfRest
<1>8. PICK gains : gains = GainsOf(s, n)
  OBVIOUS
<1>9. PICK before : before = GainsOf(q, n - 1)
  OBVIOUS
<1>10. /\ increase_sql(rows) = SumOn(gains, 1 .. n)
       /\ \A i \in 1 .. n : gains[i] = Delta(s, i) /\ gains[i] \in Int
       /\ Delta(s, 1) = 0
       /\ \A i \in 2 .. n : Delta(s, i) = IF s[i].v < s[i - 1].v THEN s[i].v ELSE s[i].v - s[i - 1].v
  BY <1>1, <1>3, <1>8, IncreaseIsSum
<1>11. PICK m : m = n - 1
  OBVIOUS
<1>12. /\ increase_sql(rest) = SumOn(before, 1 .. m)
       /\ \A i \in 1 .. m : before[i] = Delta(q, i) /\ before[i] \in Int
       /\ Delta(q, 1) = 0
       /\ \A i \in 2 .. m : Delta(q, i) = IF q[i].v < q[i - 1].v THEN q[i].v ELSE q[i].v - q[i - 1].v
  <2>1. Distinct(rest) /\ m = Cardinality(rest) /\ m # 0 /\ q = Samples(rest)
    BY <1>3, <1>4, <1>6, <1>7, <1>11
  <2>2. before = GainsOf(q, m)
    BY <1>9, <1>11
  <2>3. /\ increase_sql(rest) = SumOn(GainsOf(q, m), 1 .. m)
        /\ \A i \in 1 .. m : GainsOf(q, m)[i] = Delta(q, i) /\ Delta(q, i) \in Int
        /\ Delta(q, 1) = 0
        /\ \A i \in 2 .. m : Delta(q, i) = IF q[i].v < q[i - 1].v THEN q[i].v ELSE q[i].v - q[i - 1].v
    BY <2>1, IncreaseIsSum
  <2>4. QED
    BY <2>2, <2>3
<1>13. \A i \in 1 .. m : gains[i] = before[i]
  <2>1. ASSUME NEW i \in 1 .. m PROVE Delta(s, i) = Delta(q, i)
    <3>1. CASE i = 1
      BY <1>10, <1>12, <3>1
    <3>2. CASE i # 1
      <4>1. i \in 2 .. m /\ i \in 2 .. n /\ i \in 1 .. (n - 1) /\ i - 1 \in 1 .. (n - 1)
        BY <1>4, <1>11, <3>2
      <4>2. q[i] = s[i] /\ q[i - 1] = s[i - 1]
        BY <1>7, <4>1
      <4>3. QED
        BY <1>10, <1>12, <4>1, <4>2
    <3>3. QED
      BY <3>1, <3>2
  <2>2. \A i \in 1 .. m : i \in 1 .. n
    BY <1>4, <1>11
  <2>3. QED
    BY <1>10, <1>12, <2>1, <2>2
<1>14. SumOn(gains, 1 .. n) = SumOn(before, 1 .. m) + gains[n]
  <2>1. PICK S : S = 1 .. m
    OBVIOUS
  <2>2. IsFiniteSet(S) /\ n \notin S /\ S \union {n} = 1 .. n
    <3>1. IsFiniteSet(S)
      BY <1>4, <1>11, <2>1, FS_Interval
    <3>2. \A i : i \in 1 .. n <=> i \in 1 .. m \/ i = n
      BY <1>4, <1>11
    <3>3. n \notin 1 .. m
      BY <1>4, <1>11
    <3>4. QED
      BY <2>1, <3>1, <3>2, <3>3
  <2>3. \A i \in S \union {n} : gains[i] \in Int
    BY <1>10, <2>2
  <2>4. SumOn(gains, S \union {n}) = SumOn(gains, S) + gains[n]
    BY <2>2, <2>3, SumPlus
  <2>5. SumOn(gains, S) = SumOn(before, S)
    BY <1>12, <1>13, <2>1, <2>2, SumSame
  <2>6. QED
    BY <2>1, <2>2, <2>4, <2>5
<1>15. gains[n] = d
  BY <1>3, <1>4, <1>10
<1>16. QED
  BY <1>2, <1>5, <1>10, <1>12, <1>14, <1>15

(* The rates of a counter, its increase and its last rate agree.           *)
LEMMA RatesHold == PointsInv => RatesAddUp
<1> SUFFICES ASSUME PointsInv, points # {} PROVE RatesAddUp
  BY DEF RatesAddUp
<1>1. Distinct(points) /\ \A p \in points : p.t \in 0 .. MaxTime
  <2>1. \A p \in points : p.t \in 0 .. MaxTime /\ p.v \in Int
    BY QueryAssumption DEF PointsInv
  <2>2. \A p \in points : p.t \in Int
    BY <2>1, QueryAssumption
  <2>3. QED
    BY <2>1, <2>2 DEF PointsInv, Distinct
<1>2. \A width \in 1 .. (MaxTime + 1) :
        SumFunction(rate_sql(points, width)) = increase_sql(points)
  BY <1>1, RateAddsUp
<1>3. PICK s : s = Samples(points)
  OBVIOUS
<1>4. increase_sql(points) = s[Len(s)].v - s[1].v
         + SumFunction([i \in {j \in 2 .. Len(s) : s[j].v < s[j - 1].v} |-> s[i - 1].v])
  BY <1>1, <1>3, IncreaseIsGain
<1>5. \A last \in irate_sql(points) : \A d \in last.delta :
        increase_sql(points) = increase_sql(points \ {s[Len(s)]}) + d
  BY <1>1, <1>3, LastGain
<1>6. /\ \A last \in irate_sql(points) : last.over > 0
      /\ Len(s) > 1 <=> \E last \in irate_sql(points) : last.delta # {}
  BY <1>1, <1>3, RatesOfTwo
<1>7. QED
  BY <1>2, <1>3, <1>4, <1>5, <1>6 DEF RatesAddUp

(* The points of the counter stay as PointsInv says (PointArrives).        *)
LEMMA PointsInvariant == TqSpec => []PointsInv
<1>1. TqInit => PointsInv
  BY FS_EmptySet DEF TqInit, PointsInv
<1>2. PointsInv /\ [TqNext]_tqVars => PointsInv'
  <2> SUFFICES ASSUME PointsInv, [TqNext]_tqVars PROVE PointsInv'
    OBVIOUS
  <2>1. ASSUME NEW p \in PointPool, PointArrives(p) PROVE PointsInv'
    <3>1. points' = points \union {p} /\ \A q \in points : q.t # p.t
      BY <2>1 DEF PointArrives
    <3>2. IsFiniteSet(points \union {p})
      BY FS_AddElement DEF PointsInv
    <3>3. \A a, b \in points \union {p} : a.t = b.t => a = b
      BY <3>1 DEF PointsInv
    <3>4. QED
      BY <3>1, <3>2, <3>3 DEF PointsInv
  <2>2. CASE UNCHANGED points
    BY <2>2 DEF PointsInv
  <2>3. CASE LogNext \/ SpanNext \/ UNCHANGED tqVars
    <3>1. UNCHANGED points
      BY <2>3 DEF LogNext, SpanNext, LogArrives, SpanArrives, TailPolls, SearchCounts,
                  SearchFetches, ContextFindsPivot, ContextReadsBefore, ContextReadsAfter,
                  RequestEnds, tqVars
    <3>2. QED
      BY <2>2, <3>1
  <2>4. QED
    BY <2>1, <2>3 DEF TqNext, PointNext
<1>3. QED
  BY <1>1, <1>2, PTL DEF TqSpec

(* The buckets of a rate query add up to the increase, and the increase to *)
(* what the counter gained and its resets hid, whatever points arrived in  *)
(* whatever order (PointArrives).                                          *)
THEOREM CountersAddUp == TqSpec => []RatesAddUp
  BY PointsInvariant, RatesHold, PTL

(* Catalog and charts agree with the series opened one by one, and the     *)
(* playground with production, whatever was flushed and merged             *)
(* (insert_metric_series, insert_metric_points, MergeParts).               *)
THEOREM ChartsAgreeAlways == MqSpec => [](MetricViewsAgree /\ PlaygroundMetricsMirror)
  BY MqInvariant, MetricViewsHold, PlaygroundMetricsHold, PTL

(* What rates, catalog and charts show agrees, in production and in the    *)
(* playground.                                                             *)
THEOREM MetricViewsAgreeAlways == TqSpec /\ MqSpec => []AllMetricViewsAgree
<1>1. RatesAddUp /\ MetricViewsAgree /\ PlaygroundMetricsMirror => AllMetricViewsAgree
  BY DEF AllMetricViewsAgree, MetricsAddUp
<1>2. QED
  BY <1>1, CountersAddUp, ChartsAgreeAlways, PTL

-----------------------------------------------------------------------------
(* Questions in natural language.                                          *)

\* F picks the elements of s at the positions in keep, one position after
\* the other up to n.
Picks(F, s, keep, n) ==
  F = [i \in 0 .. n |-> IF i = 0 THEN <<>>
                        ELSE IF i \in keep THEN Append(F[i - 1], s[i]) ELSE F[i - 1]]

(* A sequence can be picked from, up to any of its positions (Kept).       *)
LEMMA PicksExist ==
    ASSUME NEW s, NEW keep, NEW n \in Nat
    PROVE  \E F : Picks(F, s, keep, n)
<1> DEFINE reach == {m \in Nat : \E F : Picks(F, s, keep, m)}
<1>1. 0 \in reach
  <2> DEFINE F == [i \in 0 .. 0 |-> <<>>]
  <2>1. \A i \in 0 .. 0 : i = 0
    OBVIOUS
  <2>2. Picks(F, s, keep, 0)
    BY <2>1 DEF Picks
  <2>3. QED
    BY <2>2
<1>2. ASSUME NEW m \in reach PROVE m + 1 \in reach
  <2>1. m \in Nat
    OBVIOUS
  <2>2. PICK F : Picks(F, s, keep, m)
    BY <1>2
  <2> DEFINE G == [i \in 0 .. (m + 1) |->
                     IF i <= m THEN F[i]
                     ELSE IF i \in keep THEN Append(F[i - 1], s[i]) ELSE F[i - 1]]
  <2>3. \A i \in 0 .. (m + 1) :
           G[i] = IF i = 0 THEN <<>>
                  ELSE IF i \in keep THEN Append(G[i - 1], s[i]) ELSE G[i - 1]
    <3> SUFFICES ASSUME NEW i \in 0 .. (m + 1)
                 PROVE  G[i] = IF i = 0 THEN <<>>
                               ELSE IF i \in keep THEN Append(G[i - 1], s[i]) ELSE G[i - 1]
      OBVIOUS
    <3>1. i # 0 => i - 1 \in 0 .. m /\ G[i - 1] = F[i - 1]
      BY <2>1
    <3>2. i <= m => i \in 0 .. m
      BY <2>1
    <3>3. i <= m => G[i] = F[i]
      OBVIOUS
    <3>4. i <= m => F[i] = IF i = 0 THEN <<>>
                           ELSE IF i \in keep THEN Append(F[i - 1], s[i]) ELSE F[i - 1]
      BY <2>2, <3>2 DEF Picks
    <3>5. ~(i <= m) => i # 0
      BY <2>1
    <3>6. ~(i <= m) => G[i] = IF i \in keep THEN Append(F[i - 1], s[i]) ELSE F[i - 1]
      OBVIOUS
    <3> HIDE DEF G
    <3>7. QED
      BY <3>1, <3>3, <3>4, <3>5, <3>6
  <2>4. Picks(G, s, keep, m + 1)
    <3>1. G = [i \in 0 .. (m + 1) |-> G[i]]
      OBVIOUS
    <3> HIDE DEF G
    <3>2. QED
      BY <2>3, <3>1, Zenon DEF Picks
  <2>5. QED
    BY <2>1, <2>4
<1> HIDE DEF reach
<1>3. reach \in SUBSET Nat
  BY DEF reach
<1>4. reach = Nat
  BY <1>1, <1>2, <1>3, NatSets
<1>5. QED
  BY <1>4 DEF reach

(* What is picked up to a position holds the elements of the positions     *)
(* kept so far and nothing else.                                           *)
LEMMA PicksHold ==
    ASSUME NEW S, NEW s \in Seq(S), NEW keep, NEW F, Picks(F, s, keep, Len(s))
    PROVE  /\ F[Len(s)] \in Seq(S)
           /\ \A i \in 1 .. Len(s) : i \in keep =>
                 \E j \in 1 .. Len(F[Len(s)]) : F[Len(s)][j] = s[i]
<1> DEFINE good(n) == /\ F[n] \in Seq(S)
                      /\ \A i \in 1 .. n : i \in keep => \E j \in 1 .. Len(F[n]) : F[n][j] = s[i]
           ok == {n \in Nat : n <= Len(s) => good(n)}
<1>1. Len(s) \in Nat
  OBVIOUS
<1>2. F[0] = <<>>
  BY <1>1 DEF Picks
<1>3. \A i \in 0 .. Len(s) : F[i] = IF i = 0 THEN <<>>
                                    ELSE IF i \in keep THEN Append(F[i - 1], s[i]) ELSE F[i - 1]
  BY DEF Picks
<1>4. 0 \in ok
  <2>1. good(0)
    BY <1>2
  <2> HIDE DEF good
  <2>2. QED
    BY <2>1
<1>5. ASSUME NEW n \in ok PROVE n + 1 \in ok
  <2> HIDE DEF good
  <2>0. n \in Nat /\ n + 1 \in Nat /\ (n <= Len(s) => good(n))
    OBVIOUS
  <2> SUFFICES ASSUME n + 1 <= Len(s) PROVE good(n + 1)
    BY <2>0
  <2>1. n \in Nat /\ n + 1 \in 0 .. Len(s) /\ n + 1 \in 1 .. Len(s) /\ n <= Len(s)
    BY <1>1, <2>0
  <2>2. good(n)
    BY <2>1, <2>0
  <2>3. F[n + 1] = IF n + 1 = 0 THEN <<>>
                   ELSE IF n + 1 \in keep THEN Append(F[n + 1 - 1], s[n + 1]) ELSE F[n + 1 - 1]
    BY <1>3, <2>1
  <2>4. n + 1 - 1 = n /\ n + 1 # 0
    BY <2>1
  <2>5. PICK old : old = F[n]
    OBVIOUS
  <2>6. PICK new : new = F[n + 1]
    OBVIOUS
  <2>7. new = IF n + 1 \in keep THEN Append(old, s[n + 1]) ELSE old
    BY <2>3, <2>4, <2>5, <2>6
  <2>8. old \in Seq(S) /\ \A i \in 1 .. n : i \in keep => \E j \in 1 .. Len(old) : old[j] = s[i]
    BY <2>2, <2>5 DEF good
  <2>9. s[n + 1] \in S
    BY <2>1
  <2>10. new \in Seq(S)
    BY <2>7, <2>8, <2>9
  <2>11. \A j \in 1 .. Len(old) : j \in 1 .. Len(new) /\ new[j] = old[j]
    BY <2>7, <2>8, <2>9
  <2>12. n + 1 \in keep => Len(new) \in 1 .. Len(new) /\ new[Len(new)] = s[n + 1]
    BY <2>7, <2>8, <2>9
  <2>13. ASSUME NEW i \in 1 .. n + 1, i \in keep
         PROVE  \E j \in 1 .. Len(new) : new[j] = s[i]
    <3>1. i \in 1 .. n \/ i = n + 1
      BY <2>1
    <3>2. QED
      BY <2>8, <2>11, <2>12, <2>13, <3>1
  <2>14. QED
    BY <2>6, <2>10, <2>13 DEF good
<1> HIDE DEF ok, good
<1>6. ok \in SUBSET Nat
  BY DEF ok
<1>7. ok = Nat
  BY <1>4, <1>5, <1>6, NatSets
<1>8. good(Len(s))
  BY <1>1, <1>7 DEF ok
<1>9. QED
  BY <1>8 DEF good

(* The elements kept of a sequence are a sequence of its elements, among   *)
(* them every one at a position to keep.                                   *)
LEMMA KeptHolds ==
    ASSUME NEW S, NEW s \in Seq(S), NEW keep
    PROVE  /\ Kept(s, keep) \in Seq(S)
           /\ \A i \in 1 .. Len(s) : i \in keep =>
                 \E j \in 1 .. Len(Kept(s, keep)) : Kept(s, keep)[j] = s[i]
<1> DEFINE F == CHOOSE kept : Picks(kept, s, keep, Len(s))
<1>1. Len(s) \in Nat
  OBVIOUS
<1>2. Picks(F, s, keep, Len(s))
  BY <1>1, PicksExist
<1>3. Kept(s, keep) = F[Len(s)]
  BY DEF Kept, Picks
<1> HIDE DEF F
<1>4. QED
  BY <1>2, <1>3, PicksHold

(* The same IR means the same query in every envelope of an answer         *)
(* (parse_llm_response).                                                   *)
LEMMA EnvelopesHold == EnvelopesAgree
<1> SUFFICES ASSUME NEW a \in Answers, a.json, a.type = "ir", a.ir.present,
                    a.ir.object, a.ir.operation \in PromotedOps
             PROVE  LET direct == parse_llm_response(a)
                    IN  /\ parse_llm_response(Answer(TRUE, "response", a.ir, Missing, NoRaw)) = direct
                        /\ parse_llm_response(Answer(TRUE, "response", Missing, a.ir, NoRaw)) = direct
                        /\ parse_llm_response(Answer(TRUE, "", Missing, Missing, a.ir)) = direct
                        /\ parse_llm_response(Answer(TRUE, a.ir.operation, Missing, Missing,
                                                     [a.ir EXCEPT !.operation = ""])) = direct
  BY DEF EnvelopesAgree
<1>1. a \in AnswerBodies
  BY NlqAssumption
<1>2. PICK raw \in RawIrs : raw = a.ir
  BY <1>1 DEF AnswerBodies
<1>3. PICK op : op = raw.operation
  OBVIOUS
<1> DEFINE direct == Deserialize(normalize_nlq_ir(raw))
<1>4. raw.present = TRUE /\ raw.object = TRUE
  BY <1>2 DEF RawIrs
<1>5. op \in PromotedOps
  BY <1>2, <1>3
<1>6. parse_llm_response(a) = direct
  BY <1>2, <1>4 DEF parse_llm_response, Panics
<1>7. Promote(raw, "response") = raw /\ Promote(raw, "") = raw
  BY DEF Promote, PromotedOps, RawIrs
<1>8. Promote([raw EXCEPT !.operation = ""], op) = raw
  <2>1. [[raw EXCEPT !.operation = ""] EXCEPT !.operation = op] = raw
    BY <1>3 DEF RawIrs
  <2>2. [raw EXCEPT !.operation = ""].operation = ""
    BY DEF RawIrs
  <2>3. QED
    BY <1>5, <2>1, <2>2 DEF Promote
<1>9. ~Missing.present
  BY DEF Missing, NoRaw, RawIr
<1>10. direct.kind = "ir" \/ direct = Parsed("invalid", NoIr)
  <2>1. \A x : Deserialize(x).kind = "ir" \/ Deserialize(x) = Parsed("invalid", NoIr)
    BY DEF Deserialize, Parsed
  <2>2. QED
    BY <2>1
<1> HIDE DEF direct
<1>11. Parsed("invalid", NoIr).kind # "ir"
  BY DEF Parsed
<1>12. ASSUME NEW e, e = Answer(TRUE, "response", raw, Missing, NoRaw)
       PROVE  parse_llm_response(e) = direct
  <2>1. e.json = TRUE /\ e.type = "response" /\ e.ir = raw /\ e.content = Missing
    BY <1>12 DEF Answer
  <2>2. FromHybridEnvelope(e) = direct
    BY <1>4, <1>7, <2>1 DEF FromHybridEnvelope, direct
  <2>3. FromChatWrapper(e) = Parsed("invalid", NoIr)
    BY <1>9, <2>1 DEF FromChatWrapper
  <2>4. QED
    BY <1>4, <1>10, <2>1, <2>2, <2>3 DEF parse_llm_response, Panics, ChatTypes
<1>13. ASSUME NEW e, e = Answer(TRUE, "response", Missing, raw, NoRaw)
       PROVE  parse_llm_response(e) = direct
  <2>1. e.json = TRUE /\ e.type = "response" /\ e.ir = Missing /\ e.content = raw
    BY <1>13 DEF Answer
  <2>2. FromHybridEnvelope(e) = Parsed("invalid", NoIr)
    BY <1>9, <2>1 DEF FromHybridEnvelope
  <2>3. FromChatWrapper(e) = direct
    BY <1>4, <2>1 DEF FromChatWrapper, direct
  <2>4. QED
    BY <1>9, <1>11, <2>1, <2>2, <2>3 DEF parse_llm_response, Panics, ChatTypes
<1>14. ASSUME NEW e, e = Answer(TRUE, "", Missing, Missing, raw)
       PROVE  parse_llm_response(e) = direct
  <2>1. e.json = TRUE /\ e.type = "" /\ e.ir = Missing /\ e.top = raw
    BY <1>14 DEF Answer
  <2>2. FromHybridEnvelope(e) = Parsed("invalid", NoIr)
    BY <1>9, <2>1 DEF FromHybridEnvelope
  <2>3. FromBareIr(e) = direct
    BY <1>7, <2>1 DEF FromBareIr, direct
  <2>4. QED
    BY <1>9, <1>11, <2>1, <2>2, <2>3 DEF parse_llm_response, Panics, ChatTypes
<1>15. ASSUME NEW e, e = Answer(TRUE, op, Missing, Missing, [raw EXCEPT !.operation = ""])
       PROVE  parse_llm_response(e) = direct
  <2>1. e.json = TRUE /\ e.type = op /\ e.ir = Missing /\ e.top = [raw EXCEPT !.operation = ""]
    BY <1>15 DEF Answer
  <2>2. FromHybridEnvelope(e) = Parsed("invalid", NoIr)
    BY <1>9, <2>1 DEF FromHybridEnvelope
  <2>3. FromBareIr(e) = direct
    BY <1>8, <2>1 DEF FromBareIr, direct
  <2>4. op # "ir" /\ op \notin {"decline", "capabilities"} /\ op \notin ChatTypes
    BY <1>5 DEF PromotedOps, ChatTypes
  <2>5. QED
    BY <1>9, <1>11, <2>1, <2>2, <2>3, <2>4 DEF parse_llm_response, Panics
<1>16. QED
  BY <1>2, <1>3, <1>6, <1>12, <1>13, <1>14, <1>15

(* A guess in another case resolves to the registered metric of that name  *)
(* (fuzzy_resolve_metric).                                                 *)
LEMMA GuessesHold == GuessesResolve
<1> SUFFICES ASSUME NEW i \in DOMAIN Registered, NEW guess \in {Registered[i], LowerName(Registered[i])}
             PROVE  LowerName(fuzzy_resolve_metric(guess, Registered)) = LowerName(guess)
  BY DEF GuessesResolve
<1>1. PICK known \in Seq(Seq(Names)) : known = Registered
  BY NlqAssumption
<1>2. PICK name \in Seq(Names) : name = known[i]
  BY <1>1
<1>3. LowerName(LowerName(name)) = LowerName(name)
  <2>1. \A w : Lower(Lower(w)) = Lower(w)
    BY DEF Lower
  <2>2. DOMAIN LowerName(name) = DOMAIN name
    BY DEF LowerName
  <2>3. \A k \in DOMAIN name : LowerName(name)[k] = Lower(name[k])
    BY DEF LowerName
  <2>4. QED
    BY <2>1, <2>2, <2>3, Zenon DEF LowerName
<1>4. PICK g : g = LowerName(guess)
  OBVIOUS
<1>5. g = LowerName(known[i])
  BY <1>1, <1>2, <1>3, <1>4
<1> DEFINE exact == {k \in DOMAIN known : LowerName(known[k]) = g}
<1>6. exact \in SUBSET Nat /\ i \in exact
  BY <1>1, <1>5
<1> HIDE DEF exact
<1>7. \E k \in exact : \A j \in exact : k <= j
  BY <1>6, LeastNat
<1>8. PICK found : found = CHOOSE k \in exact : \A j \in exact : k <= j
  OBVIOUS
<1>9. found \in exact
  BY <1>7, <1>8
<1>10. LowerName(known[found]) = g
  BY <1>9 DEF exact
<1>11. CASE Len(known) = 1
  <2>1. i = 1
    BY <1>1, <1>11
  <2>2. fuzzy_resolve_metric(guess, known) = known[1]
    BY <1>11 DEF fuzzy_resolve_metric
  <2>3. QED
    BY <1>1, <1>4, <1>5, <2>1, <2>2
<1>12. CASE Len(known) # 1
  <2>1. exact = {k \in DOMAIN known : LowerName(known[k]) = LowerName(guess)}
    BY <1>4 DEF exact
  <2>2. fuzzy_resolve_metric(guess, known) = known[found]
    BY <1>6, <1>8, <1>12, <2>1 DEF fuzzy_resolve_metric
  <2>3. QED
    BY <1>1, <1>4, <1>10, <2>2
<1>13. QED
  BY <1>11, <1>12

(* A function on the positions 1 to n is a sequence.                       *)
LEMMA FunctionsAreSeqs ==
    ASSUME NEW S, NEW n \in Nat, NEW f \in [1 .. n -> S]
    PROVE  f \in Seq(S)
<1>1. QED
  OBVIOUS

(* The IR without any part.                                                *)
LEMMA NoIrIsRead == NoIr \in Irs
<1>1. QED
  BY DEF NoIr, Irs, Names

(* A raw IR that deserialises is an IR (normalize_nlq_ir, Deserialize).    *)
LEMMA RawIrsAreRead ==
    ASSUME NEW raw \in RawIrs
    PROVE  Deserialize(normalize_nlq_ir(raw)).ir \in Irs
<1>1. NoIr \in Irs
  BY NoIrIsRead
<1>2. PICK norm : norm = normalize_nlq_ir(raw)
  OBVIOUS
<1>3. raw.signals \in Seq(Names) /\ raw.filters \in Seq(Filters) /\ raw.metric \in Seq(Names)
      /\ raw.operation \in Names /\ raw.from \in Names
  BY DEF RawIrs
<1>4. normalize_nlq_signals(raw.signals) \in Seq(Names)
  <2>1. PICK sigs \in Seq(Names) : sigs = raw.signals
    BY <1>3
  <2> DEFINE known == [i \in DOMAIN sigs |-> IF sigs[i] \in Signals THEN sigs[i] ELSE "metrics"]
  <2>2. Len(sigs) \in Nat /\ DOMAIN sigs = 1 .. Len(sigs)
    OBVIOUS
  <2>3. "metrics" \in Names
    BY DEF Signals, Names
  <2>4. \A i \in 1 .. Len(sigs) : (IF sigs[i] \in Signals THEN sigs[i] ELSE "metrics") \in Names
    BY <2>3
  <2>5. known \in [1 .. Len(sigs) -> Names]
    BY <2>2, <2>4
  <2> HIDE DEF known
  <2>6. known \in Seq(Names)
    BY <2>2, <2>5
  <2>7. <<"metrics">> \in Seq(Names)
    BY <2>3
  <2>8. QED
    BY <2>1, <2>6, <2>7 DEF normalize_nlq_signals, known
<1>5. PICK f \in Seq(Filters) : f = Kept(raw.filters, {i \in DOMAIN raw.filters : raw.filters[i].op \in FilterOps})
  BY <1>3, KeptHolds
<1>6. norm.operation = raw.operation /\ norm.metric = raw.metric
  BY <1>2 DEF normalize_nlq_ir, RawIrs
<1>7. norm.signals \in Seq(Names) /\ norm.filters \in Seq(Filters)
  BY <1>2, <1>4, <1>5 DEF normalize_nlq_ir, RawIrs
<1>8. norm.from \in Names
  BY <1>2, <1>3 DEF normalize_nlq_ir, RawIrs, patch_null_time_range, Names
<1>9. [NoIr EXCEPT !.operation = norm.operation, !.signals = norm.signals,
                   !.metric = norm.metric, !.filters = norm.filters, !.from = norm.from] \in Irs
  BY <1>1, <1>3, <1>6, <1>7, <1>8 DEF Irs
<1>10. Deserialize(norm).ir \in Irs
  BY <1>1, <1>9 DEF Deserialize, Parsed
<1>11. QED
  BY <1>2, <1>10

(* An answer is read as an IR, whatever envelope it comes in.              *)
LEMMA AnswersAreRead ==
    ASSUME NEW a \in AnswerBodies
    PROVE  parse_llm_response(a).ir \in Irs
<1>1. /\ Parsed("invalid", NoIr).ir \in Irs /\ Parsed("panic", NoIr).ir \in Irs
      /\ Parsed(a.type, NoIr).ir \in Irs
  BY DEF Parsed, NoIr, Irs, Names
<1>2. a.ir \in RawIrs /\ a.content \in RawIrs /\ a.top \in RawIrs /\ a.type \in Names
  BY DEF AnswerBodies
<1>3. ASSUME NEW raw \in RawIrs PROVE Promote(raw, a.type) \in RawIrs
  <2>1. PICK op \in Names : op = IF raw.operation = "" /\ a.type \in PromotedOps
                                THEN a.type ELSE raw.operation
    BY <1>2 DEF RawIrs
  <2>2. [raw EXCEPT !.operation = op] \in RawIrs
    BY DEF RawIrs
  <2>3. QED
    BY <2>1, <2>2 DEF Promote
<1>4. Deserialize(normalize_nlq_ir(a.ir)).ir \in Irs /\ Deserialize(normalize_nlq_ir(a.content)).ir \in Irs
  BY <1>2, RawIrsAreRead
<1>5. \A raw \in RawIrs : Deserialize(normalize_nlq_ir(Promote(raw, a.type))).ir \in Irs
  BY <1>3, RawIrsAreRead
<1>6. FromHybridEnvelope(a).ir \in Irs
  BY <1>1, <1>2, <1>5 DEF FromHybridEnvelope
<1>7. FromChatWrapper(a).ir \in Irs
  BY <1>1, <1>4 DEF FromChatWrapper
<1>8. FromBareIr(a).ir \in Irs
  BY <1>2, <1>5 DEF FromBareIr
<1>9. QED
  BY <1>1, <1>4, <1>6, <1>7, <1>8 DEF parse_llm_response

(* What is put before a sequence drops none of its elements.               *)
LEMMA JoinedHold ==
    ASSUME NEW S, NEW a \in Seq(S), NEW b \in Seq(S)
    PROVE  /\ a \o b \in Seq(S)
           /\ \A i \in 1 .. Len(b) : \E j \in 1 .. Len(a \o b) : (a \o b)[j] = b[i]
<1>1. PICK c : c = a \o b
  OBVIOUS
<1>2. c \in Seq(S) /\ Len(c) = Len(a) + Len(b)
  BY <1>1
<1>3. ASSUME NEW i \in 1 .. Len(b) PROVE Len(a) + i \in 1 .. Len(c) /\ c[Len(a) + i] = b[i]
  BY <1>1, <1>2
<1>4. QED
  BY <1>1, <1>2, <1>3

\* The filters of S are among these.
Scopes(filters, S) == \A f \in S : \E i \in DOMAIN filters : filters[i] = f

(* enforce_service_scope leaves an IR that carries its own service_name    *)
(* filters, or that of the request.                                        *)
LEMMA ScopeIsAdded ==
    ASSUME NEW ir \in Irs, NEW req, req.service \in Names
    PROVE  /\ Scoped(ir, req) \in Irs
           /\ Scopes(Scoped(ir, req).filters, ScopeOf(ir, req))
           /\ \A f \in ScopeOf(ir, req) : f.field = "service_name"
           /\ \A i \in DOMAIN ir.filters : \E j \in DOMAIN Scoped(ir, req).filters :
                 Scoped(ir, req).filters[j] = ir.filters[i]
<1>1. PICK filters \in Seq(Filters) : filters = ir.filters
  BY DEF Irs
<1>2. PICK f : f = Filter("service_name", "=", req.service)
  OBVIOUS
<1>3. f \in Filters /\ f.field = "service_name"
  BY <1>2 DEF Filter, Filters, FilterOps, Names
<1>4. PICK more : more = Append(filters, f)
  OBVIOUS
<1>5. more \in Seq(Filters) /\ Len(more) \in 1 .. Len(more) /\ more[Len(more)] = f
  BY <1>3, <1>4
<1>6. \A i \in 1 .. Len(filters) : i \in 1 .. Len(more) /\ more[i] = filters[i]
  BY <1>3, <1>4
<1>7. PICK scoped : scoped = [ir EXCEPT !.filters = more]
  OBVIOUS
<1>8. scoped \in Irs /\ scoped.filters = more
  BY <1>5, <1>7 DEF Irs
<1>9. PICK own : own = {g \in Range(filters) : g.field = "service_name"}
  OBVIOUS
<1>10. \A g \in own : g.field = "service_name" /\ \E i \in DOMAIN filters : filters[i] = g
  BY <1>9 DEF Range
<1>11. \A i \in DOMAIN filters : filters[i].field = "service_name" => filters[i] \in own
  BY <1>9 DEF Range
<1>12. PICK scope : scope = ScopeOf(ir, req)
  OBVIOUS
<1>13. \/ req.service = "" /\ scope = {} /\ Scoped(ir, req) = ir
       \/ req.service # "" /\ own # {} /\ scope = own /\ Scoped(ir, req) = ir
       \/ req.service # "" /\ own = {} /\ scope = {f} /\ Scoped(ir, req) = scoped
  <2>1. scope = CASE req.service = "" -> {}
                  [] req.service # "" /\ own # {} -> own
                  [] OTHER -> {f}
    BY <1>1, <1>2, <1>9, <1>12 DEF ScopeOf
  <2>2. Scoped(ir, req) = IF req.service = "" THEN ir
                          ELSE IF \E i \in DOMAIN filters : filters[i].field = "service_name" THEN ir
                          ELSE scoped
    BY <1>1, <1>2, <1>4, <1>7 DEF Scoped, enforce_service_scope
  <2>3. own # {} <=> \E i \in DOMAIN filters : filters[i].field = "service_name"
    BY <1>10, <1>11
  <2>4. QED
    BY <2>1, <2>2, <2>3
<1>14. DOMAIN filters = 1 .. Len(filters) /\ DOMAIN more = 1 .. Len(more)
  BY <1>5
<1>15. CASE Scoped(ir, req) = ir /\ scope \in {{}, own}
  BY <1>1, <1>10, <1>12, <1>15 DEF Scopes
<1>16. CASE Scoped(ir, req) = scoped /\ scope = {f}
  <2>1. Scopes(more, {f})
    BY <1>5, <1>14 DEF Scopes
  <2>2. QED
    BY <1>1, <1>3, <1>6, <1>8, <1>12, <1>14, <1>16, <2>1
<1>17. QED
  BY <1>13, <1>15, <1>16

(* Filters that override those of the page's IR keep the scope             *)
(* (OverrideFilters, of merge_irs and apply_shorthand_to_ir).              *)
LEMMA OverridesHold ==
    ASSUME NEW base \in Seq(Filters), NEW user \in Seq(Filters), NEW S
    PROVE  /\ OverrideFilters(base, user) \in Seq(Filters)
           /\ Scopes(user, S) => Scopes(OverrideFilters(base, user), S)
<1>1. PICK kept \in Seq(Filters) :
         kept = Kept(base, {k \in DOMAIN base :
                              \A i \in DOMAIN user : Lower(user[i].field) # Lower(base[k].field)})
  BY KeptHolds
<1>2. OverrideFilters(base, user) = kept \o user
  BY <1>1 DEF OverrideFilters
<1>3. PICK all \in Seq(Filters) : all = kept \o user
  BY JoinedHold
<1>4. \A i \in 1 .. Len(user) : \E j \in 1 .. Len(all) : all[j] = user[i]
  BY <1>3, JoinedHold
<1>5. DOMAIN user = 1 .. Len(user) /\ DOMAIN all = 1 .. Len(all)
  OBVIOUS
<1>6. Scopes(user, S) => Scopes(all, S)
  <2>1. SUFFICES ASSUME Scopes(user, S), NEW f \in S PROVE \E j \in DOMAIN all : all[j] = f
    BY DEF Scopes
  <2>2. PICK i \in DOMAIN user : user[i] = f
    BY <2>1 DEF Scopes
  <2>3. QED
    BY <1>4, <1>5, <2>2
<1>7. QED
  BY <1>2, <1>3, <1>6

(* So does merge_irs.                                                      *)
LEMMA MergeHolds ==
    ASSUME NEW ir \in Irs, NEW req, req.base \in Irs, NEW S
    PROVE  /\ Merged(ir, req) \in Irs
           /\ Scopes(ir.filters, S) => Scopes(Merged(ir, req).filters, S)
<1>1. PICK base \in Irs : base = req.base
  OBVIOUS
<1>2. PICK filters \in Seq(Filters) : /\ filters = OverrideFilters(base.filters, ir.filters)
                                      /\ Scopes(ir.filters, S) => Scopes(filters, S)
  BY OverridesHold DEF Irs
<1>3. PICK merged : merged = merge_irs(base, ir)
  OBVIOUS
<1>4. merged \in Irs /\ merged.filters = filters
  BY <1>2, <1>3 DEF merge_irs, Irs, Or
<1>5. Merged(ir, req) \in {ir, merged}
  BY <1>1, <1>3 DEF Merged
<1>6. QED
  BY <1>2, <1>4, <1>5

(* A guess resolves to a registered metric or to none.                     *)
LEMMA GuessesAreNames ==
    ASSUME NEW guess
    PROVE  fuzzy_resolve_metric(guess, Registered) \in Seq(Names)
<1>1. PICK known \in Seq(Seq(Names)) : known = Registered
  BY NlqAssumption
<1> DEFINE exact == {i \in DOMAIN known : LowerName(known[i]) = LowerName(guess)}
           score == [i \in DOMAIN known |-> Score(LowerName(guess), LowerName(known[i]))]
           best  == {i \in DOMAIN known : score[i] >= 1 /\ \A j \in DOMAIN known :
                       score[j] < score[i] \/ (score[j] = score[i] /\ i <= j)}
           first == CHOOSE i \in exact : \A j \in exact : i <= j
           top   == CHOOSE i \in best : TRUE
<1>2. fuzzy_resolve_metric(guess, known) =
        CASE Len(known) = 1 -> known[1]
          [] Len(known) # 1 /\ exact # {} -> known[first]
          [] Len(known) # 1 /\ exact = {} /\ best # {} -> known[top]
          [] OTHER -> <<>>
  BY DEF fuzzy_resolve_metric
<1>3. exact \subseteq DOMAIN known /\ best \subseteq DOMAIN known
  OBVIOUS
<1>4. best # {} => top \in best
  OBVIOUS
<1>5. exact # {} => first \in exact
  <2>1. exact \in SUBSET Nat
    BY <1>3
  <2> HIDE DEF exact
  <2>2. exact # {} => \E i \in exact : \A j \in exact : i <= j
    BY <2>1, LeastNat
  <2>3. QED
    BY <2>2
<1> HIDE DEF exact, best, first, top, score
<1>6. DOMAIN known = 1 .. Len(known) /\ Len(known) \in Nat
  OBVIOUS
<1>7. PICK resolved : resolved = fuzzy_resolve_metric(guess, known)
  OBVIOUS
<1>8. \/ Len(known) = 1 /\ resolved = known[1]
      \/ exact # {} /\ resolved = known[first]
      \/ best # {} /\ resolved = known[top]
      \/ resolved = <<>>
  BY <1>2, <1>7
<1>9. Len(known) = 1 => 1 \in 1 .. Len(known)
  OBVIOUS
<1>10. (\E i \in 1 .. Len(known) : resolved = known[i]) \/ resolved = <<>>
  BY <1>3, <1>4, <1>5, <1>6, <1>8, <1>9, Zenon
<1>11. resolved \in Seq(Names)
  <2>1. PICK S : S = Seq(Names)
    OBVIOUS
  <2>2. known \in Seq(S)
    BY <2>1
  <2>3. \A i \in 1 .. Len(known) : known[i] \in S
    BY <2>2, ElementOfSeq
  <2>4. <<>> \in Seq(Names)
    OBVIOUS
  <2>5. QED
    BY <1>10, <2>1, <2>3, <2>4
<1>12. QED
  BY <1>1, <1>7, <1>11

(* The metric of the answer is the only part that resolving it changes.    *)
LEMMA ResolvedHolds ==
    ASSUME NEW ir \in Irs
    PROVE  Resolved(ir) \in Irs /\ Resolved(ir).filters = ir.filters
<1>1. PICK known \in Seq(Names) : known = fuzzy_resolve_metric(ir.metric, Registered)
  BY GuessesAreNames
<1>2. PICK other : other = [ir EXCEPT !.metric = known]
  OBVIOUS
<1>3. other \in Irs /\ other.filters = ir.filters
  BY <1>2 DEF Irs
<1>4. Resolved(ir) \in {ir, other}
  BY <1>1, <1>2 DEF Resolved
<1>5. QED
  BY <1>3, <1>4

\* Each filter has a condition of its own, and one on the service is that
\* very condition.
Translates(conditions, filters) ==
  \A i \in DOMAIN filters : \E j \in DOMAIN conditions :
    /\ conditions[j].op = filters[i].op
    /\ conditions[j].value = filters[i].value
    /\ filters[i].field = "service_name" =>
          conditions[j] = Condition("service_name", filters[i].op, filters[i].value)

(* No filter is lost among the conditions, whatever else the template puts *)
(* before them (build_filter_clauses_checked).                             *)
LEMMA ClausesTranslate ==
    ASSUME NEW filters \in Seq(Filters), NEW cs,
           cs \in {build_filter_clauses_checked(filters), build_log_filter_clauses_checked(filters)},
           NEW T, NEW before \in Seq(T)
    PROVE  Translates(cs, filters) /\ Translates(before \o cs, filters)
<1>1. DOMAIN filters = 1 .. Len(filters) /\ Len(filters) \in Nat
  OBVIOUS
<1>2. /\ map_filter_field("service_name") = "service_name"
      /\ map_log_filter_field("service_name") = "service_name"
  BY DEF map_filter_field, map_log_filter_field
<1>3. \/ cs = [i \in DOMAIN filters |->
                 Condition(map_filter_field(filters[i].field), filters[i].op, filters[i].value)]
      \/ cs = [i \in DOMAIN filters |->
                 Condition(map_log_filter_field(filters[i].field), filters[i].op, filters[i].value)]
  BY DEF build_filter_clauses_checked, build_log_filter_clauses_checked, Conditions
<1>4. /\ DOMAIN cs = 1 .. Len(filters)
      /\ cs = [i \in 1 .. Len(filters) |-> cs[i]]
  BY <1>1, <1>3
<1>5. ASSUME NEW i \in DOMAIN filters
      PROVE  /\ cs[i].op = filters[i].op /\ cs[i].value = filters[i].value
             /\ filters[i].field = "service_name" =>
                   cs[i] = Condition("service_name", filters[i].op, filters[i].value)
  <2>1. \/ cs[i] = Condition(map_filter_field(filters[i].field), filters[i].op, filters[i].value)
        \/ cs[i] = Condition(map_log_filter_field(filters[i].field), filters[i].op, filters[i].value)
    BY <1>3
  <2>2. QED
    BY <1>2, <2>1 DEF Condition
<1>6. Translates(cs, filters)
  BY <1>1, <1>4, <1>5 DEF Translates
<1> DEFINE S == T \union {cs[i] : i \in 1 .. Len(filters)}
<1>7. cs \in Seq(S)
  <2>1. cs \in [1 .. Len(filters) -> S]
    BY <1>4
  <2> HIDE DEF S
  <2>2. QED
    BY <1>1, <2>1
<1>8. before \in Seq(S)
  <2>1. T \subseteq S
    OBVIOUS
  <2> HIDE DEF S
  <2>2. Len(before) \in Nat /\ DOMAIN before = 1 .. Len(before)
        /\ before = [i \in 1 .. Len(before) |-> before[i]]
    OBVIOUS
  <2>3. \A i \in 1 .. Len(before) : before[i] \in S
    BY <2>1
  <2>4. QED
    BY <2>2, <2>3
<1> HIDE DEF S
<1>9. PICK all \in Seq(S) : all = before \o cs
  BY <1>7, <1>8, JoinedHold
<1>10. \A i \in 1 .. Len(cs) : \E j \in 1 .. Len(all) : all[j] = cs[i]
  BY <1>7, <1>8, <1>9, JoinedHold
<1>11. DOMAIN cs = 1 .. Len(cs) /\ DOMAIN all = 1 .. Len(all)
  BY <1>7
<1>12. \A i \in DOMAIN cs : \E j \in DOMAIN all : all[j] = cs[i]
  BY <1>10, <1>11
<1>13. Translates(all, filters)
  BY <1>6, <1>12 DEF Translates
<1>14. QED
  BY <1>6, <1>9, <1>13

FilteringTables == {"metric_points", "metric_series", "logs"}

\* A query over points, series or logs that was generated.
Filtering(q) == q.error = "" /\ q.table \in FilteringTables

(* A query that filters is none of those that failed, and neither a trace  *)
(* nor an inventory query.                                                 *)
LEMMA FilteringQueries ==
    /\ \A e : e # "" => ~Filtering(Failed(e))
    /\ \A conditions, limit : ~Filtering(Query("spans", conditions, limit))
    /\ \A conditions, limit : ~Filtering(Query("resources", conditions, limit))
    /\ \A q, table, conditions, limit :
          q = Query(table, conditions, limit) => q.conditions = conditions
<1>1. ASSUME NEW e, e # "" PROVE ~Filtering(Failed(e))
  BY <1>1 DEF Failed, Filtering
<1>2. ASSUME NEW conditions, NEW limit
      PROVE  ~Filtering(Query("spans", conditions, limit)) /\ ~Filtering(Query("resources", conditions, limit))
  BY DEF Query, Filtering, FilteringTables
<1>3. ASSUME NEW q, NEW table, NEW conditions, NEW limit, q = Query(table, conditions, limit)
      PROVE  q.conditions = conditions
  BY <1>3 DEF Query
<1>4. QED
  BY <1>1, <1>2, <1>3

(* A query over points, series or logs carries every filter of its IR      *)
(* (execute_mcp_query).                                                    *)
LEMMA QueriesTranslate ==
    ASSUME NEW ir \in Irs, NEW q, q = execute_mcp_query(ir, Registered),
           Filtering(q)
    PROVE  Translates(q.conditions, ir.filters)
<1>1. PICK filters \in Seq(Filters) : filters = ir.filters
  BY DEF Irs
<1>2. \A e : e # "" => q # Failed(e)
  BY FilteringQueries
<1>3. q # execute_trace_query(ir)
  <2>1. SUFFICES ASSUME q = execute_trace_query(ir) PROVE FALSE
    OBVIOUS
  <2>2. PICK conditions :
          conditions = OnColumn(ir, "service_name", "service_name")
                         \o OnColumn(ir, "status_code", "status_code")
                         \o OnColumn(ir, "environment", "environment")
    OBVIOUS
  <2>3. PICK limit : limit = 500
    OBVIOUS
  <2>4. q = Query("spans", conditions, limit)
    <3>1. "invalid_time" # ""
      OBVIOUS
    <3>2. q # Failed("invalid_time")
      BY <1>2, <3>1, Zenon
    <3>3. execute_trace_query(ir) = IF ~parse_time_expr(ir.from) THEN Failed("invalid_time")
                                    ELSE Query("spans", conditions, limit)
      BY <2>2, <2>3 DEF execute_trace_query
    <3>4. QED
      BY <2>1, <3>2, <3>3, Zenon
  <2>5. QED
    BY <2>4, FilteringQueries
<1>4. q # execute_inventory_query(ir)
  <2>1. SUFFICES ASSUME q = execute_inventory_query(ir) PROVE FALSE
    OBVIOUS
  <2>2. PICK conditions :
          conditions = OnColumn(ir, "environment", "environment")
                         \o OnColumn(ir, "service_name", "service_name")
    OBVIOUS
  <2>3. PICK limit : limit = 0
    OBVIOUS
  <2>4. q = Query("resources", conditions, limit)
    BY <2>1, <2>2, <2>3 DEF execute_inventory_query
  <2>5. QED
    BY <2>4, FilteringQueries
<1>5. q = execute_log_query(ir) \/ q = generate_sql(ir)
  BY <1>2, <1>3, <1>4 DEF execute_mcp_query, execute_catalog_query
<1>6. CASE q = execute_log_query(ir)
  <2>1. PICK before : before = IF ir.query = <<>> THEN <<>>
                               ELSE <<Condition("body", "contains", "query")>>
    OBVIOUS
  <2>2. PICK table, limit : q = Query(table, before \o build_log_filter_clauses_checked(filters), limit)
    <3>1. PICK conditions : conditions = before \o build_log_filter_clauses_checked(filters)
      OBVIOUS
    <3>2. PICK rows : rows = 200
      OBVIOUS
    <3>3. q = IF ~parse_time_expr(ir.from) THEN Failed("invalid_time")
              ELSE IF ~FiltersValid(ir.filters) THEN Failed("invalid_filter")
              ELSE Query("logs", conditions, rows)
      BY <1>1, <1>6, <2>1, <3>1, <3>2 DEF execute_log_query, generate_log_sql
    <3>4. "invalid_time" # "" /\ "invalid_filter" # ""
      OBVIOUS
    <3>5. q # Failed("invalid_time") /\ q # Failed("invalid_filter")
      BY <1>2, <3>4, Zenon
    <3>6. q = Query("logs", conditions, rows)
      BY <3>3, <3>5, Zenon
    <3>7. QED
      BY <3>1, <3>6
  <2>3. PICK c : c = Condition("body", "contains", "query")
    OBVIOUS
  <2>4. before = <<>> \/ before = <<c>>
    BY <2>1, <2>3
  <2>5. before \in Seq({c})
    <3>1. <<>> \in Seq({c}) /\ <<c>> \in Seq({c})
      OBVIOUS
    <3>2. QED
      BY <2>4, <3>1, Zenon
  <2>6. Translates(before \o build_log_filter_clauses_checked(filters), filters)
    BY <2>5, ClausesTranslate
  <2>7. q.conditions = before \o build_log_filter_clauses_checked(filters)
    BY <2>2, FilteringQueries, Zenon
  <2>8. QED
    BY <1>1, <2>6, <2>7
<1>7. CASE q = generate_sql(ir)
  <2>1. PICK c : c = Condition("metric_name", "=", "the metric")
    OBVIOUS
  <2>2. PICK cs : cs = build_filter_clauses_checked(filters)
    OBVIOUS
  <2>3. PICK table, limit : q = Query(table, cs, limit) \/ q = Query(table, <<c>> \o cs, limit)
    BY <1>1, <1>2, <1>7, <2>1, <2>2 DEF generate_sql, catalog_sql, MetricTemplate
  <2>4. q.conditions = cs \/ q.conditions = <<c>> \o cs
    BY <2>3, FilteringQueries, Zenon
  <2>5. <<c>> \in Seq({c})
    OBVIOUS
  <2>6. Translates(cs, filters) /\ Translates(<<c>> \o cs, filters)
    BY <2>2, <2>5, ClausesTranslate
  <2>7. QED
    BY <1>1, <2>4, <2>6
<1>8. QED
  BY <1>5, <1>6, <1>7

(* No filter of an answer is lost on the way into a query.                 *)
LEMMA FiltersHold == FiltersReachQuery
<1> SUFFICES ASSUME NEW a \in Answers, NEW req \in Questions
             PROVE  LET ir == Scoped(parse_llm_response(a).ir, req)
                        q  == execute_mcp_query(ir, Registered)
                    IN  q.error = "" /\ q.table \in {"metric_points", "metric_series", "logs"} =>
                          \A i \in DOMAIN ir.filters : \E j \in DOMAIN q.conditions :
                            /\ q.conditions[j].op = ir.filters[i].op
                            /\ q.conditions[j].value = ir.filters[i].value
  BY DEF FiltersReachQuery
<1>1. PICK ir : ir = Scoped(parse_llm_response(a).ir, req)
  OBVIOUS
<1>2. PICK q : q = execute_mcp_query(ir, Registered)
  OBVIOUS
<1>3. parse_llm_response(a).ir \in Irs
  BY NlqAssumption, AnswersAreRead
<1>4. req.service \in Names
  BY NlqAssumption DEF QuestionBodies
<1>5. ir \in Irs
  BY <1>1, <1>3, <1>4, ScopeIsAdded
<1>6. Filtering(q) => Translates(q.conditions, ir.filters)
  BY <1>2, <1>5, QueriesTranslate
<1>7. QED
  BY <1>1, <1>2, <1>6 DEF Translates, Filtering, FilteringTables

\* An outcome that is to be executed asks for what its request and the
\* answer of the LLM restrict it to.
Asks(outcome, req, answer) ==
  /\ outcome.reply # "frame"
  /\ outcome.reply = "execute" =>
        /\ outcome.ir \in Irs
        /\ Scopes(outcome.ir.filters, ScopeOf(Brought(req, answer), req))

(* Only an outcome that is executed needs a filter.                        *)
LEMMA OutcomesAsk ==
    ASSUME NEW req, NEW answer
    PROVE  /\ \A ir : \A reply \in {"bad_request", "unprocessable", "none", "ir", "repair", "invalid",
                                     "decline", "capabilities", "use_prepare", "bad_gateway", "panic"} :
                 Asks(Outcome(reply, ir), req, answer)
           /\ \A ir \in Irs : Scopes(ir.filters, ScopeOf(Brought(req, answer), req)) =>
                 Asks(Outcome("execute", ir), req, answer)
<1>1. ASSUME NEW ir, NEW reply \in {"bad_request", "unprocessable", "none", "ir", "repair", "invalid",
                                    "decline", "capabilities", "use_prepare", "bad_gateway", "panic"}
      PROVE  Asks(Outcome(reply, ir), req, answer)
  BY DEF Asks, Outcome
<1>2. ASSUME NEW ir \in Irs, Scopes(ir.filters, ScopeOf(Brought(req, answer), req))
      PROVE  Asks(Outcome("execute", ir), req, answer)
  BY <1>2 DEF Asks, Outcome
<1>3. QED
  BY <1>1, <1>2

(* What is written in shorthand (parse_shorthand_ir).                      *)
LEMMA ShorthandIsRead ==
    ASSUME NEW typed \in Seq(ShorthandTokens), NEW sh, sh = parse_shorthand_ir(typed)
    PROVE  /\ sh.metric \in Seq(Names) /\ sh.operation \in Names
           /\ sh.filters \in Seq(Filters) /\ sh.query \in Seq(Seq(Names))
<1>1. PICK metrics \in Seq(ShorthandTokens) :
         metrics = Kept(typed, {i \in DOMAIN typed : typed[i].prefix = "m" /\ typed[i].value # ""})
  BY KeptHolds
<1>2. PICK ops : ops = Kept(typed, {i \in DOMAIN typed : typed[i].prefix = "op"})
  OBVIOUS
<1>3. PICK kept \in Seq(ShorthandTokens) : kept = Kept(typed, {i \in DOMAIN typed : IsFilter(typed[i])})
  BY KeptHolds
<1>4. PICK words \in Seq(ShorthandTokens) : words = Kept(typed, {i \in DOMAIN typed : FreeText(typed[i])})
  BY KeptHolds
<1> DEFINE filters == [i \in DOMAIN kept |-> Filter(kept[i].field, "=", kept[i].value)]
           query == [i \in DOMAIN words |-> <<words[i].field, words[i].value>>]
           metric == IF metrics = <<>> THEN <<>> ELSE <<Last(metrics).value>>
           operation == IF ops = <<>> THEN "" ELSE parse_shorthand_operation(Last(ops).value)
<1>5. sh.metric = metric /\ sh.operation = operation /\ sh.filters = filters /\ sh.query = query
  BY <1>1, <1>2, <1>3, <1>4 DEF parse_shorthand_ir
<1>6. filters \in Seq(Filters)
  <2>1. Len(kept) \in Nat /\ DOMAIN kept = 1 .. Len(kept)
    OBVIOUS
  <2>2. ASSUME NEW i \in 1 .. Len(kept) PROVE Filter(kept[i].field, "=", kept[i].value) \in Filters
    <3>1. kept[i] \in ShorthandTokens
      OBVIOUS
    <3>2. "=" \in Names
      BY DEF Names, FilterOps
    <3>3. QED
      BY <3>1, <3>2 DEF Filter, Filters, ShorthandTokens
  <2>3. filters \in [1 .. Len(kept) -> Filters]
    BY <2>1, <2>2
  <2> HIDE DEF filters
  <2>4. QED
    BY <2>1, <2>3, FunctionsAreSeqs
<1>7. query \in Seq(Seq(Names))
  <2>1. Len(words) \in Nat /\ DOMAIN words = 1 .. Len(words)
    OBVIOUS
  <2>2. ASSUME NEW i \in 1 .. Len(words) PROVE <<words[i].field, words[i].value>> \in Seq(Names)
    <3>1. words[i] \in ShorthandTokens
      OBVIOUS
    <3>2. PICK field \in Names, value \in Names : field = words[i].field /\ value = words[i].value
      BY <3>1 DEF ShorthandTokens
    <3>3. <<field, value>> \in Seq(Names)
      OBVIOUS
    <3>4. QED
      BY <3>2, <3>3
  <2>3. PICK S : S = Seq(Names)
    OBVIOUS
  <2>4. query \in [1 .. Len(words) -> S]
    BY <2>1, <2>2, <2>3
  <2> HIDE DEF query
  <2>5. query \in Seq(S)
    BY <2>1, <2>4, FunctionsAreSeqs
  <2>6. QED
    BY <2>3, <2>5
<1>8. metric \in Seq(Names)
  <2>1. CASE metrics = <<>>
    BY <2>1
  <2>2. CASE metrics # <<>>
    <3>1. Last(metrics) \in ShorthandTokens
      BY <2>2 DEF Last
    <3>2. PICK value \in Names : value = Last(metrics).value
      BY <3>1 DEF ShorthandTokens
    <3>3. <<value>> \in Seq(Names)
      OBVIOUS
    <3>4. QED
      BY <2>2, <3>2, <3>3
  <2>3. QED
    BY <2>1, <2>2
<1>9. operation \in Names
  BY DEF parse_shorthand_operation, Operations, Names
<1>10. QED
  BY <1>5, <1>6, <1>7, <1>8, <1>9

(* Shorthand becomes an IR of its own or one of the page's, and asks for   *)
(* the service of its request (into_nlq_ir, apply_shorthand_to_ir).        *)
LEMMA ShorthandIsScoped ==
    ASSUME NEW req \in QuestionBodies
    PROVE  /\ Shorthand(req) \in Irs
           /\ Scopes(Shorthand(req).filters, ScopeOf(Typed(req), req))
<1>1. PICK sh : sh = parse_shorthand_ir(req.tokens)
  OBVIOUS
<1>2. /\ sh.metric \in Seq(Names) /\ sh.operation \in Names
      /\ sh.filters \in Seq(Filters) /\ sh.query \in Seq(Seq(Names))
  BY <1>1, ShorthandIsRead DEF QuestionBodies
<1>3. PICK base \in Irs : base = req.base
  BY DEF QuestionBodies
<1>4. into_nlq_ir(sh) \in Irs
  <2>1. PICK signals \in Seq(Names) : signals = IF sh.metric = <<>> /\ sh.query # <<>>
                                                 THEN <<"logs">> ELSE <<"metrics">>
    <3>1. "logs" \in Names /\ "metrics" \in Names
      BY DEF Names, Signals
    <3>2. <<"logs">> \in Seq(Names) /\ <<"metrics">> \in Seq(Names)
      BY <3>1
    <3>3. QED
      BY <3>2
  <2>2. "timeseries" \in Names /\ "now-1h" \in Names
    BY DEF Names, Operations, PromotedOps
  <2>3. PICK op \in Names : op = Or(sh.operation, "timeseries", "")
    BY <1>2, <2>2 DEF Or
  <2>4. NoIr \in Irs
    BY NoIrIsRead
  <2>5. [NoIr EXCEPT !.operation = op, !.signals = signals, !.metric = sh.metric,
                     !.filters = sh.filters, !.from = "now-1h", !.query = sh.query] \in Irs
    BY <1>2, <2>2, <2>4 DEF Irs
  <2>6. QED
    BY <2>1, <2>3, <2>5 DEF into_nlq_ir
<1>5. apply_shorthand_to_ir(base, sh) \in Irs
  <2>1. PICK op \in Names : op = Or(sh.operation, base.operation, "")
    BY <1>2 DEF Or, Irs
  <2>2. PICK metric \in Seq(Names) : metric = Or(sh.metric, base.metric, <<>>)
    BY <1>2 DEF Or, Irs
  <2>3. PICK filters \in Seq(Filters) : filters = OverrideFilters(base.filters, sh.filters)
    BY <1>2, OverridesHold DEF Irs
  <2>4. [base EXCEPT !.operation = op, !.metric = metric, !.filters = filters, !.query = sh.query] \in Irs
    BY <1>2 DEF Irs
  <2>5. QED
    BY <2>1, <2>2, <2>3, <2>4 DEF apply_shorthand_to_ir
<1>6. PICK ir \in Irs : ir = Typed(req) /\ Shorthand(req) = Scoped(ir, req)
  BY <1>1, <1>3, <1>4, <1>5 DEF Shorthand, Typed
<1>7. req.service \in Names
  BY DEF QuestionBodies
<1>8. QED
  BY <1>6, <1>7, ScopeIsAdded

(* Before the LLM: an empty question, a pasted IR and shorthand; text is   *)
(* left to it (try_pre_llm_shortcuts).                                     *)
LEMMA ShortcutsAsk ==
    ASSUME NEW req \in QuestionBodies
    PROVE  /\ Asks(try_pre_llm_shortcuts(req), req, NoAnswer)
           /\ try_pre_llm_shortcuts(req).reply = "none" => req.kind = "text"
<1>1. req.service \in Names /\ req.base \in Irs /\ req.raw \in RawIrs
      /\ req.kind \in {"empty", "raw", "shorthand", "text"} /\ req.mode \in {"execute", "interpret"}
  BY DEF QuestionBodies
<1>2. PICK pasted : pasted = Pasted(req)
  OBVIOUS
<1>3. pasted.ir \in Irs
  BY <1>1, <1>2, RawIrsAreRead DEF Pasted
<1>4. PICK own \in Irs : own = Scoped(req.base, req) /\ Scopes(own.filters, ScopeOf(req.base, req))
  BY <1>1, ScopeIsAdded
<1>5. PICK scoped \in Irs : scoped = Scoped(pasted.ir, req) /\ Scopes(scoped.filters, ScopeOf(pasted.ir, req))
  BY <1>1, <1>3, ScopeIsAdded
<1>6. PICK merged \in Irs : merged = Merged(scoped, req) /\ Scopes(merged.filters, ScopeOf(pasted.ir, req))
  BY <1>1, <1>5, MergeHolds
<1>7. PICK short \in Irs : short = Shorthand(req) /\ Scopes(short.filters, ScopeOf(Typed(req), req))
  BY ShorthandIsScoped
<1>8. PICK asked : asked = try_pre_llm_shortcuts(req)
  OBVIOUS
<1>9. PICK brought : brought = Brought(req, NoAnswer)
  OBVIOUS
<1>10. /\ req.kind = "empty" => brought = req.base
       /\ req.kind = "raw" => brought = pasted.ir
       /\ req.kind = "shorthand" => brought = Typed(req)
  BY <1>2, <1>9 DEF Brought
<1>11. \/ \E reply \in {"bad_request", "unprocessable", "ir"} : \E ir : asked = Outcome(reply, ir)
       \/ req.kind = "text" /\ asked = Outcome("none", NoIr)
       \/ req.kind = "empty" /\ asked = Outcome("execute", own)
       \/ req.kind = "raw" /\ asked = Outcome("execute", merged)
       \/ req.kind = "shorthand" /\ asked = Outcome("execute", short)
  BY <1>1, <1>2, <1>4, <1>5, <1>6, <1>7, <1>8 DEF try_pre_llm_shortcuts
<1>12. Asks(asked, req, NoAnswer)
  BY <1>4, <1>6, <1>7, <1>9, <1>10, <1>11, OutcomesAsk
<1>13. asked.reply = "none" => req.kind = "text"
  BY <1>11 DEF Outcome
<1>14. QED
  BY <1>8, <1>12, <1>13

(* After the LLM: a repair, a final reply, or a query to execute           *)
(* (resume_nlq_pipeline).                                                  *)
LEMMA ResumesAsk ==
    ASSUME NEW req \in QuestionBodies, NEW answer \in AnswerBodies, NEW attempt
    PROVE  Asks(resume_nlq_pipeline(req, attempt, answer), req, answer)
<1>1. req.service \in Names /\ req.base \in Irs
  BY DEF QuestionBodies
<1>2. PICK parsed : parsed = parse_llm_response(answer)
  OBVIOUS
<1>3. parsed.ir \in Irs
  BY <1>2, AnswersAreRead
<1>4. PICK ir \in Irs : ir = Scoped(parsed.ir, req) /\ Scopes(ir.filters, ScopeOf(parsed.ir, req))
  BY <1>1, <1>3, ScopeIsAdded
<1>5. PICK resolved \in Irs : resolved = Resolved(ir) /\ resolved.filters = ir.filters
  BY ResolvedHolds
<1>6. PICK merged \in Irs : merged = Merged(resolved, req) /\ Scopes(merged.filters, ScopeOf(parsed.ir, req))
  BY <1>1, <1>4, <1>5, MergeHolds
<1>7. PICK outcome : outcome = resume_nlq_pipeline(req, attempt, answer)
  OBVIOUS
<1>8. outcome
        = CASE parsed.kind = "panic" -> Outcome("panic", NoIr)
        [] parsed.kind = "invalid" ->
             Outcome(IF attempt < MAX_REPAIR_ATTEMPTS THEN "repair" ELSE "invalid", NoIr)
        [] parsed.kind \in {"decline", "capabilities"} -> Outcome(parsed.kind, NoIr)
        [] parsed.kind = "ir" /\ ir.metric = <<>> /\ NeedsMetric(ir) -> Outcome("decline", NoIr)
        [] OTHER -> IF req.mode = "interpret" THEN Outcome("ir", resolved)
                    ELSE Outcome("execute", merged)
  <2> HIDE DEF Outcome
  <2>1. QED
    BY <1>2, <1>4, <1>5, <1>6, <1>7, Zenon DEF resume_nlq_pipeline
<1>9. \/ outcome \in {Outcome("panic", NoIr), Outcome("repair", NoIr), Outcome("invalid", NoIr),
                      Outcome("decline", NoIr), Outcome("capabilities", NoIr), Outcome("ir", resolved)}
      \/ parsed.kind # "invalid" /\ outcome = Outcome("execute", merged)
  <2>1. parsed.kind = "invalid" => outcome \in {Outcome("repair", NoIr), Outcome("invalid", NoIr)}
    <3>1. SUFFICES ASSUME parsed.kind = "invalid"
                   PROVE  outcome \in {Outcome("repair", NoIr), Outcome("invalid", NoIr)}
      OBVIOUS
    <3>2. parsed.kind # "panic" /\ parsed.kind \notin {"decline", "capabilities"} /\ parsed.kind # "ir"
      BY <3>1
    <3>3. QED
      BY <1>8, <3>1, <3>2
  <2>2. QED
    BY <1>8, <2>1
<1>10. parsed.kind # "invalid" => Brought(req, answer) = parsed.ir
  <2>1. parse_llm_response(NoAnswer) = Parsed("invalid", NoIr)
    <3>1. ~NoAnswer.json
      BY DEF NoAnswer, Answer
    <3>2. \A a : ~a.json => parse_llm_response(a) = Parsed("invalid", NoIr)
      <4> HIDE DEF Parsed
      <4>1. QED
        BY DEF parse_llm_response, Panics
    <3>3. QED
      BY <3>1, <3>2
  <2>2. parsed.kind # "invalid" => answer # NoAnswer
    BY <1>2, <2>1 DEF Parsed
  <2>3. QED
    BY <1>2, <2>2 DEF Brought
<1>11. QED
  BY <1>6, <1>7, <1>9, <1>10, OutcomesAsk

(* A plan that ran for an outcome keeps the scope of its request           *)
(* (execute_mcp_query).                                                    *)
LEMMA PlansKeepScope ==
    ASSUME NEW req, NEW answer, NEW outcome, Asks(outcome, req, answer),
           \A f \in ScopeOf(Brought(req, answer), req) : f.field = "service_name",
           NEW reply \in Replies(outcome), reply = "frame"
    PROVE  KeepsScope(req, answer, PlanOf(outcome, reply))
<1>1. PICK plan : plan = PlanOf(outcome, reply)
  OBVIOUS
<1>2. plan = execute_mcp_query(outcome.ir, Registered)
  BY <1>1 DEF PlanOf
<1>3. outcome.reply = "execute" /\ plan.error = ""
  BY <1>2 DEF Replies, Asks
<1>4. PICK scope : scope = ScopeOf(Brought(req, answer), req)
  OBVIOUS
<1>5. PICK ir \in Irs : ir = outcome.ir /\ Scopes(ir.filters, scope)
  BY <1>3, <1>4 DEF Asks
<1>6. ASSUME plan.table \in {"metric_points", "metric_series", "logs"}, NEW f \in scope
      PROVE  \E i \in DOMAIN plan.conditions :
                plan.conditions[i] = Condition("service_name", f.op, f.value)
  <2>1. Translates(plan.conditions, ir.filters)
    BY <1>2, <1>3, <1>5, <1>6, QueriesTranslate DEF Filtering, FilteringTables
  <2>2. PICK i \in DOMAIN ir.filters : ir.filters[i] = f
    BY <1>5 DEF Scopes
  <2>3. f.field = "service_name"
    BY <1>4
  <2>4. QED
    BY <2>1, <2>2, <2>3 DEF Translates
<1>7. QED
  BY <1>1, <1>4, <1>6 DEF KeepsScope

(* The scope is always one on the service.                                 *)
LEMMA ScopesAreServices ==
    ASSUME NEW ir, NEW req
    PROVE  \A f \in ScopeOf(ir, req) : f.field = "service_name"
<1>1. PICK own : own = {f \in Range(ir.filters) : f.field = "service_name"}
  OBVIOUS
<1>2. PICK f : f = Filter("service_name", "=", req.service)
  OBVIOUS
<1>3. ScopeOf(ir, req) \in {{}, own, {f}}
  BY <1>1, <1>2 DEF ScopeOf
<1>4. f.field = "service_name"
  BY <1>2 DEF Filter
<1>5. QED
  BY <1>1, <1>3, <1>4

(* A call becomes one that keeps the scope, and no other call changes.     *)
LEMMA CallKeepsScopes ==
    ASSUME NlqTypeOK, ScopeInv, NEW c \in NlqCalls, NEW call, CallInv(call),
           nlqCalls' = [nlqCalls EXCEPT ![c] = call]
    PROVE  ScopeInv'
<1>1. \A d \in NlqCalls : nlqCalls'[d] = call \/ nlqCalls'[d] = nlqCalls[d]
  BY DEF NlqTypeOK
<1>2. ASSUME NEW d \in NlqCalls PROVE CallInv(nlqCalls'[d])
  <2>1. CallInv(nlqCalls[d])
    BY DEF ScopeInv
  <2>2. QED
    BY <1>1, <2>1
<1>3. QED
  BY <1>2 DEF ScopeInv, CallInv

(* A call is answered with the query that its request asks for.            *)
LEMMA AnswersKeepScope ==
    ASSUME NlqTypeOK, ScopeInv, NEW c \in NlqCalls, NEW req, NEW answer, NEW outcome,
           Asks(outcome, req, answer), NEW reply \in Replies(outcome),
           nlqCalls' = [nlqCalls EXCEPT ![c] =
             [IdleCall EXCEPT !.stage = "done", !.req = req, !.answer = answer, !.reply = reply,
                              !.plan = PlanOf(outcome, reply)]]
    PROVE  ScopeInv'
<1>1. PICK plan : plan = PlanOf(outcome, reply)
  OBVIOUS
<1>2. PICK call : call = [IdleCall EXCEPT !.stage = "done", !.req = req, !.answer = answer,
                                          !.reply = reply, !.plan = plan]
  OBVIOUS
<1>3. call.stage = "done" /\ call.req = req /\ call.answer = answer
      /\ call.reply = reply /\ call.plan = plan
  BY <1>2 DEF IdleCall
<1>4. reply = "frame" => KeepsScope(req, answer, plan)
  BY <1>1, PlansKeepScope, ScopesAreServices
<1>5. CallInv(call)
  BY <1>3, <1>4 DEF CallInv
<1>6. QED
  BY <1>1, <1>2, <1>5, CallKeepsScopes

(* So is every call that is answered (NlqAnswered).                        *)
LEMMA AnsweredKeepsScope ==
    ASSUME NlqInv, ScopeInv, NEW c \in NlqCalls, NEW req, NEW answer, NEW outcome,
           Asks(outcome, req, answer), NlqAnswered(c, req, answer, outcome)
    PROVE  ScopeInv'
<1>1. NlqTypeOK
  BY DEF NlqInv
<1>2. PICK reply \in Replies(outcome) : nlqCalls' = [nlqCalls EXCEPT ![c] =
             [IdleCall EXCEPT !.stage = "done", !.req = req, !.answer = answer, !.reply = reply,
                              !.plan = PlanOf(outcome, reply)]]
  BY DEF NlqAnswered
<1>3. QED
  BY <1>1, <1>2, AnswersKeepScope

(* The request bodies and answers of the instance are ones that serde      *)
(* makes.                                                                  *)
LEMMA RequestsAreBodies ==
    /\ NoQuestion \in QuestionBodies
    /\ \A req \in Questions \union {NoQuestion} : req \in QuestionBodies
    /\ \A answer \in Answers : answer \in AnswerBodies
<1>1. Missing \in RawIrs
  <2>1. "" \in Names /\ "absent" \in Names
    BY DEF Names
  <2>2. PICK raw : raw = NoRaw
    OBVIOUS
  <2>3. <<>> \in Seq(Names) /\ <<>> \in Seq(Filters)
    OBVIOUS
  <2>4. raw = [present |-> TRUE, object |-> TRUE, operation |-> "", signals |-> <<>>, metric |-> <<>>,
               filters |-> <<>>, from |-> "absent", fits |-> FALSE]
    BY <2>2 DEF NoRaw, RawIr
  <2>5. raw \in RawIrs
    BY <2>1, <2>3, <2>4 DEF RawIrs
  <2>6. [raw EXCEPT !.present = FALSE] \in RawIrs
    BY <2>5 DEF RawIrs
  <2>7. QED
    BY <2>2, <2>6 DEF Missing
<1>2. PICK ir \in Irs : ir = NoIr
  BY NoIrIsRead
<1>3. NoQuestion \in QuestionBodies
  <2>1. "" \in Names
    BY DEF Names
  <2>2. <<>> \in Seq(ShorthandTokens)
    OBVIOUS
  <2>3. NoQuestion = [kind |-> "empty", raw |-> Missing, tokens |-> <<>>, denied |-> FALSE,
                      service |-> "", base |-> ir, mode |-> "execute"]
    BY <1>2 DEF NoQuestion, Question
  <2>4. QED
    BY <1>1, <2>1, <2>2, <2>3 DEF QuestionBodies
<1>4. QED
  BY <1>3, NlqAssumption

(* POST /v1/nlq answers at once or leaves the question to the LLM          *)
(* (handle_nlq_query).                                                     *)
LEMMA QueryKeepsScope ==
    ASSUME NlqInv, ScopeInv, NEW c \in NlqCalls, NEW req \in Questions, NEW provider, NEW configured,
           handle_nlq_query(c, req, provider, configured)
    PROVE  ScopeInv'
<1>1. req \in QuestionBodies
  BY RequestsAreBodies
<1>2. PICK shortcut : shortcut = try_pre_llm_shortcuts(req)
  OBVIOUS
<1>3. PICK fallback : fallback = Outcome(IF req.mode = "interpret" THEN "ir" ELSE "execute", Shorthand(req))
  OBVIOUS
<1>4. PICK asked : asked = [IdleCall EXCEPT !.stage = "llm", !.req = req]
  OBVIOUS
<1>5. Asks(shortcut, req, NoAnswer)
  BY <1>1, <1>2, ShortcutsAsk
<1>6. shortcut.reply = "none" => Asks(fallback, req, NoAnswer)
  <2>1. SUFFICES ASSUME req.kind = "text" PROVE Asks(fallback, req, NoAnswer)
    BY <1>1, <1>2, ShortcutsAsk
  <2>2. Brought(req, NoAnswer) = Typed(req)
    BY <2>1 DEF Brought
  <2>3. PICK short \in Irs : short = Shorthand(req) /\ Scopes(short.filters, ScopeOf(Typed(req), req))
    BY <1>1, ShorthandIsScoped
  <2>4. fallback \in {Outcome("ir", short), Outcome("execute", short)}
    BY <1>3, <2>3
  <2>5. QED
    BY <2>2, <2>3, <2>4, OutcomesAsk
<1>7. \A reply \in {"use_prepare", "decline"} : Asks(Outcome(reply, NoIr), req, NoAnswer)
  BY OutcomesAsk
<1>8. \/ \E outcome \in {shortcut, Outcome("use_prepare", NoIr), Outcome("decline", NoIr)} :
           NlqAnswered(c, req, NoAnswer, outcome)
      \/ shortcut.reply = "none" /\ NlqAnswered(c, req, NoAnswer, fallback)
      \/ nlqCalls' = [nlqCalls EXCEPT ![c] = asked]
  BY <1>2, <1>3, <1>4 DEF handle_nlq_query
<1>9. CASE nlqCalls' = [nlqCalls EXCEPT ![c] = asked]
  <2>1. CallInv(asked)
    BY <1>4 DEF CallInv, IdleCall
  <2>2. NlqTypeOK
    BY DEF NlqInv
  <2>3. QED
    BY <1>9, <2>1, <2>2, CallKeepsScopes
<1>10. CASE \/ \E outcome \in {shortcut, Outcome("use_prepare", NoIr), Outcome("decline", NoIr)} :
                  NlqAnswered(c, req, NoAnswer, outcome)
            \/ shortcut.reply = "none" /\ NlqAnswered(c, req, NoAnswer, fallback)
  BY <1>5, <1>6, <1>7, <1>10, AnsweredKeepsScope
<1>11. QED
  BY <1>8, <1>9, <1>10

(* The LLM answers (run_nlq_pipeline), or does not.                        *)
LEMMA LlmKeepsScope ==
    ASSUME NlqInv, ScopeInv, NEW c \in NlqCalls, NEW answer \in Answers, LlmAnswers(c, answer)
    PROVE  ScopeInv'
<1>1. PICK req : req = nlqCalls[c].req
  OBVIOUS
<1>2. nlqCalls[c].stage = "llm"
  BY DEF LlmAnswers
<1>3. req \in Questions
  BY <1>1, <1>2 DEF ScopeInv, CallInv
<1>4. req \in QuestionBodies /\ answer \in AnswerBodies
  BY <1>3, RequestsAreBodies
<1>5. PICK outcome : outcome = resume_nlq_pipeline(req, nlqCalls[c].attempt, answer)
  OBVIOUS
<1>6. Asks(outcome, req, answer)
  BY <1>4, <1>5, ResumesAsk
<1>7. PICK asked : asked = [IdleCall EXCEPT !.stage = "llm", !.req = req, !.attempt = nlqCalls[c].attempt + 1]
  OBVIOUS
<1>8. NlqAnswered(c, req, answer, outcome) \/ nlqCalls' = [nlqCalls EXCEPT ![c] = asked]
  BY <1>1, <1>5, <1>7 DEF LlmAnswers
<1>9. CASE nlqCalls' = [nlqCalls EXCEPT ![c] = asked]
  <2>1. CallInv(asked)
    BY <1>3, <1>7 DEF CallInv, IdleCall
  <2>2. NlqTypeOK
    BY DEF NlqInv
  <2>3. QED
    BY <1>9, <2>1, <2>2, CallKeepsScopes
<1>10. QED
  BY <1>6, <1>8, <1>9, AnsweredKeepsScope

(* A failure of the LLM answers without a query (LlmFails).                *)
LEMMA LlmFailsKeepsScope ==
    ASSUME NlqInv, ScopeInv, NEW c \in NlqCalls, LlmFails(c)
    PROVE  ScopeInv'
<1>1. PICK req : req = nlqCalls[c].req
  OBVIOUS
<1>2. Asks(Outcome("bad_gateway", NoIr), req, NoAnswer)
  BY OutcomesAsk
<1>3. NlqAnswered(c, req, NoAnswer, Outcome("bad_gateway", NoIr))
  BY <1>1 DEF LlmFails
<1>4. QED
  BY <1>2, <1>3, AnsweredKeepsScope

(* POST /v1/nlq/prepare answers at once or leaves every call as it was     *)
(* (handle_nlq_prepare).                                                   *)
LEMMA PrepareKeepsScope ==
    ASSUME NlqInv, ScopeInv, NEW c \in NlqCalls, NEW r, NEW tenant, NEW req \in Questions,
           handle_nlq_prepare(c, r, tenant, req)
    PROVE  ScopeInv'
<1>1. req \in QuestionBodies
  BY RequestsAreBodies
<1>2. PICK shortcut : shortcut = try_pre_llm_shortcuts(req)
  OBVIOUS
<1>3. Asks(shortcut, req, NoAnswer) /\ Asks(Outcome("decline", NoIr), req, NoAnswer)
  BY <1>1, <1>2, ShortcutsAsk, OutcomesAsk
<1>4. \/ NlqAnswered(c, req, NoAnswer, shortcut)
      \/ NlqAnswered(c, req, NoAnswer, Outcome("decline", NoIr))
      \/ nlqCalls' = nlqCalls
  BY <1>2 DEF handle_nlq_prepare
<1>5. CASE nlqCalls' = nlqCalls
  BY <1>5 DEF ScopeInv
<1>6. QED
  BY <1>3, <1>4, <1>5, AnsweredKeepsScope

(* POST /v1/nlq/complete takes the request with the session                *)
(* (handle_nlq_complete).                                                  *)
LEMMA CompleteKeepsScope ==
    ASSUME NlqInv, ScopeInv, NEW c \in NlqCalls, NEW r, NEW tenant, NEW token,
           NEW answer \in Answers, handle_nlq_complete(c, r, tenant, token, answer)
    PROVE  ScopeInv'
<1>1. PICK session : session = sessions[r][token]
  OBVIOUS
<1>2. PICK held : held = [IdleCall EXCEPT !.stage = "resuming", !.token = token, !.replica = r,
                                          !.session = session, !.answer = answer,
                                          !.req = session.req, !.reply = tenant]
  OBVIOUS
<1>3. PICK refused : refused = [IdleCall EXCEPT !.stage = "done", !.reply = "not_found"]
  OBVIOUS
<1>4. nlqCalls' = [nlqCalls EXCEPT ![c] = held] \/ nlqCalls' = [nlqCalls EXCEPT ![c] = refused]
  BY <1>1, <1>2, <1>3 DEF handle_nlq_complete
<1>5. CallInv(held) /\ CallInv(refused)
  BY <1>2, <1>3 DEF CallInv, IdleCall
<1>6. NlqTypeOK
  BY DEF NlqInv
<1>7. QED
  BY <1>4, <1>5, <1>6, CallKeepsScopes

(* The answer is the one to the request of the session (CompleteEnds).     *)
LEMMA EndsKeepScope ==
    ASSUME NlqInv, ScopeInv, NEW c \in NlqCalls, CompleteEnds(c)
    PROVE  ScopeInv'
<1>1. PICK call : call = nlqCalls[c]
  OBVIOUS
<1>2. call.stage = "resuming" /\ call.token \in Tokens /\ Holds(c, call.token)
  BY <1>1 DEF CompleteEnds, NlqInv, Holds
<1>3. call.session \in NlqSessionRow
  BY <1>1, <1>2 DEF NlqInv, OneSession
<1>4. call.answer \in Answers /\ call.session.req = call.req
  BY <1>1, <1>2 DEF ScopeInv, CallInv
<1>5. call.req \in QuestionBodies /\ call.answer \in AnswerBodies
  BY <1>3, <1>4, RequestsAreBodies DEF NlqSessionRow
<1>6. PICK outcome : outcome = resume_nlq_pipeline(call.session.req, call.session.attempt, call.answer)
  OBVIOUS
<1>7. Asks(outcome, call.req, call.answer)
  BY <1>4, <1>5, <1>6, ResumesAsk
<1>8. PICK req, answer : req = call.req /\ answer = call.answer
  OBVIOUS
<1>9. PICK reply \in Replies(outcome) : nlqCalls' = [nlqCalls EXCEPT ![c] =
                [IdleCall EXCEPT !.stage = "done", !.req = req, !.answer = answer, !.reply = reply,
                                 !.plan = PlanOf(outcome, reply)]]
  BY <1>1, <1>6, <1>8 DEF CompleteEnds
<1>10. NlqTypeOK
  BY DEF NlqInv
<1>11. QED
  BY <1>7, <1>8, <1>9, <1>10, AnswersKeepScope

(* Every step of the endpoints leaves calls that keep the scope.           *)
LEMMA ScopeInductive == NlqInv /\ ScopeInv /\ [NlqNext]_nlqVars => ScopeInv'
<1> SUFFICES ASSUME NlqInv, ScopeInv, [NlqNext]_nlqVars PROVE ScopeInv'
  OBVIOUS
<1>1. CallInv(IdleCall)
  BY DEF CallInv, IdleCall
<1>2. NlqTypeOK
  BY DEF NlqInv
<1>3. CASE nlqCalls' = nlqCalls
  BY <1>3 DEF ScopeInv
<1>4. ASSUME NEW c \in NlqCalls, CallReturns(c) PROVE ScopeInv'
  <2>1. nlqCalls' = [nlqCalls EXCEPT ![c] = IdleCall]
    BY <1>4 DEF CallReturns
  <2>2. QED
    BY <1>1, <1>2, <2>1, CallKeepsScopes
<1>5. ASSUME NEW r, ReplicaRestarts(r) PROVE ScopeInv'
  <2>1. \A c \in NlqCalls : nlqCalls'[c] = IdleCall \/ nlqCalls'[c] = nlqCalls[c]
    BY <1>5 DEF ReplicaRestarts
  <2>2. QED
    BY <1>1, <2>1 DEF ScopeInv
<1>6. ASSUME NEW token, TtlPasses(token) PROVE nlqCalls' = nlqCalls
  BY <1>6 DEF TtlPasses
<1>7. CASE UNCHANGED nlqVars
  BY <1>3, <1>7 DEF nlqVars
<1>8. ASSUME NEW c \in NlqCalls, NEW req \in Questions, NEW provider, NEW configured,
             handle_nlq_query(c, req, provider, configured)
      PROVE  ScopeInv'
  BY <1>8, QueryKeepsScope
<1>9. ASSUME NEW c \in NlqCalls, NEW answer \in Answers, LlmAnswers(c, answer) PROVE ScopeInv'
  BY <1>9, LlmKeepsScope
<1>10. ASSUME NEW c \in NlqCalls, LlmFails(c) PROVE ScopeInv'
  BY <1>10, LlmFailsKeepsScope
<1>11. ASSUME NEW c \in NlqCalls, NEW r, NEW tenant, NEW req \in Questions,
              handle_nlq_prepare(c, r, tenant, req)
       PROVE  ScopeInv'
  BY <1>11, PrepareKeepsScope
<1>12. ASSUME NEW c \in NlqCalls, NEW r, NEW tenant, NEW token, NEW answer \in Answers,
              handle_nlq_complete(c, r, tenant, token, answer)
       PROVE  ScopeInv'
  BY <1>12, CompleteKeepsScope
<1>13. ASSUME NEW c \in NlqCalls, CompleteEnds(c) PROVE ScopeInv'
  BY <1>13, EndsKeepScope
<1>14. CASE NlqNext
  BY <1>3, <1>4, <1>5, <1>6, <1>8, <1>9, <1>10, <1>11, <1>12, <1>13, <1>14 DEF NlqNext
<1>15. QED
  BY <1>7, <1>14

(* Every query that runs for a request scoped to a service filters on it.  *)
LEMMA ScopeInvariant == NlqSpec => []ScopeInv
<1>1. NlqInit => ScopeInv
  <2>1. CallInv(IdleCall)
    BY DEF CallInv, IdleCall
  <2>2. QED
    BY <2>1 DEF NlqInit, ScopeInv
<1>2. QED
  BY <1>1, ScopeInductive, SessionsInvariant, PTL DEF NlqSpec

(* A question keeps its meaning, from the answer of the LLM to the query   *)
(* that runs.                                                              *)
THEOREM QuestionsKeepTheirMeaning == NlqSpec => []QuestionsKeepMeaning
<1>1. ScopeInv => ScopedQueriesFilter
  BY DEF ScopeInv, CallInv, ScopedQueriesFilter
<1>2. ScopeInv => QuestionsKeepMeaning
  BY <1>1, EnvelopesHold, GuessesHold, FiltersHold DEF QuestionsKeepMeaning
<1>3. QED
  BY <1>2, ScopeInvariant, PTL

=============================================================================
