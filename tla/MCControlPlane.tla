---------------------------- MODULE MCControlPlane ----------------------------
(***************************************************************************)
(* Instances of the services that keep their state in Postgres, for TLC:   *)
(* accounts, dashboards and saved views, deployment markers, model         *)
(* settings, and incidents.  They share users and tenants but no tables,   *)
(* so a behaviour follows one of them, its focus, and leaves the others in *)
(* their initial states.                                                   *)
(***************************************************************************)
EXTENDS Accounts, SharedObjects, Deployments, ModelSettings, Incidents, TLC

CONSTANTS
    Focuses,                       \* components that the run follows
    u1, u2, t1, t2, k1,            \* users, tenants, an API key
    x1, x2,                        \* requests in flight, and the responders of incidents
    o1, o2, v1,                    \* shared objects and deployments, a view's settings
    g1, g2                         \* gateways

VARIABLE focus

MCFirstMembers == {<<u1, t1>>, <<u2, t1>>}

Panel == [title |-> TRUE, panel_kind |-> "none", query_kind |-> "logs", content |-> FALSE,
          layout |-> NoLayout, time_range |-> NoRange, preset |-> "none"]

Lay(x, y, w, h) == [x |-> x, y |-> y, w |-> w, h |-> h]

(* A plain panel, a text panel, and ones that validation has to look at.   *)
MCPanelRequests ==
    {Panel,
     [Panel EXCEPT !.panel_kind = "text", !.query_kind = "none", !.content = TRUE,
                   !.layout = Lay(6, 0, 6, 4), !.preset = "1h"],
     [Panel EXCEPT !.layout = Lay(MaxInt, 0, 1, 1),
                   !.time_range = [mode |-> "absolute", preset |-> "none", bounded |-> TRUE]],
     [Panel EXCEPT !.layout = Lay(7, 0, 6, 4)],
     [Panel EXCEPT !.preset = "2h"],
     [Panel EXCEPT !.time_range = [mode |-> "preset", preset |-> "2h", bounded |-> FALSE]],
     [Panel EXCEPT !.panel_kind = "text"]}

Body(key, url, model, provider, webllm) ==
    [k \in KeySet |-> CASE k = "llm_api_key"  -> key
                        [] k = "llm_url"      -> url
                        [] k = "llm_model"    -> model
                        [] k = "llm_provider" -> provider
                        [] k = "webllm_model" -> webllm]

MCConfigBodies ==
    {Body("k1", "u1", "absent", "remote", "absent"),
     Body("", "absent", "m2", "webllm", "w1"),
     Body("k2", "u2", "absent", "bogus", "absent")}

Env(provider, key, openai, url) ==
    [provider |-> provider, key |-> key, openai |-> openai, url |-> url]

NoEnv == Env("", "", "", "")

(* The two services with one environment, and the one of docker-compose,   *)
(* which gives a key to query-api only.                                    *)
MCEnvironments ==
    {<<e, e>> : e \in {NoEnv, Env("bogus", "", "ko", "ue"), Env("webllm", "ke", "", "ue"),
                       Env("", "ke", "", "")}}
    \union {<<NoEnv, Env("", "ke", "", "")>>}

MCCipher == [k \in {"k1", "k2"} |-> IF k = "k1" THEN "x1" ELSE "x2"]

(* Requests differ in nothing but their names, and so do the ids of rows   *)
(* and the gateways.                                                       *)
Symmetry ==
    Permutations({x1, x2}) \union Permutations({o1, o2}) \union Permutations({g1, g2})

cpVars == <<focus, accVars, shVars, depVars, setVars, inVars>>

CpInit ==
    /\ focus \in Focuses
    /\ AccInit /\ ShInit /\ DepInit /\ SetInit /\ InInit
    /\ focus # "accounts" => ~devMode
    /\ focus # "shared"   => \A o \in Objects : kind[o] = "dashboard"
    /\ platform = NoSettings \/ adminEnv = NoEnv
    /\ focus # "settings" => adminEnv = NoEnv /\ queryEnv = NoEnv /\ platform = NoSettings

(* Sign-ins neither read nor write stored telemetry, so that a behaviour   *)
(* has either the second session or telemetry.                             *)
AccountsBound == logins = 1 \/ telemetry = {}

(* Of a second deployment, a finished one and a restarted gateway, a       *)
(* behaviour has two at most.                                              *)
DeploymentsBound ==
    restarts > 0 /\ finishes > 0 => \E d \in DeploymentIds : markers[d] = NoMarker

CpNext ==
    /\ UNCHANGED focus
    /\ \/ /\ focus = "accounts" /\ AccNext /\ AccountsBound'
          /\ UNCHANGED <<shVars, depVars, setVars, inVars>>
       \/ /\ focus = "shared" /\ ShNext
          /\ UNCHANGED <<accVars, depVars, setVars, inVars>>
       \/ /\ focus = "deployments" /\ DepNext /\ DeploymentsBound'
          /\ UNCHANGED <<accVars, shVars, setVars, inVars>>
       \/ /\ focus = "settings" /\ SetNext
          /\ UNCHANGED <<accVars, shVars, depVars, inVars>>
       \/ /\ focus = "incidents" /\ InNext
          /\ UNCHANGED <<accVars, shVars, depVars, setVars>>

CpSpec == CpInit /\ [][CpNext]_cpVars
=============================================================================
