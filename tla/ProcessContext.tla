--------------------------- MODULE ProcessContext ---------------------------
(***************************************************************************)
(* The process environment of one build (processor/define/define.go):      *)
(* filled from the build's uid and params, written by Lua scripts, and     *)
(* substituted for the references "${NAME}" in the text of each flow when  *)
(* that flow starts.                                                       *)
(*                                                                         *)
(* A text is a sequence of tokens: "${", "}", the names in Name, and other *)
(* words.  One text stands for all of a flow's fields.                     *)
(***************************************************************************)
EXTENDS Scanning, SequencesExt

CONSTANTS
  Name,      \* the names a reference may have, a set of tokens
  Other,     \* tokens that are no part of a reference
  Value,     \* the texts a user-chosen variable may be set to
  Uid,       \* the build's uid, a text
  MaxText,   \* bound: tokens of a flow's text
  MaxFlows   \* bound: flows of the pipeline

VARIABLES
  at,        \* "between" flows, in a "flow", or "done"
  env,       \* ProcessCtx.Env
  flows,     \* how many flows have started
  script,    \* the current flow is a Lua script
  raw,       \* it has NoEnvRender
  template,  \* the text of the current flow as submitted
  used       \* the text it is run with

contextVars == <<at, env, flows, script, raw, template, used>>

GlobalParamsBuildId == "CI_BUILD_ID"
GlobalParamsPipelineStatus == "CI_BUILD_STATUS"
GlobalParamsPipelineFailReason == "CI_BUILD_FAIL_REASON"
BuildSuccess == <<"success">>
BuildFailed == <<"failed">>

EnvKey == Name \cup {GlobalParamsBuildId, GlobalParamsPipelineStatus,
                  GlobalParamsPipelineFailReason}

\* What the model sets each key to.
Settable(k) ==
  CASE k = GlobalParamsBuildId -> {Uid, <<>>}
    [] k = GlobalParamsPipelineStatus -> {BuildSuccess, BuildFailed}
    [] k = GlobalParamsPipelineFailReason -> {<<"why">>}
    [] OTHER -> Value

\* A flow's text does not refer to the build's own variables.
FlowText == BoundedSeq({"${", "}"} \cup Name \cup Other, MaxText)

\* What stands between the braces is not a brace; a value is a text.
ASSUME ContextAssumption ==
  /\ {"${", "}"} \cap Name = {}
  /\ \A v \in Value \cup {Uid} : v \in Seq(Range(v))
  /\ MaxText \in Nat

-----------------------------------------------------------------------------
\* The new values take the place of the old.
AppendEnv(e, new) ==
  [k \in DOMAIN e \cup DOMAIN new |-> IF k \in DOMAIN new THEN new[k] ELSE e[k]]

Setting(k, v) == [x \in {k} |-> v]

PipelineFailed(e) ==
  GlobalParamsPipelineStatus \in DOMAIN e /\ e[GlobalParamsPipelineStatus] = BuildFailed

PipelineSucceed(e) ==
  GlobalParamsPipelineStatus \in DOMAIN e /\ e[GlobalParamsPipelineStatus] = BuildSuccess

Fail(e, failReason) ==
  AppendEnv(e, [k \in {GlobalParamsPipelineStatus, GlobalParamsPipelineFailReason} |->
                 IF k = GlobalParamsPipelineStatus THEN BuildFailed ELSE failReason])

\* reg matches from position i on.
Matches(t, i) ==
  i + 2 <= Len(t) /\ t[i] = "${" /\ t[i + 1] \in Name /\ t[i + 2] = "}"

FaultySubstitute(e, t, i) ==       \* variant: an unknown name gives nothing
  IF t[i + 1] \in DOMAIN e THEN e[t[i + 1]] ELSE <<>>
\* A reference to what the environment does not have stays as it is.
Substitute(e, t, i) ==
  IF t[i + 1] \in DOMAIN e THEN e[t[i + 1]] ELSE SubSeq(t, i, i + 2)

\* ReplaceAllStringFunc: from left to right, going on behind each match; the values
\* put in are not looked at again.
RenderByEnv(e, t) ==
  FlattenSeq(Parts(t, [i \in DOMAIN t |->
                        IF Matches(t, i) THEN Part(Substitute(e, t, i), i + 3)
                        ELSE Part(<<t[i]>>, i + 1)]))

-----------------------------------------------------------------------------
\* Run fills the environment: first the uid, then the params of the request.
ContextInit ==
  /\ at = "between" /\ flows = 0 /\ script = FALSE /\ raw = FALSE
  /\ template = <<>> /\ used = <<>>
  /\ \E P \in SUBSET EnvKey : \E params \in [P -> UNION {Settable(k) : k \in P}] :
       /\ \A k \in P : params[k] \in Settable(k)
       /\ env = AppendEnv(Setting(GlobalParamsBuildId, Uid), params)

\* The runner renders the flow's fields; with NoEnvRender it takes them as they are.
StartFlow ==
  /\ at = "between" /\ flows < MaxFlows
  /\ at' = "flow" /\ flows' = flows + 1
  /\ script' \in BOOLEAN /\ raw' \in BOOLEAN /\ template' \in FlowText
  /\ used' = IF raw' THEN template' ELSE RenderByEnv(env, template')
  /\ UNCHANGED env

\* The script calls setEnv.
SetEnv ==
  /\ at = "flow" /\ script
  /\ \E k \in EnvKey : \E v \in Settable(k) : env' = AppendEnv(env, Setting(k, v))
  /\ UNCHANGED <<at, flows, script, raw, template, used>>

\* The script calls fail.
CallFail ==
  /\ at = "flow" /\ script /\ env' = Fail(env, <<"why">>)
  /\ UNCHANGED <<at, flows, script, raw, template, used>>

EndOfFlow ==
  /\ at = "flow" /\ script' = FALSE /\ raw' = FALSE /\ template' = <<>> /\ used' = <<>>
  /\ UNCHANGED <<env, flows>>

\* The loop of Run goes on with the next flow after one that returned no error, unless
\* the environment says that the build has failed or succeeded.
FinishFlow ==
  /\ EndOfFlow
  /\ \/ at' = "done"
     \/ /\ at' = "between" /\ flows < MaxFlows
        /\ ~PipelineFailed(env) /\ ~PipelineSucceed(env)

ContextNext == StartFlow \/ SetEnv \/ CallFail \/ FinishFlow

ContextSpec == ContextInit /\ [][ContextNext]_contextVars

-----------------------------------------------------------------------------
(* Properties. *)

\* A text t with the references at the places R, and no others, replaced: the tokens
\* of a reference give its value and nothing.
Replaced(e, t, R) ==
  FlattenSeq([i \in DOMAIN t |->
    IF i \in R THEN e[t[i + 1]]
    ELSE IF \E r \in R : i \in {r + 1, r + 2} THEN <<>>
    ELSE <<t[i]>>])

Defined(e, t) == {i \in DOMAIN t : Matches(t, i) /\ t[i + 1] \in DOMAIN e}

\* A flow runs with what the environment held when it started: each reference of the
\* submitted text to a variable that exists is replaced, whatever stands around it,
\* nothing else is, and a value that looks like a reference stays as it is.  Only a flow
\* with NoEnvRender runs with the text as submitted.
RenderedOnce ==
  [][at' = "flow" /\ at = "between" =>
       used' = IF raw' THEN template'
               ELSE Replaced(env, template', Defined(env, template'))]_contextVars
=============================================================================
