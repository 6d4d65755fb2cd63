----------------------------- MODULE ScmRunner -----------------------------
(***************************************************************************)
(* One call of the SCM runner (processor/scm): choose the tool, render the *)
(* configuration, derive the credential, clone into the workspace.         *)
(***************************************************************************)
VARIABLES
  ctx,       \* the flow's context, with the first reason it ended for
  late,      \* it had ended before Run was called
  vcs,       \* ScmCfg's VcsType, "nil" where there is no ScmCfg
  credit,    \* the type of its Credit, "nil" where there is none
  noRender,  \* the flow's NoEnvRender
  pc,        \* where Run is
  ret,       \* what Run has returned
  dir,       \* the workspace
  rendered,  \* the fields renderCfg has rendered
  used       \* the fields the clone is given

cfgVars == <<vcs, credit, noRender>>
vars == <<ctx, late, cfgVars, pc, ret, dir, rendered, used>>

CreditType == {"NoCredit", "UserPwd", "SSHPrivateKey", "GitlabToken", "GithubToken"}
Secret == {"Username", "Password", "PrivateKey"}
Field == Secret \cup {"Address", "Branch"}

TypeOK ==
  /\ ctx \in {"live", "canceled", "expired"} /\ late \in BOOLEAN
  /\ vcs \in {"nil", "Git", "SVN"} /\ credit \in CreditType \cup {"nil"}
  /\ noRender \in BOOLEAN
  /\ pc \in {"dispatch", "render", "auth", "init", "fetch", "done"}
  /\ ret \in {"none", "ok", "error", "canceled"}
  /\ dir \in {"absent", "empty", "files", "repo"}
  /\ rendered \subseteq Field /\ used \subseteq Field

Init ==
  /\ ctx \in {"live", "canceled", "expired"} /\ late = (ctx # "live")
  /\ vcs \in {"nil", "Git", "SVN"} /\ credit \in CreditType \cup {"nil"}
  /\ noRender \in BOOLEAN
  /\ pc = "dispatch" /\ ret = "none"
  /\ dir \in {"absent", "empty", "files", "repo"}
  /\ rendered = {} /\ used = {}

EndContext ==
  /\ ctx = "live" /\ ctx' \in {"canceled", "expired"}
  /\ UNCHANGED <<late, cfgVars, pc, ret, dir, rendered, used>>

\* DeletePipeline cancels the build, then removes its directory.
DeleteWorkspace ==
  /\ ctx = "canceled" /\ dir' = "absent"
  /\ UNCHANGED <<ctx, late, cfgVars, pc, ret, rendered, used>>

-----------------------------------------------------------------------------
Goto(l) == pc' = l /\ UNCHANGED ret

Return(r) == pc' = "done" /\ ret' = r

\* Without an ScmCfg VcsType panics, which runFlow turns into an error.  Any type but
\* Git is "found missing" by wrapping err, which is still nil: success.
Dispatch ==
  /\ pc = "dispatch"
  /\ \/ vcs = "nil" /\ Return("error")
     \/ vcs = "SVN" /\ Return("ok")
     \/ vcs = "Git" /\ Goto("render")
  /\ UNCHANGED <<ctx, late, cfgVars, dir, rendered, used>>

HasCredit == credit \notin {"nil", "NoCredit"}

FaultyRenderedFields ==            \* variant: written before there were private keys
  {"Address", "Branch"} \cup IF HasCredit THEN {"Username", "Password"} ELSE {}
RenderedFields == {"Address", "Branch"} \cup IF HasCredit THEN Secret ELSE {}

RenderCfg ==
  /\ pc = "render" /\ Goto("auth")
  /\ rendered' = IF noRender THEN {} ELSE RenderedFields
  /\ UNCHANGED <<ctx, late, cfgVars, dir, used>>

\* The fields of a credit that getAuth makes an AuthMethod of.
AuthFields ==
  CASE ~HasCredit               -> {}
    [] credit = "UserPwd"       -> {"Username", "Password"}
    [] credit = "SSHPrivateKey" -> {"PrivateKey", "Password"}
    [] OTHER                    -> {"Password"}

\* A private key may be unreadable, or its passphrase wrong.
GetAuth ==
  /\ pc = "auth"
  /\ \/ Goto("init")
     \/ credit = "SSHPrivateKey" /\ Return("error")
  /\ used' = {"Address", "Branch"} \cup AuthFields
  /\ UNCHANGED <<ctx, late, cfgVars, dir, rendered>>

\* git.PlainClone makes the repository, unless there is one,
PlainInit ==
  /\ pc = "init"
  /\ \/ Return("error") /\ UNCHANGED dir
     \/ dir # "repo" /\ Goto("fetch") /\ dir' = IF dir = "absent" THEN "empty" ELSE dir
  /\ UNCHANGED <<ctx, late, cfgVars, rendered, used>>

FaultyFetch ==                     \* variant: PlainClone in place of PlainCloneContext
  /\ pc = "fetch"
  /\ \/ Return("ok") /\ dir' = "repo"
     \/ Return("error") /\ dir' \in {dir, "repo"}
  /\ UNCHANGED <<ctx, late, cfgVars, rendered, used>>
\* and fills it.  After a failure it takes the repository away again only where the
\* directory had been missing or empty.
Fetch ==
  /\ pc = "fetch"
  /\ \/ ~late /\ Return("ok") /\ dir' = "repo"
     \/ /\ Return("error") \/ (ctx = "canceled" /\ Return("canceled"))
        /\ dir' \in CASE dir = "files"  -> {"repo"}
                       [] dir = "empty"  -> {"empty", "absent"}
                       [] dir = "absent" -> {"absent", "repo"}
  /\ UNCHANGED <<ctx, late, cfgVars, rendered, used>>

Run == Dispatch \/ RenderCfg \/ GetAuth \/ PlainInit \/ Fetch

Next == EndContext \/ DeleteWorkspace \/ Run

Spec == Init /\ [][Next]_vars

\* A clone whose context is live may take for ever.
FairSpec == Spec /\ WF_vars(ctx # "live" /\ Run)

-----------------------------------------------------------------------------
(* Properties. *)

\* Whatever the kind of credential, a field that goes into the clone went through
\* renderCfg first: the two places that list a credential's fields agree.
UsedIsRendered == ~noRender => used \subseteq rendered

FR == INSTANCE FlowRunner WITH kind <- IF vcs = "SVN" THEN "Svn" ELSE "Git"

\* The runner does what the processor takes for granted of it.
ImplementsFlowRunner == FR!FairSpec
=============================================================================
