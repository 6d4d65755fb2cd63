-------------------------- MODULE ProcessorProofs --------------------------
(***************************************************************************)
(* The pipeline processor is correct for any number of builds, flows and   *)
(* request handlers.  IInv adds to TypeOK what is known of a build at each *)
(* point of its Run (Shape, Context, Listed) and of a handler at each      *)
(* point of its request (Served); the safety properties of Processor       *)
(* follow from it, and so does the implementation of BuildLife.            *)
(***************************************************************************)
EXTENDS Processor, SequenceTheorems, TLAPS

Begun(b) == pc[b] \notin {"new", "queued"}

Early(b) == pc[b] \in {"new", "queued", "mkwork", "mkdata", "mklog", "ready"}

Over(b) == pc[b] \in {"cleanup", "returned"}

LastSt(b) == flowSt[b][Len(flowSt[b])]

AllSucceed(b, n) == \A i \in 1 .. n : flowSt[b][i] = "Succeed"

\* The last flow has ended, and the loop had a reason not to go on.
Concluded(b) ==
  /\ flowSt[b] # <<>> /\ AllSucceed(b, Len(flowSt[b]) - 1)
  /\ LastSt(b) \in Terminal
  /\ LastSt(b) = "Succeed" =>
       /\ Len(flowSt[b]) = Len(flows[b]) \/ env[b] = "success"
       /\ env[b] # "failed"

\* The flows' and the build's status at each point of Run.
Shape(b) ==
  /\ Len(flowSt[b]) <= Len(flows[b])
  /\ Early(b) => flowSt[b] = <<>> /\ status[b] = IF Begun(b) THEN "Started" ELSE "none"
  /\ pc[b] = "next" =>
       /\ Len(flowSt[b]) < Len(flows[b]) /\ AllSucceed(b, Len(flowSt[b]))
       /\ status[b] = "Running"
       /\ flowSt[b] # <<>> => env[b] # "success"
  /\ InFlow(b) =>
       /\ flowSt[b] # <<>> /\ AllSucceed(b, Len(flowSt[b]) - 1)
       /\ LastSt(b) = "Running" /\ status[b] = "Running"
  /\ pc[b] = "verdict" => Concluded(b) /\ status[b] = "Running"
  /\ Over(b) =>
       \/ flowSt[b] = <<>> /\ status[b] \in {"Started", "Running"}
       \/ Concluded(b) /\ status[b] = LastSt(b)

\* A flow's context ends with the job's, and Canceled comes from there only.
Context(b) ==
  /\ InFlow(b) /\ flowCtx[b] = "live" => jobCtx[b] = "live"
  /\ InFlow(b) /\ flowCtx[b] = "canceled" => jobCtx[b] = "canceled"
  /\ flowSt[b] # <<>> /\ LastSt(b) = "Canceled" => jobCtx[b] = "canceled"
  /\ jobCtx[b] = "released" => pc[b] = "returned"
  /\ pc[b] = "returned" => jobCtx[b] # "live"

\* The registry's entry of a build against its Run.
Listed(b) ==
  /\ progressMp[b] = "init" => b \in Web
  /\ progressMp[b] = "run" => Begun(b)
  /\ b \notin Web /\ progressMp[b] = "none" /\ Active(b) => jobCtx[b] # "live"

Swept(b) == pc[b] = "returned" => ~work[b]

\* What a handler knows of the build it serves.
Served(h) ==
  LET b == hreq[h].build IN
  /\ hpc[h] \in {"idle", "load"} => hent[h] = "none"
  /\ hent[h] = "init" => b \in Web
  /\ hent[h] = "run" => Begun(b)
  /\ hpc[h] \in {"remove", "forget"} => hent[h] = "run" /\ jobCtx[b] # "live"

BuildInv(b) == Shape(b) /\ Context(b) /\ Listed(b) /\ Swept(b)

IInv ==
  /\ TypeOK
  /\ \A b \in Build : BuildInv(b)
  /\ \A h \in Handler : Served(h)

-----------------------------------------------------------------------------
(* Frames: what a step that leaves a build, or a handler, alone preserves.  *)

SameBuild(c) ==
  /\ pc'[c] = pc[c] /\ flows'[c] = flows[c] /\ status'[c] = status[c]
  /\ flowSt'[c] = flowSt[c] /\ env'[c] = env[c]

SameCtx(c) == jobCtx'[c] = jobCtx[c] /\ flowCtx'[c] = flowCtx[c]

LEMMA ShapeFrame ==
  ASSUME NEW c, Shape(c), SameBuild(c)
  PROVE  Shape(c)'
BY DEF Shape, SameBuild, Early, Begun, Over, Concluded, AllSucceed, LastSt, InFlow

LEMMA BuildFrame ==
  ASSUME NEW c, BuildInv(c), SameBuild(c), SameCtx(c),
         progressMp'[c] = progressMp[c], work'[c] = work[c]
  PROVE  BuildInv(c)'
<1>1. Shape(c)'
  BY ShapeFrame DEF BuildInv
<1>2. Context(c)' /\ Listed(c)' /\ Swept(c)'
  BY DEF BuildInv, Context, Listed, Swept, SameBuild, SameCtx, LastSt, InFlow, Begun, Active
<1> QED
  BY <1>1, <1>2 DEF BuildInv

\* A handler keeps what it knows when builds only go on and contexts only end.
LEMMA ServedFrame ==
  ASSUME TypeOK, NEW h \in Handler, Served(h), UNCHANGED handlerVars,
         \A b \in Build : Begun(b) => Begun(b)' /\ (jobCtx[b] # "live" => jobCtx'[b] # "live")
  PROVE  Served(h)'
<1>1. hpc[h] # "idle" => hreq[h].build \in Build
  BY DEF TypeOK, Request
<1>2. hpc[h] = "idle" => hent[h] = "none"
  BY DEF Served
<1>3. hent[h] # "none" => hpc[h] # "idle"
  BY <1>2
<1> QED
  BY <1>1, <1>3 DEF Served, handlerVars

\* What no step takes back: a Run that has begun, a job context that has ended.
Onward == \A b \in Build : Begun(b) => Begun(b)' /\ (jobCtx[b] # "live" => jobCtx'[b] # "live")

Aside(b) ==
  \A c \in Build \ {b} :
    SameBuild(c) /\ SameCtx(c) /\ progressMp'[c] = progressMp[c] /\ work'[c] = work[c]

\* A step of one build's own.
LEMMA OneBuild ==
  ASSUME IInv, TypeOK', NEW b \in Build, BuildInv(b)', Aside(b), Onward, UNCHANGED handlerVars
  PROVE  IInv'
<1>1. \A c \in Build \ {b} : BuildInv(c)'
  BY BuildFrame DEF IInv, Aside
<1>2. \A h \in Handler : Served(h)'
  BY ServedFrame DEF IInv, Onward
<1> QED
  BY <1>1, <1>2 DEF IInv

-----------------------------------------------------------------------------
(* Contexts. *)

LEMMA EndBuildsKeeps ==
  ASSUME IInv, NEW B, NEW why \in {"canceled", "expired"}, EndBuilds(why, B),
         UNCHANGED <<progressMp, crashed, buildVars, work, data>>,
         rootDone' \in BOOLEAN
  PROVE  /\ \A b \in Build : BuildInv(b)'
         /\ Onward
         /\ jobCtx' \in [Build -> {"live", "canceled", "expired", "released"}]
         /\ flowCtx' \in [Build -> {"live", "canceled", "expired"}]
<1> USE DEF IInv, EndBuilds, EndCtx, buildVars
<1>1. /\ jobCtx' \in [Build -> {"live", "canceled", "expired", "released"}]
      /\ flowCtx' \in [Build -> {"live", "canceled", "expired"}]
  BY DEF TypeOK
<1>2. Onward
  BY DEF Onward, Begun
<1>3. ASSUME NEW b \in Build PROVE BuildInv(b)'
  <2>1. Shape(b)'
    BY ShapeFrame DEF BuildInv, SameBuild
  <2>2. Context(b)'
    BY DEF BuildInv, Context, LastSt, InFlow, TypeOK
  <2>3. Listed(b)' /\ Swept(b)'
    BY DEF BuildInv, Listed, Swept, Begun, Active
  <2> QED
    BY <2>1, <2>2, <2>3 DEF BuildInv
<1> QED
  BY <1>1, <1>2, <1>3

LEMMA ContextStep ==
  ASSUME IInv, CancelRoot \/ \E b \in Build : PipelineTimeout(b)
  PROVE  IInv'
<1>1. \E B \in SUBSET Build, why \in {"canceled", "expired"} : EndBuilds(why, B)
  <2>1. CASE CancelRoot
    <3> DEFINE B == {b \in Build : Active(b)}
    <3>1. B \in SUBSET Build /\ EndBuilds("canceled", B)
      BY <2>1 DEF CancelRoot
    <3> HIDE DEF B
    <3> QED
      BY <3>1
  <2>2. ASSUME NEW b \in Build, PipelineTimeout(b)
        PROVE  \E B \in SUBSET Build, why \in {"canceled", "expired"} : EndBuilds(why, B)
    <3>1. {b} \in SUBSET Build /\ EndBuilds("expired", {b})
      BY <2>2 DEF PipelineTimeout
    <3> QED
      BY <3>1
  <2> QED
    BY <2>1, <2>2
<1>2. /\ UNCHANGED <<progressMp, crashed, buildVars, work, data, handlerVars>>
      /\ rootDone' \in BOOLEAN
  BY DEF CancelRoot, PipelineTimeout, dirVars, IInv, TypeOK
<1>3. /\ \A b \in Build : BuildInv(b)'
      /\ Onward
      /\ jobCtx' \in [Build -> {"live", "canceled", "expired", "released"}]
      /\ flowCtx' \in [Build -> {"live", "canceled", "expired"}]
  BY <1>1, <1>2, EndBuildsKeeps
<1>4. TypeOK'
  BY <1>2, <1>3 DEF IInv, TypeOK, buildVars, handlerVars
<1>5. \A h \in Handler : Served(h)'
  BY <1>2, <1>3, ServedFrame DEF IInv, Onward
<1> QED
  BY <1>3, <1>4, <1>5 DEF IInv

LEMMA FlowTimeoutStep ==
  ASSUME IInv, NEW b \in Build, FlowTimeout(b)
  PROVE  IInv'
<1> USE DEF FlowTimeout, buildVars, dirVars
<1>1. TypeOK'
  BY DEF IInv, TypeOK, handlerVars
<1>2. Aside(b) /\ Onward
  BY DEF IInv, TypeOK, Aside, Onward, SameBuild, SameCtx, Begun
<1>3. Shape(b)'
  BY ShapeFrame DEF IInv, BuildInv, SameBuild
<1>4. Context(b)' /\ Listed(b)' /\ Swept(b)'
  BY DEF IInv, TypeOK, BuildInv, Context, Listed, Swept, LastSt, InFlow, Begun, Active
<1> QED
  BY <1>1, <1>2, <1>3, <1>4, OneBuild DEF BuildInv

-----------------------------------------------------------------------------
(* Submitting, and Run up to its flows. *)

LEMMA SubmitStep ==
  ASSUME IInv, NEW b \in Build, Submit(b)
  PROVE  IInv'
<1> USE DEF Submit, ctxVars, dirVars
<1>1. PICK fs \in Pipelines : flows' = [flows EXCEPT ![b] = fs]
  OBVIOUS
<1>2. fs \in Seq(Kind) /\ Len(fs) \in Nat
  BY ProcessorAssumption
<1>3. TypeOK'
  BY <1>1, <1>2 DEF IInv, TypeOK, handlerVars, RunPc
<1>4. Aside(b) /\ Onward
  BY <1>1 DEF IInv, TypeOK, Aside, Onward, SameBuild, SameCtx, Begun
<1>5. flowSt[b] = <<>> /\ flowSt'[b] = <<>> /\ status'[b] = "none"
  BY DEF IInv, BuildInv, Shape, Early, Begun
<1>6. pc'[b] = "queued" /\ flows'[b] = fs
  BY <1>1 DEF IInv, TypeOK
<1>7. Shape(b)'
  BY <1>2, <1>5, <1>6 DEF Shape, Early, Begun, Over, InFlow
<1>8. Context(b)' /\ Listed(b)' /\ Swept(b)'
  BY <1>1, <1>5, <1>6 DEF IInv, BuildInv, Context, Listed, Swept, LastSt, InFlow, Begun, Active
<1> QED
  BY <1>3, <1>4, <1>7, <1>8, OneBuild DEF BuildInv

LEMMA InitPipelineStep ==
  ASSUME IInv, NEW b \in Build, InitPipeline(b)
  PROVE  IInv'
<1> USE DEF InitPipeline, ctxVars, dirVars
<1>1. TypeOK'
  BY DEF IInv, TypeOK, handlerVars
<1>2. Aside(b) /\ Onward
  BY DEF IInv, TypeOK, Aside, Onward, SameBuild, SameCtx, Begun
<1>3. b \in Web /\ progressMp'[b] = "init"
  BY DEF IInv, TypeOK
<1>4. Shape(b)'
  BY ShapeFrame DEF IInv, BuildInv, SameBuild
<1>5. Context(b)' /\ Listed(b)' /\ Swept(b)'
  BY <1>3 DEF IInv, BuildInv, Context, Listed, Swept, LastSt, InFlow, Begun, Active
<1> QED
  BY <1>1, <1>2, <1>4, <1>5, OneBuild DEF BuildInv

LEMMA PrepareTypes ==
  ASSUME IInv, NEW b \in Build,
         BeginRun(b) \/ MakeWorkDir(b) \/ MakeDataDir(b) \/ CreateLog(b)
  PROVE  TypeOK'
<1> USE DEF Goto, SetStatus, Store, runFrame, ctxVars, dirVars, handlerVars, RunPc
<1>1. CASE BeginRun(b)
  <2> USE <1>1 DEF BeginRun
  <2>1. pc' \in [Build -> RunPc] /\ progressMp' \in [Build -> {"none", "init", "run"}]
    BY DEF IInv, TypeOK
  <2>2. status' \in [Build -> Status]
    BY DEF IInv, TypeOK, Status
  <2>3. jobCtx' \in [Build -> {"live", "canceled", "expired", "released"}]
    BY DEF IInv, TypeOK
  <2> QED
    BY <2>1, <2>2, <2>3 DEF IInv, TypeOK
<1>2. CASE MakeWorkDir(b)
  <2>1. pc \in [Build -> RunPc] /\ work \in [Build -> BOOLEAN]
    BY DEF IInv, TypeOK
  <2>2. pc' \in [Build -> RunPc]
    BY <1>2, <2>1 DEF MakeWorkDir
  <2>3. work' \in [Build -> BOOLEAN]
    BY <1>2, <2>1 DEF MakeWorkDir
  <2> QED
    BY <1>2, <2>2, <2>3 DEF MakeWorkDir, IInv, TypeOK
<1>3. CASE MakeDataDir(b)
  BY <1>3 DEF MakeDataDir, IInv, TypeOK
<1>4. CASE CreateLog(b)
  BY <1>4 DEF CreateLog, IInv, TypeOK
<1> QED
  BY <1>1, <1>2, <1>3, <1>4

LEMMA PrepareStep ==
  ASSUME IInv, NEW b \in Build,
         BeginRun(b) \/ MakeWorkDir(b) \/ MakeDataDir(b) \/ CreateLog(b)
  PROVE  IInv'
<1> USE DEF BeginRun, MakeWorkDir, MakeDataDir, CreateLog, Goto, SetStatus, Store, runFrame,
            ctxVars, dirVars
<1>1. TypeOK'
  BY PrepareTypes
<1>2. Aside(b) /\ Onward
  BY DEF IInv, TypeOK, Aside, Onward, SameBuild, SameCtx, Begun
<1>3. /\ flowSt[b] = <<>> /\ flowSt'[b] = <<>> /\ flows'[b] = flows[b]
      /\ pc'[b] \in {"mkwork", "mkdata", "mklog", "ready", "cleanup"}
  BY DEF IInv, TypeOK, BuildInv, Shape, Early
<1>4. status'[b] = "Started"
  BY DEF IInv, TypeOK, BuildInv, Shape, Early, Begun
<1>5. Shape(b)'
  BY <1>3, <1>4 DEF Shape, Early, Begun, Over, InFlow, IInv, BuildInv
<1>6. Context(b)' /\ Listed(b)' /\ Swept(b)'
  BY <1>3 DEF IInv, TypeOK, BuildInv, Context, Listed, Swept, LastSt, InFlow, Begun, Active
<1> QED
  BY <1>1, <1>2, <1>5, <1>6, OneBuild DEF BuildInv

LEMMA EnterRunningStep ==
  ASSUME IInv, NEW b \in Build, EnterRunning(b)
  PROVE  IInv'
<1> USE DEF EnterRunning, Goto, SetStatus, Store, runFrame, ctxVars, dirVars
<1>1. TypeOK'
  BY DEF IInv, TypeOK, handlerVars, RunPc, Status, FlowStatus
<1>2. Aside(b) /\ Onward
  BY DEF IInv, TypeOK, Aside, Onward, SameBuild, SameCtx, Begun
<1>3. /\ flowSt[b] = <<>> /\ flowSt'[b] = <<>> /\ flows'[b] = flows[b] /\ status'[b] = "Running"
      /\ pc'[b] = IF flows[b] = <<>> THEN "cleanup" ELSE "next"
  BY DEF IInv, TypeOK, BuildInv, Shape, Early
<1>4. flows[b] \in Seq(Kind) /\ (flows[b] # <<>> => 0 < Len(flows[b]))
  BY DEF IInv, TypeOK
<1>5. Shape(b)'
  BY <1>3, <1>4 DEF Shape, Early, Over, InFlow, AllSucceed
<1>6. Context(b)' /\ Listed(b)' /\ Swept(b)'
  BY <1>3 DEF IInv, TypeOK, BuildInv, Context, Listed, Swept, LastSt, InFlow, Begun, Active
<1> QED
  BY <1>1, <1>2, <1>5, <1>6, OneBuild DEF BuildInv

-----------------------------------------------------------------------------
(* The flows. *)

LEMMA StartFlowStep ==
  ASSUME IInv, NEW b \in Build, StartFlow(b)
  PROVE  IInv'
<1> USE DEF StartFlow, Goto, SetStatus, Store, runFrame, dirVars
<1> DEFINE n == Len(flowSt[b])
<1>1. /\ flowSt[b] \in Seq(FlowStatus) /\ n \in Nat
      /\ flows[b] \in Seq(Kind) /\ Len(flows[b]) \in Nat
  BY DEF IInv, TypeOK
<1>2. flowSt'[b] = Append(flowSt[b], "Running") /\ "Running" \in FlowStatus
  BY DEF IInv, TypeOK, FlowStatus
<1>3. /\ flowSt'[b] \in Seq(FlowStatus) /\ flowSt'[b] # <<>> /\ Len(flowSt'[b]) = n + 1
      /\ \A i \in 1 .. n : flowSt'[b][i] = flowSt[b][i]
      /\ flowSt'[b][n + 1] = "Running"
  BY <1>1, <1>2, AppendProperties
<1>4. n < Len(flows[b]) /\ AllSucceed(b, n)
  BY DEF IInv, BuildInv, Shape
<1>5. jobCtx[b] \in {"live", "canceled", "expired"}
  BY DEF IInv, TypeOK, BuildInv, Context
<1>6. /\ pc'[b] = IF jobCtx[b] = "live" THEN "flow" ELSE "lateflow"
      /\ flows'[b] = flows[b] /\ status'[b] = "Running" /\ flowCtx'[b] = jobCtx[b]
      /\ jobCtx'[b] = jobCtx[b] /\ progressMp'[b] = "run" /\ work'[b] = work[b]
  BY DEF IInv, TypeOK
<1>7. TypeOK'
  <2>1. flowSt' \in [Build -> Seq(FlowStatus)]
    BY <1>3 DEF IInv, TypeOK
  <2>2. /\ progressMp' \in [Build -> {"none", "init", "run"}]
        /\ pc' \in [Build -> RunPc]
        /\ status' \in [Build -> Status]
    BY DEF IInv, TypeOK, RunPc, Status, FlowStatus
  <2>3. flowCtx' \in [Build -> {"live", "canceled", "expired"}]
    BY <1>5 DEF IInv, TypeOK
  <2> QED
    BY <2>1, <2>2, <2>3 DEF IInv, TypeOK, handlerVars
<1>8. Aside(b) /\ Onward
  BY DEF IInv, TypeOK, Aside, Onward, SameBuild, SameCtx, Begun
<1>9. InFlow(b)' /\ ~Early(b)' /\ ~Over(b)' /\ pc'[b] \notin {"next", "verdict", "returned"}
  BY <1>6 DEF InFlow, Early, Over
<1>10. LastSt(b)' = "Running"
  BY <1>3 DEF LastSt
<1>11. Len(flowSt'[b]) <= Len(flows'[b]) /\ Len(flowSt'[b]) - 1 = n
  BY <1>1, <1>3, <1>4, <1>6
<1>12. Shape(b)'
  <2>1. \A i \in 1 .. n : flowSt'[b][i] = "Succeed"
    BY <1>3, <1>4 DEF AllSucceed
  <2>2. AllSucceed(b, Len(flowSt[b]) - 1)'
    BY <2>1, <1>11 DEF AllSucceed
  <2> QED
    BY <2>2, <1>3, <1>6, <1>9, <1>10, <1>11 DEF Shape
<1>13. Context(b)' /\ Swept(b)'
  BY <1>5, <1>6, <1>9, <1>10 DEF Context, Swept
<1>14. Listed(b)'
  BY <1>6 DEF IInv, BuildInv, Listed, Begun, Active
<1> QED
  BY <1>7, <1>8, <1>12, <1>13, <1>14, OneBuild DEF BuildInv

LEMMA LuaEndsProcessStep ==
  ASSUME IInv, NEW b \in Build, LuaEndsProcess(b)
  PROVE  IInv'
<1> USE DEF LuaEndsProcess, buildVars, ctxVars, dirVars
<1>1. TypeOK'
  BY DEF IInv, TypeOK, handlerVars
<1>2. Aside(b) /\ Onward
  BY DEF IInv, TypeOK, Aside, Onward, SameBuild, SameCtx, Begun
<1>3. Shape(b)'
  BY ShapeFrame DEF IInv, BuildInv, SameBuild
<1>4. Context(b)' /\ Listed(b)' /\ Swept(b)'
  BY DEF IInv, BuildInv, Context, Listed, Swept, LastSt, InFlow, Begun, Active
<1> QED
  BY <1>1, <1>2, <1>3, <1>4, OneBuild DEF BuildInv

LEMMA LuaSetsStatusStep ==
  ASSUME IInv, NEW b \in Build, LuaSetsStatus(b)
  PROVE  IInv'
<1> USE DEF LuaSetsStatus, LuaRunning, runFrame, ctxVars, dirVars
<1>1. TypeOK'
  BY DEF IInv, TypeOK, handlerVars
<1>2. Aside(b) /\ Onward
  BY DEF IInv, TypeOK, Aside, Onward, SameBuild, SameCtx, Begun
<1>3. Shape(b)'
  BY DEF IInv, BuildInv, Shape, InFlow, Early, Over, AllSucceed, LastSt
<1>4. Context(b)' /\ Listed(b)' /\ Swept(b)'
  BY DEF IInv, BuildInv, Context, Listed, Swept, LastSt, InFlow, Begun, Active
<1> QED
  BY <1>1, <1>2, <1>3, <1>4, OneBuild DEF BuildInv

\* A runner says "canceled" only when its context was, and a flow has not succeeded
\* where the environment says that the build failed.
LEMMA CanceledResult ==
  ASSUME NEW kind \in Kind, NEW late, NEW ctx,
         NEW r \in RunFlowResults(kind, late, ctx)
  PROVE  /\ FlowVerdict(r, "none") \in Terminal
         /\ \A e : FlowVerdict(r, e) \in Terminal
         /\ \A e : FlowVerdict(r, e) = "Canceled" => ctx = "canceled"
         /\ \A e : FlowVerdict(r, e) = "Succeed" => e # "failed"
<1>1. r \in {"ok", "error", "canceled"} /\ (r = "canceled" => ctx = "canceled")
  <2>1. RunFlowResults(kind, late, ctx) \subseteq {"ok", "error"} \cup ContextAware(late, ctx)
    BY DEF RunFlowResults, ScmResults, ShellResults, DockerBuildResults, LuaResults, Kind
  <2>2. \A x \in ContextAware(late, ctx) :
          x \in {"ok", "error", "canceled"} /\ (x = "canceled" => ctx = "canceled")
    BY DEF ContextAware
  <2> QED
    BY <2>1, <2>2
<1> QED
  BY <1>1 DEF FlowVerdict, Terminal

LEMMA FinishFlowStep ==
  ASSUME IInv, NEW b \in Build, FinishFlow(b)
  PROVE  IInv'
<1> USE DEF FinishFlow, Goto, Store, runFrame, ctxVars
<1> DEFINE n == Len(flowSt[b])
<1>1. PICK r \in RunFlowResults(CurrentKind(b), pc[b] = "lateflow", flowCtx[b]) :
        LET st == FlowVerdict(r, env[b]) IN
        /\ flowSt' = [flowSt EXCEPT ![b][Len(flowSt[b])] = st]
        /\ pc' = [pc EXCEPT ![b] =
                    IF EndsLoop(st, env[b]) \/ Len(flowSt[b]) = Len(flows[b])
                    THEN "verdict" ELSE "next"]
  OBVIOUS
<1> DEFINE st == FlowVerdict(r, env[b])
<1>2. PICK d \in WorkLeftBy(CurrentKind(b), pc[b] = "lateflow", work[b]) :
        work' = [work EXCEPT ![b] = d]
  OBVIOUS
<1>3. /\ flowSt[b] \in Seq(FlowStatus) /\ n \in Nat
      /\ flows[b] \in Seq(Kind) /\ Len(flows[b]) \in Nat
  BY DEF IInv, TypeOK
<1>4. /\ flowSt[b] # <<>> /\ AllSucceed(b, n - 1) /\ n <= Len(flows[b])
      /\ status[b] = "Running"
  BY DEF IInv, BuildInv, Shape
<1>5. n \in 1 .. n /\ n \in 1 .. Len(flows[b])
  BY <1>3, <1>4
<1>6. CurrentKind(b) \in Kind
  BY <1>3, <1>5 DEF CurrentKind
<1>7. /\ st \in Terminal /\ (st = "Canceled" => flowCtx[b] = "canceled")
      /\ st = "Succeed" => env[b] # "failed"
  BY <1>6, CanceledResult
<1>8. st \in FlowStatus
  BY <1>7 DEF FlowStatus
<1> HIDE DEF st
<1>9. flowSt'[b] = [flowSt[b] EXCEPT ![n] = st]
  BY <1>1 DEF IInv, TypeOK, st
<1>10. /\ flowSt'[b] \in Seq(FlowStatus) /\ Len(flowSt'[b]) = n
       /\ \A j \in 1 .. n : flowSt'[b][j] = IF j = n THEN st ELSE flowSt[b][j]
  BY <1>3, <1>5, <1>8, <1>9, ExceptSeq
<1>11. /\ pc'[b] = IF EndsLoop(st, env[b]) \/ n = Len(flows[b]) THEN "verdict" ELSE "next"
       /\ flows'[b] = flows[b] /\ status'[b] = "Running" /\ env'[b] = env[b]
       /\ flowCtx'[b] = flowCtx[b] /\ jobCtx'[b] = jobCtx[b] /\ progressMp'[b] = "run"
  BY <1>1, <1>4 DEF IInv, TypeOK, st
<1>12. TypeOK'
  <2>1. flowSt' \in [Build -> Seq(FlowStatus)]
    BY <1>1, <1>9, <1>10 DEF IInv, TypeOK
  <2>2. work' \in [Build -> BOOLEAN]
    <3>1. work \in [Build -> BOOLEAN]
      BY DEF IInv, TypeOK
    <3>2. d \in BOOLEAN
      BY <3>1 DEF WorkLeftBy
    <3> QED
      BY <1>2, <3>1, <3>2
  <2>3. /\ progressMp' \in [Build -> {"none", "init", "run"}]
        /\ pc' \in [Build -> RunPc]
    BY <1>1 DEF IInv, TypeOK, RunPc
  <2> QED
    BY <2>1, <2>2, <2>3 DEF IInv, TypeOK, handlerVars
<1>13. Aside(b) /\ Onward
  BY <1>1, <1>2 DEF IInv, TypeOK, Aside, Onward, SameBuild, SameCtx, Begun
<1>14. flowSt'[b] # <<>> /\ AllSucceed(b, n - 1)' /\ LastSt(b)' = st
  BY <1>3, <1>4, <1>5, <1>10 DEF AllSucceed, LastSt
<1>15. Shape(b)'
  <2>1. CASE pc'[b] = "verdict"
    <3>1. st = "Succeed" => n = Len(flows[b]) \/ env[b] = "success"
      BY <2>1, <1>11 DEF EndsLoop
    <3>2. Concluded(b)'
      BY <3>1, <1>7, <1>10, <1>11, <1>14 DEF Concluded
    <3> QED
      BY <2>1, <3>2, <1>4, <1>10, <1>11 DEF Shape, Early, Over, InFlow
  <2>2. CASE pc'[b] = "next"
    <3>1. st = "Succeed" /\ n # Len(flows[b]) /\ env'[b] # "success"
      BY <2>2, <1>11 DEF EndsLoop
    <3>2. n < Len(flows[b])
      BY <3>1, <1>3, <1>4
    <3>3. AllSucceed(b, n)'
      BY <3>1, <1>4, <1>3, <1>10 DEF AllSucceed
    <3> QED
      BY <2>2, <3>1, <3>2, <3>3, <1>10, <1>11 DEF Shape, Early, Over, InFlow
  <2> QED
    BY <2>1, <2>2, <1>11
<1>16. Context(b)'
  BY <1>7, <1>11, <1>14 DEF IInv, BuildInv, Context, InFlow
<1>17. Listed(b)' /\ Swept(b)'
  BY <1>11 DEF IInv, BuildInv, Listed, Swept, Begun, Active
<1> QED
  BY <1>12, <1>13, <1>15, <1>16, <1>17, OneBuild DEF BuildInv

LEMMA VerdictStep ==
  ASSUME IInv, NEW b \in Build, Verdict(b)
  PROVE  IInv'
<1> USE DEF Verdict, Goto, SetStatus, Store, runFrame, ctxVars, dirVars
<1> DEFINE n == Len(flowSt[b])
<1>1. /\ flowSt[b] \in Seq(FlowStatus) /\ n \in Nat /\ DOMAIN flowSt[b] = 1 .. n
      /\ flowSt[b] # <<>> /\ n \in 1 .. n
  BY DEF IInv, TypeOK, BuildInv, Shape, Concluded
<1>2. /\ AllSucceed(b, n - 1) /\ LastSt(b) \in Terminal
      /\ LastSt(b) = "Succeed" => n = Len(flows[b]) \/ env[b] = "success"
      /\ LastSt(b) = "Succeed" => env[b] # "failed"
  BY DEF IInv, BuildInv, Shape, Concluded
<1>3. \A i \in 1 .. n : Bad(flowSt[b][i]) => i = n
  BY <1>1, <1>2 DEF AllSucceed, Bad
<1>4. status' = [status EXCEPT ![b] = LastSt(b)]
  <2>1. CASE /\ \A i \in DOMAIN flowSt[b] : ~Bad(flowSt[b][i])
             /\ status' = [status EXCEPT ![b] = "Succeed"]
    <3>1. ~Bad(LastSt(b))
      BY <2>1, <1>1 DEF LastSt
    <3>2. LastSt(b) = "Succeed"
      BY <3>1, <1>2 DEF Terminal, Bad
    <3> QED
      BY <2>1, <3>2
  <2>2. ASSUME NEW i \in DOMAIN flowSt[b], Bad(flowSt[b][i]),
               status' = [status EXCEPT ![b] = flowSt[b][i]]
        PROVE  status' = [status EXCEPT ![b] = LastSt(b)]
    BY <2>2, <1>1, <1>3 DEF LastSt
  <2> QED
    BY <2>1, <2>2
<1>5. /\ status'[b] = LastSt(b) /\ pc'[b] = "cleanup"
      /\ flowSt'[b] = flowSt[b] /\ flows'[b] = flows[b] /\ env'[b] = env[b]
  BY <1>4 DEF IInv, TypeOK
<1>6. TypeOK'
  <2>1. LastSt(b) \in Status
    BY <1>2 DEF Status, FlowStatus
  <2>2. status' \in [Build -> Status] /\ pc' \in [Build -> RunPc]
    BY <2>1, <1>4 DEF IInv, TypeOK, RunPc
  <2> QED
    BY <2>2 DEF IInv, TypeOK, handlerVars
<1>7. Aside(b) /\ Onward
  BY <1>4 DEF IInv, TypeOK, Aside, Onward, SameBuild, SameCtx, Begun
<1>8. Concluded(b)'
  BY <1>1, <1>2, <1>5 DEF Concluded, AllSucceed, LastSt
<1>9. Shape(b)'
  BY <1>5, <1>8 DEF IInv, BuildInv, Shape, Early, Over, InFlow, LastSt
<1>10. Context(b)' /\ Listed(b)' /\ Swept(b)'
  BY <1>5 DEF IInv, TypeOK, BuildInv, Context, Listed, Swept, LastSt, InFlow, Begun, Active
<1> QED
  BY <1>6, <1>7, <1>9, <1>10, OneBuild DEF BuildInv

LEMMA CleanupStep ==
  ASSUME IInv, NEW b \in Build, Cleanup(b)
  PROVE  IInv'
<1> USE DEF Cleanup, Goto, EndCtx, runFrame
<1>1. TypeOK'
  BY DEF IInv, TypeOK, handlerVars, RunPc
<1>2. Aside(b) /\ Onward
  BY DEF IInv, TypeOK, Aside, Onward, SameBuild, SameCtx, Begun
<1>3. Shape(b)'
  BY DEF IInv, TypeOK, BuildInv, Shape, Early, Over, InFlow, Concluded, AllSucceed, LastSt
<1>4. Context(b)' /\ Listed(b)' /\ Swept(b)'
  BY DEF IInv, TypeOK, BuildInv, Context, Listed, Swept, LastSt, InFlow, Begun, Active
<1> QED
  BY <1>1, <1>2, <1>3, <1>4, OneBuild DEF BuildInv

-----------------------------------------------------------------------------
(* The request handlers. *)

\* A step of one handler that may end contexts and clear directories and entries.
OthersServe(h) ==
  \A k \in Handler \ {h} : hpc'[k] = hpc[k] /\ hreq'[k] = hreq[k] /\ hent'[k] = hent[k]

LEMMA OneHandler ==
  ASSUME IInv, TypeOK', NEW h \in Handler, Served(h)', OthersServe(h), Onward,
         \A b \in Build : BuildInv(b)'
  PROVE  IInv'
<1>1. ASSUME NEW k \in Handler \ {h} PROVE Served(k)'
  <2>1. hpc[k] # "idle" => hreq[k].build \in Build
    BY DEF IInv, TypeOK, Request
  <2>2. Served(k) /\ (hent[k] # "none" => hpc[k] # "idle")
    BY DEF IInv, Served
  <2> QED
    BY <2>1, <2>2 DEF Served, OthersServe, Onward
<1> QED
  BY <1>1 DEF IInv

\* The handlers' part of TypeOK, and that it is all a handler's step must restore
\* where the rest stands.
HandlerTypes ==
  /\ hpc \in [Handler -> {"idle", "load", "cancel", "remove", "forget", "marshal"}]
  /\ hreq \in [Handler -> Request \cup {NoReq}]
  /\ \A k \in Handler : hpc[k] # "idle" => hreq[k] \in Request
  /\ hent \in [Handler -> {"none", "init", "run"}]

LEMMA AnswerTypes ==
  ASSUME IInv, NEW h \in Handler, Answer(h)
  PROVE  HandlerTypes'
<1>1. HandlerTypes
  BY DEF IInv, TypeOK, HandlerTypes
<1>2. hpc' \in [Handler -> {"idle", "load", "cancel", "remove", "forget", "marshal"}]
  BY <1>1 DEF HandlerTypes, Answer
<1>3. hreq' \in [Handler -> Request \cup {NoReq}]
  BY <1>1 DEF HandlerTypes, Answer
<1>4. hent' \in [Handler -> {"none", "init", "run"}]
  BY <1>1 DEF HandlerTypes, Answer
<1>5. ASSUME NEW k \in Handler, hpc'[k] # "idle" PROVE hreq'[k] \in Request
  <2>1. k # h
    BY <1>1, <1>5 DEF HandlerTypes, Answer
  <2> QED
    BY <1>1, <1>5, <2>1 DEF HandlerTypes, Answer
<1> QED
  BY <1>2, <1>3, <1>4, <1>5 DEF HandlerTypes

LEMMA ProceedTypes ==
  ASSUME IInv, NEW h \in Handler, hpc[h] # "idle",
         NEW l \in {"cancel", "remove", "forget", "marshal"},
         Proceed(h, l)
  PROVE  HandlerTypes'
<1>1. HandlerTypes
  BY DEF IInv, TypeOK, HandlerTypes
<1> QED
  BY <1>1 DEF HandlerTypes, Proceed

LEMMA HandlerFrame ==
  ASSUME IInv, HandlerTypes', serveFrame' = serveFrame, UNCHANGED <<ctxVars, dirVars>>,
         crashed' \in BOOLEAN, progressMp' \in [Build -> {"none", "init", "run"}]
  PROVE  TypeOK'
  BY DEF IInv, TypeOK, HandlerTypes, serveFrame, ctxVars, dirVars

\* The steps that touch nothing but the handler.
LEMMA QuietHandlerStep ==
  ASSUME IInv, NEW h \in Handler, ReceiveRequest(h) \/ Load(h) \/ Marshal(h) \/ MarshalRace(h)
  PROVE  IInv'
<1> USE DEF ReceiveRequest, Load, Marshal, MarshalRace, Answer, serveFrame, ctxVars, dirVars,
            handlerVars
<1>1. TypeOK'
  <2>1. HandlerTypes
    BY DEF IInv, TypeOK, HandlerTypes
  <2>2. CASE ReceiveRequest(h)
    <3>1. HandlerTypes'
      BY <2>1, <2>2 DEF HandlerTypes
    <3> QED
      BY <2>2, <3>1, HandlerFrame DEF IInv, TypeOK
  <2>3. CASE Load(h)
    <3>1. CASE Answer(h)
      <4>1. HandlerTypes'
        BY <3>1, AnswerTypes
      <4> QED
        BY <2>3, <4>1, HandlerFrame DEF IInv, TypeOK
    <3>2. CASE ~Answer(h)
      <4>1. progressMp[hreq[h].build] \in {"none", "init", "run"}
        BY <2>1, <2>3 DEF HandlerTypes, Request, IInv, TypeOK
      <4>2. HandlerTypes'
        BY <2>1, <2>3, <3>2, <4>1 DEF HandlerTypes
      <4> QED
        BY <2>3, <4>2, HandlerFrame DEF IInv, TypeOK
    <3> QED
      BY <3>1, <3>2
  <2>4. CASE Marshal(h)
    <3>1. HandlerTypes'
      BY <2>4, AnswerTypes DEF Answer
    <3> QED
      BY <2>4, <3>1, HandlerFrame DEF IInv, TypeOK
  <2>5. CASE MarshalRace(h)
    <3>1. HandlerTypes'
      BY <2>1, <2>5 DEF HandlerTypes
    <3> QED
      BY <2>5, <3>1, HandlerFrame DEF IInv, TypeOK
  <2> QED
    BY <2>2, <2>3, <2>4, <2>5
<1>2. OthersServe(h) /\ Onward
  BY DEF IInv, TypeOK, OthersServe, Onward, Begun
<1>3. ASSUME NEW b \in Build PROVE BuildInv(b)'
  BY BuildFrame DEF IInv, SameBuild, SameCtx
<1>4. Served(h)'
  <2>1. CASE ReceiveRequest(h)
    BY <2>1 DEF IInv, TypeOK, Served
  <2>2. CASE Load(h)
    <3>1. hreq[h].build \in Build
      BY <2>2 DEF IInv, TypeOK, Request
    <3>2. Listed(hreq[h].build)
      BY <3>1 DEF IInv, BuildInv
    <3> QED
      BY <2>2, <3>1, <3>2 DEF IInv, TypeOK, Served, Listed, Begun
  <2>3. CASE Marshal(h) \/ MarshalRace(h)
    BY <2>3 DEF IInv, TypeOK, Served, Begun
  <2> QED
    BY <2>1, <2>2, <2>3
<1> QED
  BY <1>1, <1>2, <1>3, <1>4, OneHandler

LEMMA CallCancelStep ==
  ASSUME IInv, NEW h \in Handler, CallCancel(h)
  PROVE  IInv'
<1> USE DEF CallCancel, Answer, Proceed, serveFrame
<1>1. EndBuilds("canceled", {hreq[h].build})
  OBVIOUS
<1>2. /\ UNCHANGED <<progressMp, crashed, buildVars, work, data>>
      /\ rootDone' \in BOOLEAN
  BY DEF dirVars, buildVars, IInv, TypeOK
<1>3. /\ \A b \in Build : BuildInv(b)'
      /\ Onward
      /\ jobCtx' \in [Build -> {"live", "canceled", "expired", "released"}]
      /\ flowCtx' \in [Build -> {"live", "canceled", "expired"}]
  BY <1>1, <1>2, EndBuildsKeeps
<1>4. hreq[h] \in Request /\ hreq[h].build \in Build
  BY DEF IInv, TypeOK, Request
<1>5. TypeOK'
  <2>1. HandlerTypes'
    BY AnswerTypes, ProceedTypes
  <2> QED
    BY <1>2, <1>3, <2>1 DEF IInv, TypeOK, HandlerTypes, buildVars
<1>6. OthersServe(h)
  BY DEF IInv, TypeOK, OthersServe
<1>7. jobCtx'[hreq[h].build] # "live" /\ pc' = pc
  BY <1>1, <1>2, <1>4 DEF EndBuilds, EndCtx, buildVars
<1>8. Served(h)'
  BY <1>4, <1>7 DEF IInv, TypeOK, Served, Begun
<1> QED
  BY <1>3, <1>5, <1>6, <1>8, OneHandler

LEMMA CancelPanicsStep ==
  ASSUME IInv, NEW h \in Handler, CancelPanics(h)
  PROVE  IInv'
<1> USE DEF CancelPanics, Answer, serveFrame, ctxVars, dirVars, handlerVars
<1>1. hreq[h].build \in Web
  BY DEF IInv, Served
<1>2. TypeOK'
  <2>1. HandlerTypes'
    <3>1. CASE Answer(h)
      BY <3>1, AnswerTypes
    <3>2. CASE UNCHANGED <<hpc, hreq, hent>>
      BY <3>2 DEF IInv, TypeOK, HandlerTypes
    <3> QED
      BY <3>1, <3>2 DEF Answer
  <2>2. crashed' \in BOOLEAN /\ progressMp' \in [Build -> {"none", "init", "run"}]
    BY DEF IInv, TypeOK
  <2> QED
    BY <2>1, <2>2, HandlerFrame
<1>3. OthersServe(h) /\ Onward
  BY DEF IInv, TypeOK, OthersServe, Onward, Begun
<1>4. Served(h)'
  BY DEF IInv, TypeOK, Served, Begun
<1>5. ASSUME NEW b \in Build PROVE BuildInv(b)'
  <2>1. Shape(b)'
    BY ShapeFrame DEF IInv, BuildInv, SameBuild
  <2>2. Context(b)' /\ Swept(b)'
    BY DEF IInv, BuildInv, Context, Swept, LastSt, InFlow
  <2>3. Listed(b)'
    BY <1>1 DEF IInv, TypeOK, BuildInv, Listed, Begun, Active
  <2> QED
    BY <2>1, <2>2, <2>3 DEF BuildInv
<1> QED
  BY <1>2, <1>3, <1>4, <1>5, OneHandler

LEMMA DeleteStep ==
  ASSUME IInv, NEW h \in Handler, RemoveDir(h) \/ Forget(h)
  PROVE  IInv'
<1> USE DEF RemoveDir, Forget, Proceed, Answer, serveFrame, ctxVars, dirVars
<1>1. TypeOK'
  <2>1. HandlerTypes'
    BY AnswerTypes, ProceedTypes
  <2>2. /\ progressMp' \in [Build -> {"none", "init", "run"}]
        /\ work' \in [Build -> BOOLEAN] /\ data' \in [Build -> BOOLEAN]
    BY DEF IInv, TypeOK
  <2> QED
    BY <2>1, <2>2 DEF IInv, TypeOK, HandlerTypes
<1>2. OthersServe(h) /\ Onward
  BY DEF IInv, TypeOK, OthersServe, Onward, Begun
<1>3. Served(h)'
  BY DEF IInv, TypeOK, Served, Begun
<1>4. jobCtx[hreq[h].build] # "live"
  BY DEF IInv, Served
<1>5. ASSUME NEW b \in Build PROVE BuildInv(b)'
  <2>1. Shape(b)'
    BY ShapeFrame DEF IInv, BuildInv, SameBuild
  <2>2. pc' = pc /\ (work'[b] => work[b])
    <3>1. work \in [Build -> BOOLEAN]
      BY DEF IInv, TypeOK
    <3> QED
      BY <3>1
  <2>3. Context(b)'
    BY DEF IInv, BuildInv, Context, LastSt, InFlow
  <2>4. Swept(b)'
    BY <2>2 DEF IInv, BuildInv, Swept
  <2>5. Listed(b)'
    BY <1>4 DEF IInv, TypeOK, BuildInv, Listed, Begun, Active
  <2> QED
    BY <2>1, <2>3, <2>4, <2>5 DEF BuildInv
<1> QED
  BY <1>1, <1>2, <1>3, <1>5, OneHandler

-----------------------------------------------------------------------------
(* The theorems. *)

LEMMA InitEstablishes == Init => IInv
<1> SUFFICES ASSUME Init PROVE IInv
  OBVIOUS
<1> USE DEF Init
<1>1. TypeOK
  <2>1. <<>> \in Seq(Kind) /\ <<>> \in Seq(FlowStatus)
    OBVIOUS
  <2>2. flows \in [Build -> Seq(Kind)] /\ flowSt \in [Build -> Seq(FlowStatus)]
    BY <2>1
  <2>3. /\ pc \in [Build -> RunPc] /\ status \in [Build -> Status]
        /\ env \in [Build -> EnvStatus]
    BY DEF RunPc, Status, EnvStatus
  <2>4. HandlerTypes
    BY DEF HandlerTypes
  <2> QED
    BY <2>2, <2>3, <2>4 DEF TypeOK, HandlerTypes
<1>2. ASSUME NEW b \in Build PROVE BuildInv(b)
  <2>1. Shape(b)
    BY DEF Shape, Early, Begun, Over, InFlow
  <2>2. Context(b) /\ Listed(b) /\ Swept(b)
    BY DEF Context, Listed, Swept, InFlow, Begun, Active
  <2> QED
    BY <2>1, <2>2 DEF BuildInv
<1>3. ASSUME NEW h \in Handler PROVE Served(h)
  BY DEF Served
<1> QED
  BY <1>1, <1>2, <1>3 DEF IInv

LEMMA NextPreserves == IInv /\ [Next]_vars => IInv'
<1> SUFFICES ASSUME IInv, [Next]_vars PROVE IInv'
  OBVIOUS
<1>1. CASE UNCHANGED vars
  <2> USE <1>1 DEF vars, buildVars, ctxVars, dirVars, handlerVars
  <2>1. TypeOK'
    BY DEF IInv, TypeOK
  <2>2. \A b \in Build : BuildInv(b)'
    BY BuildFrame DEF IInv, SameBuild, SameCtx
  <2>3. \A h \in Handler : Served(h)'
    BY ServedFrame DEF IInv, Begun
  <2> QED
    BY <2>1, <2>2, <2>3 DEF IInv
<1>2. CASE CancelRoot
  BY <1>2, ContextStep
<1>3. ASSUME NEW b \in Build, BuildStep(b) PROVE IInv'
  <2>1. CASE RunStep(b)
    BY <2>1, PrepareStep, EnterRunningStep, StartFlowStep, VerdictStep, CleanupStep
       DEF RunStep
  <2> QED
    BY <1>3, <2>1, ContextStep, FlowTimeoutStep, SubmitStep, InitPipelineStep, FinishFlowStep,
       LuaSetsStatusStep, LuaEndsProcessStep
       DEF BuildStep
<1>4. ASSUME NEW h \in Handler, Serve(h) PROVE IInv'
  BY <1>4, QuietHandlerStep, CallCancelStep, CancelPanicsStep, DeleteStep DEF Serve
<1> QED
  BY <1>1, <1>2, <1>3, <1>4 DEF Next

\* The inductive invariant holds in every reachable state.
THEOREM Inductive == Spec => []IInv
<1>1. Init => IInv
  BY InitEstablishes
<1>2. IInv /\ [Next]_vars => IInv'
  BY NextPreserves
<1> QED
  BY <1>1, <1>2, PTL DEF Spec

\* Every variable of the processor and its handlers keeps its type.
THEOREM TypeCorrect == Spec => []TypeOK
<1>1. IInv => TypeOK
  BY DEF IInv
<1> QED
  BY <1>1, Inductive, PTL

\* Flows run one after the other and a failed one is the last
\* (processor/processor.go, Run).
THEOREM FlowsRunInOrder == Spec => []FlowsInOrder
<1>1. IInv => FlowsInOrder
  <2> SUFFICES ASSUME IInv, NEW b \in Build
               PROVE  /\ Len(flowSt[b]) <= Len(flows[b])
                      /\ \A i \in DOMAIN flowSt[b] :
                           /\ i < Len(flowSt[b]) => flowSt[b][i] = "Succeed"
                           /\ flowSt[b][i] = "Running" => InFlow(b)
                      /\ pc[b] = "next" =>
                           /\ Len(flowSt[b]) < Len(flows[b])
                           /\ \A i \in DOMAIN flowSt[b] : flowSt[b][i] = "Succeed"
    BY DEF FlowsInOrder
  <2> DEFINE n == Len(flowSt[b])
  <2>1. n \in Nat /\ DOMAIN flowSt[b] = 1 .. n /\ (flowSt[b] = <<>> => n = 0)
    BY DEF IInv, TypeOK
  <2>2. Shape(b) /\ pc[b] \in RunPc
    BY DEF IInv, BuildInv, TypeOK
  <2>3. CASE InFlow(b)
    BY <2>1, <2>2, <2>3 DEF Shape, AllSucceed, InFlow
  <2>4. CASE pc[b] = "next"
    BY <2>1, <2>2, <2>4 DEF Shape, AllSucceed
  <2>5. CASE pc[b] # "next" /\ ~InFlow(b) /\ Concluded(b)
    BY <2>1, <2>2, <2>5 DEF Shape, Concluded, AllSucceed, LastSt, Terminal
  <2>6. CASE pc[b] # "next" /\ flowSt[b] = <<>>
    BY <2>1, <2>2, <2>6 DEF Shape
  <2> QED
    BY <2>2, <2>3, <2>4, <2>5, <2>6 DEF Shape, Early, Over, InFlow, RunPc
<1> QED
  BY <1>1, Inductive, PTL

\* The build's final status is what its flows came to.
THEOREM VerdictIsRight == Spec => []VerdictMatches
<1>1. IInv => VerdictMatches
  <2> SUFFICES ASSUME IInv, NEW b \in Build
               PROVE  /\ status[b] = "Succeed" =>
                           /\ \A i \in DOMAIN flowSt[b] : flowSt[b][i] = "Succeed"
                           /\ Len(flowSt[b]) = Len(flows[b]) \/ env[b] = "success"
                           /\ env[b] # "failed"
                      /\ status[b] \in {"Failed", "Canceled"} =>
                           flowSt[b] # <<>> /\ flowSt[b][Len(flowSt[b])] = status[b]
                      /\ pc[b] = "returned" /\ flowSt[b] # <<>> => status[b] \in Terminal
    BY DEF VerdictMatches
  <2> DEFINE n == Len(flowSt[b])
  <2>1. n \in Nat /\ DOMAIN flowSt[b] = 1 .. n
    BY DEF IInv, TypeOK
  <2>2. Shape(b) /\ pc[b] \in RunPc
    BY DEF IInv, BuildInv, TypeOK
  <2>3. CASE ~Over(b)
    BY <2>2, <2>3 DEF Shape, Early, Begun, Over, InFlow, RunPc
  <2>4. CASE Over(b) /\ flowSt[b] = <<>> /\ status[b] \in {"Started", "Running"}
    BY <2>4
  <2>5. CASE Over(b) /\ Concluded(b) /\ status[b] = LastSt(b)
    BY <2>1, <2>5 DEF Concluded, AllSucceed, LastSt, Terminal
  <2> QED
    BY <2>2, <2>3, <2>4, <2>5 DEF Shape
<1> QED
  BY <1>1, Inductive, PTL

\* Canceled is never said of a build that a timeout ended.
THEOREM CanceledWasRequested == Spec => []CanceledOnlyByRequest
<1>1. IInv => CanceledOnlyByRequest
  <2> SUFFICES ASSUME IInv, NEW b \in Build, status[b] = "Canceled"
               PROVE  jobCtx[b] = "canceled"
    BY DEF CanceledOnlyByRequest
  <2>1. Shape(b) /\ Context(b) /\ pc[b] \in RunPc
    BY DEF IInv, BuildInv, TypeOK
  <2>2. flowSt[b] # <<>> /\ LastSt(b) = "Canceled"
    BY <2>1 DEF Shape, Early, Begun, Over, InFlow, Concluded, RunPc
  <2> QED
    BY <2>1, <2>2 DEF Context
<1> QED
  BY <1>1, Inductive, PTL

\* Once Run has returned its workspace is gone.
THEOREM WorkspaceIsReclaimed == Spec => []WorkspaceReclaimed
<1>1. IInv => WorkspaceReclaimed
  BY DEF IInv, BuildInv, Swept, WorkspaceReclaimed
<1> QED
  BY <1>1, Inductive, PTL

\* A gRPC build that is gone from the registry has been canceled.
THEOREM UnlistedWasStopped == Spec => []UnlistedIsStopped
<1>1. IInv => UnlistedIsStopped
  BY DEF IInv, BuildInv, Listed, UnlistedIsStopped
<1> QED
  BY <1>1, Inductive, PTL

\* What ends the process in the middle of its work: a Lua script, a gRPC request
\* that meets a nil CancelFunc, a read of what a Run writes.
THEOREM CrashHasCause == Spec => []CrashExplained
<1>1. Init => CrashExplained
  BY DEF Init, CrashExplained
<1>2. IInv /\ CrashExplained /\ [Next]_vars => CrashExplained'
  <2> SUFFICES ASSUME IInv, CrashExplained, [Next]_vars, crashed'
               PROVE  CrashExplained'
    BY DEF CrashExplained
  <2> USE DEF SharedWrites, RunWrites, RunnerRenders, LuaRunning, InFlow, CurrentKind
  <2>1. CASE UNCHANGED vars
    BY <2>1 DEF vars, buildVars, handlerVars, CrashExplained
  <2>2. ASSUME NEW b \in Build, LuaEndsProcess(b) PROVE CrashExplained'
    BY <2>2 DEF LuaEndsProcess, buildVars, CrashExplained
  <2>3. ASSUME ~crashed, NEW h \in Handler, CancelPanics(h) PROVE CrashExplained'
    <3>1. /\ hpc[h] = "cancel" /\ hent[h] = "init" /\ hreq[h].build \in Web
          /\ hreq[h] \in Request
      BY <2>3 DEF CancelPanics, IInv, TypeOK, Served
    <3>2. hreq[h].via = "grpc" /\ UNCHANGED handlerVars
      BY <2>3, <3>1 DEF CancelPanics, Request, Via
    <3> QED
      BY <3>1, <3>2 DEF CrashExplained, handlerVars
  <2>4. ASSUME NEW h \in Handler, MarshalRace(h) PROVE CrashExplained'
    BY <2>4 DEF MarshalRace, serveFrame, handlerVars, CrashExplained
  <2>5. ASSUME NEW b \in Build, BuildStep(b), ~LuaEndsProcess(b) PROVE crashed' = crashed
    <3>1. CASE RunStep(b)
      BY <2>5, <3>1 DEF RunStep, BeginRun, MakeWorkDir, MakeDataDir, CreateLog, EnterRunning,
         StartFlow, Verdict, Cleanup, runFrame
    <3> QED
      BY <2>5, <3>1 DEF BuildStep, Submit, InitPipeline, FinishFlow, LuaSetsStatus,
         PipelineTimeout, FlowTimeout, runFrame
  <2>6. ASSUME NEW h \in Handler, Serve(h), ~CancelPanics(h), ~MarshalRace(h)
        PROVE  crashed' = crashed
    BY <2>6 DEF Serve, ReceiveRequest, Load, CallCancel, RemoveDir, Forget, Marshal
  <2>7. CASE Next
    <3>1. ~crashed
      BY <2>7 DEF Next
    <3>2. CancelRoot => crashed' = crashed
      BY DEF CancelRoot
    <3> QED
      BY <2>2, <2>3, <2>4, <2>5, <2>6, <2>7, <3>1, <3>2 DEF Next
  <2> QED
    BY <2>1, <2>7
<1> QED
  BY <1>1, <1>2, Inductive, PTL DEF Spec

-----------------------------------------------------------------------------
(* The action properties. *)

\* A step of one build leaves what clients and Run know of the others.
LEMMA OtherBuilds ==
  ASSUME IInv, NEW c \in Build, BuildStep(c), NEW b \in Build, b # c
  PROVE  pc'[b] = pc[b] /\ status'[b] = status[b] /\ progressMp'[b] = progressMp[b]
<1> USE DEF IInv, TypeOK, Goto, SetStatus, Store, runFrame, buildVars
<1>1. CASE RunStep(c)
  <2>1. CASE BeginRun(c) \/ EnterRunning(c) \/ StartFlow(c) \/ Verdict(c)
    BY <2>1 DEF BeginRun, EnterRunning, StartFlow, Verdict
  <2>2. CASE MakeWorkDir(c) \/ MakeDataDir(c) \/ CreateLog(c) \/ Cleanup(c)
    BY <2>2 DEF MakeWorkDir, MakeDataDir, CreateLog, Cleanup
  <2> QED
    BY <1>1, <2>1, <2>2 DEF RunStep
<1>2. CASE FinishFlow(c)
  BY <1>2 DEF FinishFlow
<1>3. CASE Submit(c) \/ InitPipeline(c) \/ LuaSetsStatus(c) \/ LuaEndsProcess(c)
             \/ PipelineTimeout(c) \/ FlowTimeout(c)
  BY <1>3 DEF Submit, InitPipeline, LuaSetsStatus, LuaEndsProcess, PipelineTimeout, FlowTimeout
<1> QED
  BY <1>1, <1>2, <1>3 DEF BuildStep

\* A handler and the root context leave Run and its status alone; a handler takes
\* an entry out at most.
LEMMA OutsideRun ==
  ASSUME IInv, UNCHANGED vars \/ CancelRoot \/ (\E h \in Handler : Serve(h)), NEW b \in Build
  PROVE  /\ pc'[b] = pc[b] /\ status'[b] = status[b]
         /\ progressMp'[b] \in {progressMp[b], "none"}
<1> USE DEF IInv, TypeOK, serveFrame, buildVars, vars
<1>1. CASE UNCHANGED vars \/ CancelRoot
  BY <1>1 DEF CancelRoot
<1>2. ASSUME NEW h \in Handler, Serve(h)
      PROVE  /\ pc'[b] = pc[b] /\ status'[b] = status[b]
             /\ progressMp'[b] \in {progressMp[b], "none"}
  <2>1. pc' = pc /\ status' = status
    BY <1>2 DEF Serve, ReceiveRequest, Load, CallCancel, CancelPanics, RemoveDir, Forget,
       Marshal, MarshalRace
  <2>2. \/ progressMp' = progressMp
        \/ progressMp' = [progressMp EXCEPT ![hreq[h].build] = "none"]
    BY <1>2 DEF Serve, ReceiveRequest, Load, CallCancel, CancelPanics, RemoveDir, Forget,
       Marshal, MarshalRace
  <2> QED
    BY <2>1, <2>2
<1> QED
  BY <1>1, <1>2

\* After its context has ended a build goes on past an SVN checkout only
\* (processor/scm/scm.go:48).
THEOREM EndedBuildStops == Spec => EndedBuildWindsUp
<1> DEFINE A == \A b \in Build :
                  pc[b] = "lateflow" /\ pc'[b] = "next" => CurrentKind(b) = "Svn"
<1>1. IInv /\ [Next]_vars => A
  <2> SUFFICES ASSUME IInv, [Next]_vars, NEW b \in Build, pc[b] = "lateflow", pc'[b] = "next"
               PROVE  CurrentKind(b) = "Svn"
    OBVIOUS
  <2>1. FinishFlow(b)
    <3>1. PICK c \in Build : BuildStep(c)
      BY OutsideRun DEF Next
    <3>2. c = b
      BY <3>1, OtherBuilds
    <3>3. ~RunStep(b)
      BY DEF RunStep, BeginRun, MakeWorkDir, MakeDataDir, CreateLog, EnterRunning, StartFlow,
         Verdict, Cleanup
    <3>4. ~(Submit(b) \/ InitPipeline(b) \/ LuaSetsStatus(b) \/ LuaEndsProcess(b)
            \/ PipelineTimeout(b) \/ FlowTimeout(b))
      BY DEF Submit, InitPipeline, LuaSetsStatus, LuaEndsProcess, PipelineTimeout, FlowTimeout, buildVars,
         runFrame
    <3> QED
      BY <3>1, <3>2, <3>3, <3>4 DEF BuildStep
  <2>2. PICK r \in RunFlowResults(CurrentKind(b), pc[b] = "lateflow", flowCtx[b]) :
          pc' = [pc EXCEPT ![b] =
                   IF EndsLoop(FlowVerdict(r, env[b]), env[b]) \/ Len(flowSt[b]) = Len(flows[b])
                   THEN "verdict" ELSE "next"]
    BY <2>1 DEF FinishFlow, Goto
  <2>3. FlowVerdict(r, env[b]) = "Succeed"
    BY <2>2 DEF IInv, TypeOK, EndsLoop
  <2>4. CurrentKind(b) \in Kind
    BY DEF IInv, TypeOK, BuildInv, Shape, InFlow, CurrentKind
  <2>5. r \in {"ok", "error", "canceled"} => r = "ok"
    BY <2>3 DEF FlowVerdict
  <2>6. CurrentKind(b) # "Svn" => r \in {"error", "canceled"}
    <3>1. ContextAware(TRUE, flowCtx[b]) \subseteq {"error", "canceled"}
      BY DEF ContextAware
    <3> QED
      BY <2>2, <2>4, <3>1 DEF RunFlowResults, ScmResults, ShellResults, DockerBuildResults,
         LuaResults, Kind
  <2> QED
    BY <2>5, <2>6
<1>2. EndedBuildWindsUp <=> [][A]_vars
  BY DEF EndedBuildWindsUp
<1> QED
  BY <1>1, <1>2, Inductive, PTL DEF Spec

\* What a step can make of the status of a build that has begun.
LEMMA StatusGoesOn ==
  ASSUME IInv, [Next]_vars, NEW b \in Build, Begun(b)
  PROVE  \/ status'[b] = status[b]
         \/ status[b] \in {"Started", "Running"} /\ status'[b] = "Running"
         \/ status[b] = "Running" /\ status'[b] \in Terminal
<1> USE DEF Begun
<1>1. CASE UNCHANGED vars \/ CancelRoot \/ (\E h \in Handler : Serve(h))
  BY <1>1, OutsideRun
<1>2. ASSUME NEW c \in Build, BuildStep(c), c # b PROVE status'[b] = status[b]
  BY <1>2, OtherBuilds
<1>3. CASE EnterRunning(b) \/ StartFlow(b)
  BY <1>3 DEF EnterRunning, StartFlow, SetStatus, IInv, TypeOK, BuildInv, Shape, Early, Begun
<1>4. CASE Verdict(b)
  <2>1. Concluded(b) /\ status[b] = "Running"
    BY <1>4 DEF Verdict, IInv, BuildInv, Shape
  <2>2. \/ status'[b] = "Succeed"
        \/ \E i \in DOMAIN flowSt[b] : status'[b] = flowSt[b][i] /\ Bad(flowSt[b][i])
    BY <1>4 DEF Verdict, SetStatus, IInv, TypeOK
  <2> QED
    BY <2>1, <2>2 DEF Bad, Terminal
<1>5. CASE BuildStep(b) /\ ~EnterRunning(b) /\ ~StartFlow(b) /\ ~Verdict(b)
  <2>1. UNCHANGED status
    BY <1>5 DEF BuildStep, RunStep, BeginRun, MakeWorkDir, MakeDataDir, CreateLog,
       Cleanup, FinishFlow, Submit, InitPipeline, LuaSetsStatus, LuaEndsProcess,
       PipelineTimeout, FlowTimeout,
       buildVars, runFrame
  <2> QED
    BY <2>1
<1> QED
  BY <1>1, <1>2, <1>3, <1>4, <1>5 DEF Next

\* An entry of InitPipeline does not come back once it is behind the build.
LEMMA InitIsOver ==
  ASSUME IInv, [Next]_vars, NEW b \in Build, b \notin initDue, progressMp'[b] = "init"
  PROVE  progressMp[b] = "init"
<1>1. CASE UNCHANGED vars \/ CancelRoot \/ (\E h \in Handler : Serve(h))
  BY <1>1, OutsideRun
<1>2. ASSUME NEW c \in Build, BuildStep(c), c # b PROVE progressMp'[b] = progressMp[b]
  BY <1>2, OtherBuilds
<1>3. CASE BuildStep(b)
  <2>1. ~InitPipeline(b)
    BY DEF InitPipeline
  <2>2. UNCHANGED progressMp \/ Store(b)
    BY <1>3, <2>1 DEF BuildStep, RunStep, BeginRun, MakeWorkDir, MakeDataDir, CreateLog,
       EnterRunning, StartFlow, Verdict, Cleanup, FinishFlow, Submit, LuaSetsStatus,
       LuaEndsProcess, PipelineTimeout, FlowTimeout
  <2> QED
    BY <2>2 DEF Store, IInv, TypeOK
<1> QED
  BY <1>1, <1>2, <1>3 DEF Next

\* What clients read of a build moves on only (processor/processor.go,
\* updatePipelineRunEntity and GetPipelineProgress).
THEOREM ViewMovesOn == Spec => ViewMonotone
<1> DEFINE P(b) == b \notin initDue /\ View(b) # "none" /\ View(b)' # "none" =>
                     /\ Rank(View(b)) <= Rank(View(b)')
                     /\ View(b) \in Terminal => View(b)' = View(b)
           A == \A b \in Build : P(b)
<1>1. IInv /\ [Next]_vars => A
  <2> SUFFICES ASSUME IInv, [Next]_vars, NEW b \in Build, b \notin initDue,
                      View(b) # "none", View(b)' # "none"
               PROVE  /\ Rank(View(b)) <= Rank(View(b)')
                      /\ View(b) \in Terminal => View(b)' = View(b)
    OBVIOUS
  <2>1. progressMp[b] \in {"init", "run"} /\ progressMp'[b] \in {"init", "run"}
    <3>1. IInv'
      BY NextPreserves
    <3> QED
      BY <3>1 DEF IInv, TypeOK, View
  <2>2. CASE progressMp[b] = "init"
    <3>1. View(b) = "Created" /\ Rank(View(b)) = 0 /\ View(b) \notin Terminal
      BY <2>2 DEF View, Rank, Terminal
    <3>2. Rank(View(b)') \in 0 .. 3
      BY DEF Rank
    <3> QED
      BY <3>1, <3>2
  <2>3. CASE progressMp[b] = "run"
    <3>1. progressMp'[b] = "run"
      BY <2>1, <2>3, InitIsOver
    <3>2. View(b) = status[b] /\ View(b)' = status'[b]
      BY <2>3, <3>1 DEF View
    <3>3. Begun(b)
      BY <2>3 DEF IInv, BuildInv, Listed
    <3>4. \/ status'[b] = status[b]
          \/ status[b] \in {"Started", "Running"} /\ status'[b] = "Running"
          \/ status[b] = "Running" /\ status'[b] \in Terminal
      BY <3>3, StatusGoesOn
    <3>5. \A st : Rank(st) \in 0 .. 3 /\ (st \in Terminal => Rank(st) = 3)
      BY DEF Rank, Terminal
    <3>6. Rank("Started") = 1 /\ Rank("Running") = 2
      BY DEF Rank
    <3>7. Rank(status[b]) <= Rank(status'[b])
      BY <3>4, <3>5, <3>6
    <3>8. status[b] \in Terminal => status'[b] = status[b]
      BY <3>4 DEF Terminal
    <3> QED
      BY <3>2, <3>7, <3>8
  <2> QED
    BY <2>1, <2>2, <2>3
<1>2. ViewMonotone <=> [][A]_vars
  BY DEF ViewMonotone
<1> QED
  BY <1>1, <1>2, Inductive, PTL DEF Spec

-----------------------------------------------------------------------------
(* The implementation of BuildLife: every step is one of its steps, or none. *)

LifeStep == [BL!BLNext]_BL!blVars

LifeVars == <<pc, flows, flowSt, env, jobCtx, status, crashed>>

\* A step that leaves what BuildLife is about alone is none of its steps.
LEMMA Unseen ==
  ASSUME UNCHANGED <<Stages, FlowCounts, flowSt, env, Stops, Verdicts, crashed>>
  PROVE  LifeStep
BY DEF LifeStep, BL!blVars

LEMMA Untouched ==
  ASSUME UNCHANGED LifeVars
  PROVE  UNCHANGED <<Stages, FlowCounts, flowSt, env, Stops, Verdicts, crashed>>
BY DEF LifeVars, Stages, Stage, FlowCounts, Stops, Verdicts

\* What a step of one build's own does to the abstract variables.
LEMMA OwnLife ==
  ASSUME IInv, IInv', NEW b \in Build, Aside(b)
  PROVE  /\ Stages' = [Stages EXCEPT ![b] = Stages'[b]]
         /\ FlowCounts' = [FlowCounts EXCEPT ![b] = FlowCounts'[b]]
         /\ flowSt' = [flowSt EXCEPT ![b] = flowSt'[b]]
         /\ env' = [env EXCEPT ![b] = env'[b]]
         /\ Stops' = [Stops EXCEPT ![b] = Stops'[b]]
         /\ Verdicts' = [Verdicts EXCEPT ![b] = Verdicts'[b]]
<1>1. \A c \in Build \ {b} : SameBuild(c) /\ SameCtx(c)
  BY DEF Aside
<1>2. Stages' = [Stages EXCEPT ![b] = Stages'[b]]
  BY <1>1 DEF Stages, Stage, SameBuild
<1>3. FlowCounts' = [FlowCounts EXCEPT ![b] = FlowCounts'[b]]
  BY <1>1 DEF FlowCounts, SameBuild
<1>4. flowSt' = [flowSt EXCEPT ![b] = flowSt'[b]] /\ env' = [env EXCEPT ![b] = env'[b]]
  BY <1>1 DEF IInv, TypeOK, SameBuild
<1>5. Stops' = [Stops EXCEPT ![b] = Stops'[b]]
  BY <1>1 DEF Stops, SameCtx
<1>6. Verdicts' = [Verdicts EXCEPT ![b] = Verdicts'[b]]
  BY <1>1 DEF Verdicts, SameBuild
<1> QED
  BY <1>2, <1>3, <1>4, <1>5, <1>6

\* What the abstract variables are for one build.
LEMMA LifeAt ==
  ASSUME NEW b \in Build
  PROVE  /\ Stages[b] = Stage(b) /\ Stages'[b] = Stage(b)'
         /\ FlowCounts[b] = Len(flows[b]) /\ FlowCounts'[b] = Len(flows'[b])
         /\ Stops[b] = IF jobCtx[b] \in {"canceled", "expired"} THEN jobCtx[b] ELSE "no"
         /\ Stops'[b] = IF jobCtx'[b] \in {"canceled", "expired"} THEN jobCtx'[b] ELSE "no"
         /\ Verdicts[b] = IF status[b] \in Terminal THEN status[b] ELSE "none"
         /\ Verdicts'[b] = IF status'[b] \in Terminal THEN status'[b] ELSE "none"
BY DEF Stages, FlowCounts, Stops, Verdicts

LEMMA SubmitLife ==
  ASSUME IInv, IInv', ~crashed, NEW b \in Build, Submit(b)
  PROVE  LifeStep
<1> USE DEF Submit, ctxVars
<1>1. Aside(b)
  BY DEF IInv, TypeOK, Aside, SameBuild, SameCtx, dirVars
<1>2. Stages[b] = "new" /\ Stages'[b] = "queued"
  <2>1. pc[b] = "new" /\ pc'[b] = "queued"
    BY DEF IInv, TypeOK
  <2> QED
    BY <2>1, LifeAt DEF Stage
<1>3. Stops' = Stops /\ Verdicts' = Verdicts
  BY DEF Stops, Verdicts
<1>4. FlowCounts' \in [Build -> Nat]
  BY DEF FlowCounts, IInv, TypeOK
<1>5. \A c \in Build \ {b} : FlowCounts'[c] = FlowCounts[c]
  BY <1>1 DEF FlowCounts, Aside, SameBuild
<1>6. \E w \in BL!Word : env' = [env EXCEPT ![b] = w]
  BY DEF BL!Word, EnvStatus
<1>7. Stages' = [Stages EXCEPT ![b] = "queued"]
  BY <1>1, <1>2, OwnLife
<1>8. BL!Queue(b)
  BY <1>2, <1>3, <1>4, <1>5, <1>6, <1>7 DEF BL!Queue, BL!Advance
<1> QED
  BY <1>8 DEF LifeStep, BL!BLNext, BL!BuildNext

LEMMA BeginLife ==
  ASSUME IInv, IInv', ~crashed, NEW b \in Build, BeginRun(b)
  PROVE  LifeStep
<1> USE DEF BeginRun, Goto, SetStatus, Store, runFrame
<1>1. Aside(b)
  BY DEF IInv, TypeOK, Aside, SameBuild, SameCtx, dirVars
<1>2. Stages[b] = "queued" /\ Stages'[b] = "running"
  BY LifeAt DEF Stage, IInv, TypeOK
<1>3. Verdicts' = Verdicts
  <2>1. status[b] = "none" /\ status'[b] = "Started"
    BY DEF IInv, TypeOK, BuildInv, Shape, Early, Begun
  <2>2. Verdicts'[b] = Verdicts[b]
    BY <2>1, LifeAt DEF Terminal
  <2> QED
    BY <2>2, <1>1, OwnLife DEF Verdicts
<1>4. FlowCounts' = FlowCounts
  BY DEF FlowCounts
<1>5. Stops'[b] \in {"no", "canceled"}
  BY LifeAt DEF IInv, TypeOK
<1>6. Stages' = [Stages EXCEPT ![b] = "running"] /\ Stops' = [Stops EXCEPT ![b] = Stops'[b]]
  BY <1>1, <1>2, OwnLife
<1>7. BL!Begin(b)
  BY <1>2, <1>3, <1>4, <1>5, <1>6 DEF BL!Begin, BL!Advance
<1> QED
  BY <1>7 DEF LifeStep, BL!BLNext, BL!BuildNext

\* Registering a build, its directories, the flow's own timeout and Run's way into
\* its flows are hidden.
LEMMA HiddenLife ==
  ASSUME IInv, IInv', NEW b \in Build,
         \/ InitPipeline(b) \/ MakeWorkDir(b) \/ MakeDataDir(b) \/ CreateLog(b)
         \/ EnterRunning(b) \/ FlowTimeout(b)
  PROVE  LifeStep
<1> USE DEF InitPipeline, MakeWorkDir, MakeDataDir, CreateLog, EnterRunning, FlowTimeout,
            Goto, SetStatus, runFrame, ctxVars, buildVars
<1>1. UNCHANGED <<flows, flowSt, env, jobCtx, crashed>>
  OBVIOUS
<1>2. Stages' = Stages
  <2>1. pc' = pc \/ \E l \in RunPc \ {"new", "queued", "returned"} :
                      /\ pc' = [pc EXCEPT ![b] = l]
                      /\ pc[b] \notin {"new", "queued", "returned"}
    BY DEF RunPc
  <2> QED
    BY <2>1 DEF Stages, Stage, IInv, TypeOK
<1>3. Verdicts' = Verdicts
  <2>1. CASE EnterRunning(b)
    <3>1. status[b] = "Started" /\ status' = [status EXCEPT ![b] = "Running"]
      BY <2>1 DEF IInv, BuildInv, Shape, Early, Begun
    <3> QED
      BY <3>1 DEF Verdicts, Terminal, IInv, TypeOK
  <2>2. CASE ~EnterRunning(b)
    BY <2>2 DEF Verdicts
  <2> QED
    BY <2>1, <2>2
<1>4. FlowCounts' = FlowCounts /\ Stops' = Stops
  BY <1>1 DEF FlowCounts, Stops
<1> QED
  BY <1>1, <1>2, <1>3, <1>4, Unseen

LEMMA StartFlowLife ==
  ASSUME IInv, IInv', ~crashed, NEW b \in Build, StartFlow(b)
  PROVE  LifeStep
<1> USE DEF StartFlow, Goto, SetStatus, runFrame
<1>1. Aside(b)
  BY DEF IInv, TypeOK, Aside, SameBuild, SameCtx, dirVars, Store
<1>2. Shape(b) /\ pc[b] = "next" /\ pc'[b] \in {"flow", "lateflow"} /\ status'[b] = "Running"
  BY DEF IInv, TypeOK, BuildInv
<1>3. Stages[b] = "running" /\ Stages'[b] = "running"
  BY <1>2, LifeAt DEF Stage
<1>4. Verdicts[b] = "none" /\ Verdicts'[b] = "none"
  BY <1>2, LifeAt DEF Shape, Terminal
<1>5. Stages' = Stages /\ Verdicts' = Verdicts
  <2>1. Stages' = [Stages EXCEPT ![b] = Stages[b]]
    BY <1>1, <1>3, OwnLife
  <2>2. Verdicts' = [Verdicts EXCEPT ![b] = Verdicts[b]]
    BY <1>1, <1>4, OwnLife
  <2> QED
    BY <2>1, <2>2 DEF Stages, Verdicts
<1>6. FlowCounts' = FlowCounts /\ Stops' = Stops
  BY DEF FlowCounts, Stops
<1>7. Len(flowSt[b]) < FlowCounts[b] /\ \A i \in 1 .. Len(flowSt[b]) : flowSt[b][i] = "Succeed"
  BY <1>2, LifeAt DEF Shape, AllSucceed
<1>8. flowSt[b] # <<>> => env[b] # "success"
  BY <1>2 DEF Shape
<1>9. BL!FlowBegins(b)
  BY <1>3, <1>4, <1>5, <1>6, <1>7, <1>8 DEF BL!FlowBegins
<1> QED
  BY <1>9 DEF LifeStep, BL!BLNext, BL!BuildNext

LEMMA LuaSetsStatusLife ==
  ASSUME IInv, ~crashed, NEW b \in Build, LuaSetsStatus(b)
  PROVE  LifeStep
<1> USE DEF LuaSetsStatus, LuaRunning, runFrame, ctxVars
<1>1. UNCHANGED <<Stages, FlowCounts, Stops, Verdicts>>
  BY DEF Stages, Stage, FlowCounts, Stops, Verdicts
<1>2. Stages[b] = "running"
  BY LifeAt DEF Stage
<1>3. flowSt[b] # <<>> /\ LastSt(b) = "Running"
  BY DEF IInv, BuildInv, Shape, InFlow
<1>4. \E w \in BL!Word : env' = [env EXCEPT ![b] = w]
  BY DEF BL!Word, EnvStatus
<1>5. BL!ScriptSays(b)
  BY <1>1, <1>2, <1>3, <1>4 DEF BL!ScriptSays, BL!Idle, BL!Last, LastSt
<1> QED
  BY <1>5 DEF LifeStep, BL!BLNext, BL!BuildNext

LEMMA FinishFlowLife ==
  ASSUME IInv, IInv', ~crashed, NEW b \in Build, FinishFlow(b)
  PROVE  LifeStep
<1> USE DEF FinishFlow, Goto, runFrame, ctxVars
<1> DEFINE n == Len(flowSt[b])
<1>1. PICK r \in RunFlowResults(CurrentKind(b), pc[b] = "lateflow", flowCtx[b]) :
        flowSt' = [flowSt EXCEPT ![b][n] = FlowVerdict(r, env[b])]
  OBVIOUS
<1> DEFINE st == FlowVerdict(r, env[b])
<1>2. InFlow(b) /\ Shape(b) /\ Context(b)
  BY DEF IInv, BuildInv
<1>3. n \in 1 .. Len(flows[b]) /\ flows[b] \in Seq(Kind)
  BY <1>2 DEF IInv, TypeOK, Shape
<1>4. CurrentKind(b) \in Kind
  BY <1>3 DEF CurrentKind
<1>5. st \in Terminal /\ (st = "Canceled" => jobCtx[b] = "canceled")
  <2>1. st \in Terminal /\ (st = "Canceled" => flowCtx[b] = "canceled")
    BY <1>4, CanceledResult
  <2> QED
    BY <2>1, <1>2 DEF Context
<1>6. st = "Succeed" => env[b] # "failed"
  BY <1>4, CanceledResult
<1>7. Stages[b] = "running" /\ (st = "Canceled" => Stops[b] = "canceled")
  BY <1>2, <1>5, LifeAt DEF Stage, InFlow
<1>8. UNCHANGED <<FlowCounts, env, Stops, Verdicts, crashed>>
  BY DEF FlowCounts, Stops, Verdicts
<1>9. Stages' = Stages
  <2>1. /\ pc[b] \in {"flow", "lateflow"}
        /\ \E l \in {"verdict", "next"} : pc' = [pc EXCEPT ![b] = l]
    BY <1>2 DEF InFlow
  <2> QED
    BY <2>1 DEF Stages, Stage, IInv, TypeOK
<1>10. flowSt[b] # <<>> /\ LastSt(b) = "Running"
  BY <1>2 DEF Shape
<1>11. BL!FlowEnds(b, st)
  BY <1>1, <1>6, <1>7, <1>8, <1>9, <1>10 DEF BL!FlowEnds, BL!Idle, BL!Last, LastSt
<1>12. st \in BL!Outcome
  BY <1>5 DEF BL!Outcome, Terminal
<1> QED
  BY <1>11, <1>12 DEF LifeStep, BL!BLNext, BL!BuildNext

LEMMA VerdictLife ==
  ASSUME IInv, IInv', ~crashed, NEW b \in Build, Verdict(b)
  PROVE  LifeStep
<1> USE DEF Verdict, Goto, runFrame, ctxVars
<1>1. Aside(b)
  BY DEF IInv, TypeOK, Aside, SameBuild, SameCtx, dirVars, Store, SetStatus
<1>2. Concluded(b) /\ status[b] = "Running" /\ pc'[b] = "cleanup"
  BY DEF IInv, TypeOK, BuildInv, Shape
<1>3. status'[b] = LastSt(b)
  <2>1. UNCHANGED flowSt /\ flowSt[b] # <<>>
    BY <1>2 DEF Concluded
  <2> QED
    BY <2>1, <1>2 DEF IInv, BuildInv, Shape, Over, LastSt
<1>4. Stages[b] = "running" /\ Stages'[b] = "running"
  BY <1>2, LifeAt DEF Stage
<1>5. Verdicts[b] = "none" /\ Verdicts'[b] = LastSt(b)
  BY <1>2, <1>3, LifeAt DEF Concluded, Terminal
<1>6. Stages' = Stages /\ Verdicts' = [Verdicts EXCEPT ![b] = LastSt(b)]
  <2> HIDE DEF Verdict
  <2>1. Stages' = [Stages EXCEPT ![b] = Stages[b]]
    BY <1>1, <1>4, OwnLife
  <2>2. Verdicts' = [Verdicts EXCEPT ![b] = LastSt(b)]
    BY <1>1, <1>5, OwnLife
  <2> QED
    BY <2>1, <2>2 DEF Stages
<1>7. FlowCounts' = FlowCounts /\ Stops' = Stops
  BY DEF FlowCounts, Stops
<1>8. /\ flowSt[b] # <<>> /\ LastSt(b) # "Running"
      /\ LastSt(b) = "Succeed" => Len(flowSt[b]) = FlowCounts[b] \/ env[b] = "success"
  BY <1>2, LifeAt DEF Concluded, Terminal
<1>9. BL!Conclude(b)
  BY <1>4, <1>5, <1>6, <1>7, <1>8 DEF BL!Conclude, BL!Idle, BL!Last, LastSt
<1> QED
  BY <1>9 DEF LifeStep, BL!BLNext, BL!BuildNext

LEMMA CleanupLife ==
  ASSUME IInv, IInv', ~crashed, NEW b \in Build, Cleanup(b)
  PROVE  LifeStep
<1> USE DEF Cleanup, Goto, EndCtx, runFrame
<1>1. Aside(b)
  BY DEF IInv, TypeOK, Aside, SameBuild, SameCtx
<1>2. Stages[b] = "running" /\ Stages'[b] = "ended"
  <2>1. pc[b] = "cleanup" /\ pc'[b] = "returned"
    BY DEF IInv, TypeOK
  <2> QED
    BY <2>1, LifeAt DEF Stage
<1>3. Stages' = [Stages EXCEPT ![b] = "ended"]
  BY <1>1, <1>2, OwnLife
<1>4. Stops' = Stops
  <2>1. Stops'[b] = Stops[b]
    BY LifeAt DEF IInv, TypeOK
  <2> QED
    BY <2>1, <1>1, OwnLife DEF Stops
<1>5. FlowCounts' = FlowCounts /\ Verdicts' = Verdicts
  BY DEF FlowCounts, Verdicts
<1>6. flowSt[b] = <<>> \/ Verdicts[b] # "none"
  BY LifeAt DEF IInv, BuildInv, Shape, Over, Concluded, Terminal
<1>7. BL!End(b)
  BY <1>2, <1>3, <1>4, <1>5, <1>6 DEF BL!End, BL!Advance
<1> QED
  BY <1>7 DEF LifeStep, BL!BLNext, BL!BuildNext

\* Whoever ends contexts stops builds that are running, or none.
LEMMA EndBuildsLife ==
  ASSUME IInv, ~crashed, NEW why \in {"canceled", "expired"}, NEW B \in SUBSET Build,
         EndBuilds(why, B), UNCHANGED <<pc, flows, status, flowSt, env, crashed>>,
         \A b \in B : Begun(b)
  PROVE  LifeStep
<1> DEFINE R == {b \in B : pc[b] # "returned"}
<1>1. UNCHANGED <<Stages, FlowCounts, Verdicts>>
  BY DEF Stages, Stage, FlowCounts, Verdicts
<1>2. \A b \in R : Stages[b] = "running"
  BY LifeAt DEF Stage, Begun
<1>3. \A b \in B : pc[b] = "returned" => jobCtx[b] # "live"
  BY DEF IInv, BuildInv, Context
<1>4. Stops' = [b \in Build |-> IF b \in R /\ Stops[b] = "no" THEN why ELSE Stops[b]]
  <2>1. ASSUME NEW b \in Build
        PROVE  Stops'[b] = IF b \in R /\ Stops[b] = "no" THEN why ELSE Stops[b]
    BY <1>3, LifeAt DEF EndBuilds, EndCtx, IInv, TypeOK, BuildInv, Context
  <2> QED
    BY <2>1 DEF Stops
<1>5. BL!StopBuilds(why, R)
  BY <1>1, <1>2, <1>4 DEF BL!StopBuilds
<1> QED
  BY <1>5 DEF LifeStep, BL!BLNext

LEMMA HaltLife ==
  ASSUME ~crashed, crashed', UNCHANGED <<pc, flows, status, flowSt, env, jobCtx>>, IInv'
  PROVE  LifeStep
<1>1. UNCHANGED <<Stages, FlowCounts, Stops, Verdicts>>
  BY DEF Stages, Stage, FlowCounts, Stops, Verdicts
<1>2. BL!Halt
  BY <1>1 DEF BL!Halt, IInv, TypeOK
<1> QED
  BY <1>2 DEF LifeStep, BL!BLNext

LEMMA ServeLife ==
  ASSUME IInv, IInv', ~crashed, NEW h \in Handler, Serve(h)
  PROVE  LifeStep
<1> USE DEF serveFrame
<1>1. CASE ReceiveRequest(h) \/ Load(h) \/ RemoveDir(h) \/ Forget(h) \/ Marshal(h)
  <2>1. UNCHANGED LifeVars
    BY <1>1 DEF ReceiveRequest, Load, RemoveDir, Forget, Marshal, ctxVars, LifeVars
  <2> QED
    BY <2>1, Untouched, Unseen DEF LifeVars
<1>2. CASE CallCancel(h)
  <2>1. hent[h] = "run" /\ hreq[h].build \in Build
    BY <1>2 DEF CallCancel, IInv, TypeOK, Request
  <2>2. Begun(hreq[h].build)
    BY <2>1 DEF IInv, Served
  <2> QED
    BY <1>2, <2>1, <2>2, EndBuildsLife DEF CallCancel
<1>3. CASE CancelPanics(h) \/ MarshalRace(h)
  <2>1. UNCHANGED <<pc, flows, status, flowSt, env, jobCtx>>
    BY <1>3 DEF CancelPanics, MarshalRace, ctxVars
  <2>2. CASE crashed'
    BY <2>1, <2>2, HaltLife
  <2>3. CASE ~crashed'
    <3>1. crashed' = crashed
      BY <2>3 DEF IInv, TypeOK
    <3> QED
      BY <2>1, <3>1, Untouched, Unseen DEF LifeVars
  <2> QED
    BY <2>2, <2>3
<1> QED
  BY <1>1, <1>2, <1>3 DEF Serve

LEMMA ContextLife ==
  ASSUME IInv, ~crashed, CancelRoot \/ \E b \in Build : PipelineTimeout(b)
  PROVE  LifeStep
<1>1. UNCHANGED <<pc, flows, status, flowSt, env, crashed>>
  BY DEF CancelRoot, PipelineTimeout, buildVars
<1>2. CASE CancelRoot
  <2> DEFINE B == {b \in Build : Active(b)}
  <2>1. B \in SUBSET Build /\ EndBuilds("canceled", B) /\ \A b \in B : Begun(b)
    BY <1>2 DEF CancelRoot, Active, Begun
  <2> HIDE DEF B
  <2> QED
    BY <1>1, <2>1, EndBuildsLife
<1>3. ASSUME NEW b \in Build, PipelineTimeout(b) PROVE LifeStep
  <2>1. {b} \in SUBSET Build /\ EndBuilds("expired", {b}) /\ Begun(b)
    BY <1>3 DEF PipelineTimeout, Active, Begun
  <2> QED
    BY <1>1, <2>1, EndBuildsLife
<1> QED
  BY <1>2, <1>3

LEMMA NextLife == IInv /\ [Next]_vars => LifeStep
<1> SUFFICES ASSUME IInv, [Next]_vars PROVE LifeStep
  OBVIOUS
<1>1. IInv'
  BY NextPreserves
<1>2. CASE UNCHANGED vars
  <2>1. UNCHANGED LifeVars
    BY <1>2 DEF vars, buildVars, ctxVars, LifeVars
  <2> QED
    BY <2>1, Untouched, Unseen DEF LifeVars
<1>3. ASSUME ~crashed, NEW b \in Build, BuildStep(b) PROVE LifeStep
  <2>1. CASE LuaEndsProcess(b)
    <3>1. crashed' /\ UNCHANGED <<pc, flows, status, flowSt, env, jobCtx>>
      BY <2>1 DEF LuaEndsProcess, buildVars, ctxVars
    <3> QED
      BY <1>1, <1>3, <3>1, HaltLife
  <2>2. CASE RunStep(b)
    BY <1>1, <1>3, <2>2, BeginLife, HiddenLife, StartFlowLife, VerdictLife, CleanupLife
       DEF RunStep
  <2>3. CASE ~RunStep(b) /\ ~LuaEndsProcess(b)
    BY <1>1, <1>3, <2>3, SubmitLife, HiddenLife, FinishFlowLife, LuaSetsStatusLife, ContextLife
       DEF BuildStep
  <2> QED
    BY <2>1, <2>2, <2>3
<1>4. CASE Next
  <2>1. ~crashed
    BY <1>4 DEF Next
  <2> QED
    BY <1>1, <1>3, <1>4, <2>1, ContextLife, ServeLife DEF Next
<1> QED
  BY <1>2, <1>4

LEMMA InitLife == Init => BL!BLInit
<1> SUFFICES ASSUME Init PROVE BL!BLInit
  OBVIOUS
<1> USE DEF Init
<1>1. Stages = [b \in Build |-> "new"]
  BY DEF Stages, Stage
<1>2. FlowCounts = [b \in Build |-> 0]
  BY DEF FlowCounts
<1>3. Stops = [b \in Build |-> "no"]
  BY DEF Stops
<1>4. Verdicts = [b \in Build |-> "none"]
  BY DEF Verdicts, Terminal
<1> QED
  BY <1>1, <1>2, <1>3, <1>4 DEF BL!BLInit

\* Run, the client requests, the timeouts and the shutdown implement the life of a
\* build that clients are promised (processor/processor.go).
THEOREM Refinement == Spec => ImplementsBuildLife
<1>1. IInv /\ [Next]_vars => [BL!BLNext]_BL!blVars
  BY NextLife DEF LifeStep
<1> QED
  BY InitLife, <1>1, Inductive, PTL DEF Spec, ImplementsBuildLife, BL!BLSpec
=============================================================================
