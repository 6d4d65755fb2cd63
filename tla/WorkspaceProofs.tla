--------------------------- MODULE WorkspaceProofs ---------------------------
(***************************************************************************)
(* What the flows of a build leave each other, for pipelines of any        *)
(* length.  The argument is one about sequences of flows, twice: a flow of *)
(* type b cannot follow one of type a unless one of a type in C ran between*)
(* them (Fenced), because what a leaves behind stands in b's way until a   *)
(* flow of C mends it (Mended).                                            *)
(***************************************************************************)
EXTENDS Workspace, TLAPS

\* Among the first k flows every a is followed by one of C before any b.
Fenced(s, k, a, b, C) ==
  \A i, j \in 1 .. k : i < j /\ s[i] = a /\ s[j] = b => \E m \in i + 1 .. j - 1 : s[m] \in C

\* Among the first k flows every a is followed by one of C.
Mended(s, k, a, C) ==
  \A i \in 1 .. k : s[i] = a => \E m \in i + 1 .. k : s[m] \in C

LEMMA FencedExtends ==
  ASSUME NEW s \in Seq(FlowKind), NEW k \in 1 .. Len(s), NEW a, NEW b, NEW C,
         Fenced(s, k - 1, a, b, C), s[k] # b \/ Mended(s, k - 1, a, C)
  PROVE  Fenced(s, k, a, b, C)
<1> SUFFICES ASSUME NEW i \in 1 .. k, NEW j \in 1 .. k, i < j, s[i] = a, s[j] = b
             PROVE  \E m \in i + 1 .. j - 1 : s[m] \in C
  BY DEF Fenced
<1>1. CASE j < k
  <2>1. i \in 1 .. k - 1 /\ j \in 1 .. k - 1
    BY <1>1
  <2> QED BY <2>1 DEF Fenced
<1>2. CASE j = k
  <2>1. i \in 1 .. k - 1 /\ Mended(s, k - 1, a, C)
    BY <1>2
  <2> QED BY <1>2, <2>1 DEF Mended
<1> QED BY <1>1, <1>2

LEMMA MendedExtends ==
  ASSUME NEW s \in Seq(FlowKind), NEW k \in 1 .. Len(s), NEW a, NEW C, a \notin C,
         s[k] \in C \/ (s[k] # a /\ Mended(s, k - 1, a, C))
  PROVE  Mended(s, k, a, C)
<1> SUFFICES ASSUME NEW i \in 1 .. k, s[i] = a
             PROVE  \E m \in i + 1 .. k : s[m] \in C
  BY DEF Mended
<1>1. i # k
  OBVIOUS
<1>2. i \in 1 .. k - 1 /\ k \in i + 1 .. k
  BY <1>1
<1>3. CASE s[k] \in C
  BY <1>2, <1>3
<1>4. CASE Mended(s, k - 1, a, C)
  <2>1. PICK m \in i + 1 .. k - 1 : s[m] \in C
    BY <1>2, <1>4 DEF Mended
  <2>2. m \in i + 1 .. k
    OBVIOUS
  <2> QED BY <2>1, <2>2
<1> QED BY <1>3, <1>4

\* One flow more does not change what is said of those before it.
LEMMA AppendKeeps ==
  ASSUME NEW s \in Seq(FlowKind), NEW x \in FlowKind, NEW a, NEW b, NEW C
  PROVE  /\ Fenced(s, Len(s), a, b, C) => Fenced(Append(s, x), Len(s), a, b, C)
         /\ Mended(s, Len(s), a, C) => Mended(Append(s, x), Len(s), a, C)
<1>1. \A i \in 1 .. Len(s) : Append(s, x)[i] = s[i]
  OBVIOUS
<1>2. \A i \in Nat : \A j \in 1 .. Len(s) : \A m \in i + 1 .. j - 1 : i >= 1 => m \in 1 .. Len(s)
  OBVIOUS
<1>3. ASSUME Fenced(s, Len(s), a, b, C), NEW i \in 1 .. Len(s), NEW j \in 1 .. Len(s), i < j,
             Append(s, x)[i] = a, Append(s, x)[j] = b
      PROVE  \E m \in i + 1 .. j - 1 : Append(s, x)[m] \in C
  <2>1. PICK m \in i + 1 .. j - 1 : s[m] \in C
    BY <1>1, <1>3 DEF Fenced
  <2>2. m \in 1 .. Len(s)
    BY <2>1
  <2> QED BY <1>1, <2>1, <2>2
<1>4. ASSUME Mended(s, Len(s), a, C), NEW i \in 1 .. Len(s), Append(s, x)[i] = a
      PROVE  \E m \in i + 1 .. Len(s) : Append(s, x)[m] \in C
  <2>1. PICK m \in i + 1 .. Len(s) : s[m] \in C
    BY <1>1, <1>4 DEF Mended
  <2>2. m \in 1 .. Len(s)
    BY <2>1
  <2> QED BY <1>1, <2>1, <2>2
<1> QED BY <1>3, <1>4 DEF Fenced, Mended

-----------------------------------------------------------------------------
n == Len(flows)

\* The flows that are over, with the one whose fate is sealed.
Over == IF pc \in {"flow", "fetch", "context", "close"} THEN n - 1 ELSE n

\* The type of the current flow at the points only one type reaches.
Placed ==
  /\ pc \in {"flow", "fetch", "script", "context", "close"} => n > 0
  /\ pc = "fetch" => flows[n] = "Git"
  /\ pc = "script" => flows[n] = "Shell"
  /\ pc \in {"context", "close"} => flows[n] = "DockerBuild"
  /\ pc \notin {"cleanup", "returned"} => result = "none"
  /\ pc \in {"cleanup", "returned"} => result # "none"
  /\ pc = "make" => flows = <<>>

\* What makes the workspace anew, and what may clear it of a repository.
Makers == {"Git", "Lua"}
Clearers == {"DockerBuild", "Shell", "Lua"}

\* A docker build took the workspace; only a flow of Makers made it anew.
Shells ==
  /\ result # "failed" => Fenced(flows, Over, "DockerBuild", "Shell", Makers)
  /\ pc \in {"next", "flow", "script"} /\ here => Mended(flows, Over, "DockerBuild", Makers)

\* A clone left its repository; only a flow of Clearers took it away, or a client's
\* delete, and after that no clone succeeds.
Clones ==
  /\ result # "failed" => Fenced(flows, Over, "Git", "Git", Clearers)
  /\ pc \in {"next", "flow", "script"} /\ ~canceled /\ ".git" \notin files =>
       Mended(flows, Over, "Git", Clearers)
  /\ pc = "fetch" /\ ~late => Fenced(flows, n, "Git", "Git", Clearers)

\* The script is in the workspace while it runs, and where its writing failed.
Scripts ==
  /\ "script" \in files => pc = "script" \/ result = "failed"
  /\ "script" \notin sent

IInv == TypeOK /\ Placed /\ Shells /\ Clones /\ Scripts

LEMMA InitIInv == Init => IInv
<1> SUFFICES ASSUME Init PROVE IInv
  OBVIOUS
<1> USE WorkspaceAssumption DEF Init
<1>1. flows = <<>> /\ Len(flows) = 0 /\ flows \in Seq(FlowKind)
  OBVIOUS
<1>2. n = 0 /\ Over = 0
  BY <1>1 DEF n, Over
<1>3. TypeOK
  <2>1. here \in BOOLEAN /\ canceled \in BOOLEAN /\ late \in BOOLEAN
    BY Zenon
  <2>2. sent \subseteq File /\ files \subseteq File
    OBVIOUS
  <2> QED BY <1>1, <2>1, <2>2 DEF TypeOK
<1>4. Placed /\ Scripts
  BY <1>1, <1>2 DEF Placed, Scripts
<1>5. Shells /\ Clones
  BY <1>1, <1>2 DEF Shells, Clones, Fenced, Mended
<1> QED BY <1>3, <1>4, <1>5 DEF IInv

-----------------------------------------------------------------------------
USE DEF dirVars, vars, Running, Succeeds, Fails

\* What every step leaves of the flows and of the Boolean variables.
LEMMA FlowsStep ==
  TypeOK /\ [Next]_vars =>
    /\ flows' \in Seq(FlowKind) /\ Len(flows') <= MaxFlows
    /\ flows' = flows \/ StartFlow
    /\ here' \in BOOLEAN /\ canceled' \in BOOLEAN /\ late' \in BOOLEAN
<1> SUFFICES ASSUME TypeOK, [Next]_vars
             PROVE  /\ flows' \in Seq(FlowKind) /\ Len(flows') <= MaxFlows
                    /\ flows' = flows \/ StartFlow
                    /\ here' \in BOOLEAN /\ canceled' \in BOOLEAN /\ late' \in BOOLEAN
  OBVIOUS
<1>1. flows' = flows \/ StartFlow
  BY DEF Next, MakeWorkDir, LastFlowDone, InitRepository, Fetch, WriteScript, ShellEnds,
     AddDockerfile, SendContext, CloseContext, LuaEnds, SvnEnds, Cancel, DeleteWorkspace, Cleanup
<1>2. here' = here \/ here' = TRUE \/ here' = FALSE
  BY DEF Next, MakeWorkDir, StartFlow, LastFlowDone, InitRepository, Fetch, WriteScript,
     ShellEnds, AddDockerfile, SendContext, CloseContext, LuaEnds, SvnEnds, Cancel, DeleteWorkspace,
     Cleanup
<1>3. canceled' = canceled \/ canceled' = TRUE
  BY DEF Next, MakeWorkDir, StartFlow, LastFlowDone, InitRepository, Fetch, WriteScript,
     ShellEnds, AddDockerfile, SendContext, CloseContext, LuaEnds, SvnEnds, Cancel, DeleteWorkspace,
     Cleanup
<1>4. late' = late \/ late' = canceled
  BY DEF Next, MakeWorkDir, StartFlow, LastFlowDone, InitRepository, Fetch, WriteScript,
     ShellEnds, AddDockerfile, SendContext, CloseContext, LuaEnds, SvnEnds, Cancel, DeleteWorkspace,
     Cleanup
<1>5. here \in BOOLEAN /\ canceled \in BOOLEAN /\ late \in BOOLEAN
  BY DEF TypeOK
<1>6. here' \in BOOLEAN /\ canceled' \in BOOLEAN /\ late' \in BOOLEAN
  BY <1>2, <1>3, <1>4, <1>5, Zenon
<1>7. flows' \in Seq(FlowKind) /\ Len(flows') <= MaxFlows
  <2>1. flows \in Seq(FlowKind) /\ Len(flows) <= MaxFlows
    BY DEF TypeOK
  <2>2. CASE flows' = flows
    BY <2>1, <2>2
  <2>3. CASE StartFlow
    BY <2>1, <2>3, WorkspaceAssumption DEF StartFlow
  <2> QED BY <1>1, <2>2, <2>3
<1> QED BY <1>1, <1>6, <1>7

LEMMA TypeStep == IInv /\ [Next]_vars => TypeOK'
<1> SUFFICES ASSUME IInv, [Next]_vars PROVE TypeOK'
  OBVIOUS
<1>0. /\ flows' \in Seq(FlowKind) /\ Len(flows') <= MaxFlows
      /\ here' \in BOOLEAN /\ canceled' \in BOOLEAN /\ late' \in BOOLEAN
  BY FlowsStep DEF IInv
<1> USE <1>0 DEF IInv, TypeOK, File, LeftByScript
<1>1. CASE MakeWorkDir BY <1>1 DEF MakeWorkDir
<1>2. CASE StartFlow BY <1>2 DEF StartFlow
<1>3. CASE LastFlowDone BY <1>3 DEF LastFlowDone
<1>4. CASE InitRepository BY <1>4 DEF InitRepository
<1>5. CASE Fetch BY <1>5 DEF Fetch
<1>6. CASE WriteScript BY <1>6 DEF WriteScript
<1>7. CASE ShellEnds BY <1>7 DEF ShellEnds
<1>8. CASE AddDockerfile BY <1>8 DEF AddDockerfile
<1>9. CASE SendContext BY <1>9 DEF SendContext
<1>10. CASE CloseContext BY <1>10 DEF CloseContext
<1>11. CASE LuaEnds BY <1>11 DEF LuaEnds
<1>12. CASE Cancel BY <1>12 DEF Cancel
<1>13. CASE DeleteWorkspace BY <1>13 DEF DeleteWorkspace
<1>14. CASE Cleanup BY <1>14 DEF Cleanup
<1>15. CASE SvnEnds BY <1>15 DEF SvnEnds
<1>16. CASE UNCHANGED vars BY <1>16
<1> QED BY <1>1, <1>2, <1>3, <1>4, <1>5, <1>6, <1>7, <1>8, <1>9, <1>10, <1>11, <1>12,
           <1>13, <1>14, <1>15, <1>16 DEF Next

LEMMA PlacedStep == IInv /\ [Next]_vars => Placed' /\ Scripts'
<1> SUFFICES ASSUME IInv, [Next]_vars PROVE Placed' /\ Scripts'
  OBVIOUS
<1> USE DEF IInv, Placed, Scripts, LeftByScript, n
<1>1. CASE MakeWorkDir BY <1>1 DEF MakeWorkDir
<1>2. CASE StartFlow
  <2>1. Len(flows') = Len(flows) + 1 /\ Len(flows) \in Nat
    BY <1>2 DEF StartFlow, TypeOK
  <2> QED BY <1>2, <2>1 DEF StartFlow
<1>3. CASE LastFlowDone BY <1>3 DEF LastFlowDone
<1>4. CASE InitRepository BY <1>4 DEF InitRepository
<1>5. CASE Fetch BY <1>5 DEF Fetch
<1>6. CASE WriteScript BY <1>6 DEF WriteScript
<1>7. CASE ShellEnds
  <2>1. here => "script" \notin files'
    BY <1>7 DEF ShellEnds
  <2>2. ~here => files' = {}
    BY <1>7 DEF ShellEnds, TypeOK
  <2> QED BY <1>7, <2>1, <2>2 DEF ShellEnds
<1>8. CASE AddDockerfile BY <1>8 DEF AddDockerfile
<1>9. CASE SendContext BY <1>9 DEF SendContext
<1>10. CASE CloseContext BY <1>10 DEF CloseContext
<1>11. CASE LuaEnds BY <1>11 DEF LuaEnds
<1>12. CASE Cancel BY <1>12 DEF Cancel
<1>13. CASE DeleteWorkspace BY <1>13 DEF DeleteWorkspace
<1>14. CASE Cleanup BY <1>14 DEF Cleanup
<1>15. CASE SvnEnds BY <1>15 DEF SvnEnds
<1>16. CASE UNCHANGED vars BY <1>16
<1> QED BY <1>1, <1>2, <1>3, <1>4, <1>5, <1>6, <1>7, <1>8, <1>9, <1>10, <1>11, <1>12,
           <1>13, <1>14, <1>15, <1>16 DEF Next

\* One more flow is started: it is not over yet.
LEMMA StartKeeps == IInv /\ StartFlow => Shells' /\ Clones'
<1> SUFFICES ASSUME IInv, StartFlow PROVE Shells' /\ Clones'
  OBVIOUS
<1> USE DEF StartFlow
<1>1. PICK k \in FlowKind : flows' = Append(flows, k)
  OBVIOUS
<1>2. flows \in Seq(FlowKind) /\ pc = "next" /\ Over = Len(flows) /\ n = Len(flows)
  BY DEF IInv, TypeOK, Over, n
<1>3. Over' = Len(flows) /\ pc' = "flow" /\ here' = here /\ files' = files
      /\ canceled' = canceled /\ result' = result
  BY <1>1, <1>2 DEF Over, n
<1>4. Shells'
  BY <1>1, <1>2, <1>3, AppendKeeps DEF IInv, Shells
<1>5. Clones'
  BY <1>1, <1>2, <1>3, AppendKeeps DEF IInv, Clones
<1> QED BY <1>4, <1>5

\* What becomes known when a flow is over that started as the last of flows.
LEMMA OverOne ==
  ASSUME IInv, n > 0
  PROVE  /\ n \in 1 .. Len(flows)
         /\ \A a, b, C : Fenced(flows, n - 1, a, b, C)
              /\ (flows[n] # b \/ Mended(flows, n - 1, a, C)) => Fenced(flows, n, a, b, C)
         /\ \A a, C : a \notin C
              /\ (flows[n] \in C \/ (flows[n] # a /\ Mended(flows, n - 1, a, C)))
                => Mended(flows, n, a, C)
<1>1. flows \in Seq(FlowKind) /\ n \in 1 .. Len(flows)
  BY DEF IInv, TypeOK, n
<1> QED BY <1>1, FencedExtends, MendedExtends

LEMMA ShellsStep == IInv /\ [Next]_vars => Shells'
<1> SUFFICES ASSUME IInv, [Next]_vars PROVE Shells'
  OBVIOUS
<1>0. n > 0 => /\ \A a, b, C : Fenced(flows, n - 1, a, b, C)
                    /\ (flows[n] # b \/ Mended(flows, n - 1, a, C)) => Fenced(flows, n, a, b, C)
               /\ \A a, C : a \notin C
                    /\ (flows[n] \in C \/ (flows[n] # a /\ Mended(flows, n - 1, a, C)))
                      => Mended(flows, n, a, C)
  BY OverOne
<1> USE <1>0 DEF Shells, Over, Placed, Makers
<1>1. CASE MakeWorkDir
  <2>1. flows = <<>> /\ n = 0 /\ flows' = flows /\ n' = n
    BY <1>1 DEF MakeWorkDir, IInv, n
  <2> QED BY <1>1, <2>1 DEF MakeWorkDir, Fenced, Mended
<1>2. CASE StartFlow BY <1>2, StartKeeps
<1>3. ASSUME flows' = flows, n' = n, IInv PROVE Shells'
  <2>1. CASE LastFlowDone BY <1>3, <2>1 DEF LastFlowDone, IInv
  <2>2. CASE InitRepository BY <1>3, <2>2 DEF InitRepository, IInv
  <2>3. CASE Fetch
    <3>1. flows[n] = "Git" /\ n > 0 /\ Over = n - 1 /\ Over' = n /\ result # "failed"
      BY <1>3, <2>3 DEF Fetch, IInv
    <3>2. Fenced(flows, n, "DockerBuild", "Shell", Makers)
      BY <1>3, <3>1 DEF IInv
    <3>3. Mended(flows, n, "DockerBuild", Makers)
      BY <3>1
    <3> QED BY <1>3, <3>1, <3>2, <3>3
  <2>4. CASE WriteScript BY <1>3, <2>4 DEF WriteScript, IInv, n
  <2>5. CASE ShellEnds BY <1>3, <2>5 DEF ShellEnds, IInv
  <2>6. CASE AddDockerfile BY <1>3, <2>6 DEF AddDockerfile, IInv
  <2>7. CASE SendContext BY <1>3, <2>7 DEF SendContext, IInv
  <2>8. CASE CloseContext BY <1>3, <2>8 DEF CloseContext, IInv
  <2>9. CASE LuaEnds BY <1>3, <2>9 DEF LuaEnds, IInv, n
  <2>10. CASE Cancel BY <1>3, <2>10 DEF Cancel, IInv
  <2>11. CASE DeleteWorkspace BY <1>3, <2>11 DEF DeleteWorkspace, IInv
  <2>12. CASE Cleanup BY <1>3, <2>12 DEF Cleanup, IInv
  <2>13. CASE SvnEnds BY <1>3, <2>13 DEF SvnEnds, IInv, n
  <2>14. CASE UNCHANGED vars BY <1>3, <2>14 DEF IInv
  <2> QED BY <1>1, <1>2, <2>1, <2>2, <2>3, <2>4, <2>5, <2>6, <2>7, <2>8, <2>9, <2>10,
             <2>11, <2>12, <2>13, <2>14 DEF Next
<1>4. flows' = flows \/ StartFlow
  BY FlowsStep DEF IInv
<1> QED BY <1>2, <1>3, <1>4 DEF n

LEMMA ClonesStep == IInv /\ [Next]_vars => Clones'
<1> SUFFICES ASSUME IInv, [Next]_vars PROVE Clones'
  OBVIOUS
<1>0. n > 0 => /\ \A a, b, C : Fenced(flows, n - 1, a, b, C)
                    /\ (flows[n] # b \/ Mended(flows, n - 1, a, C)) => Fenced(flows, n, a, b, C)
               /\ \A a, C : a \notin C
                    /\ (flows[n] \in C \/ (flows[n] # a /\ Mended(flows, n - 1, a, C)))
                      => Mended(flows, n, a, C)
  BY OverOne
<1> USE <1>0 DEF Clones, Over, Placed, Clearers
<1>1. CASE MakeWorkDir
  <2>1. flows = <<>> /\ n = 0 /\ flows' = flows /\ n' = n
    BY <1>1 DEF MakeWorkDir, IInv, n
  <2> QED BY <1>1, <2>1 DEF MakeWorkDir, Fenced, Mended
<1>2. CASE StartFlow BY <1>2, StartKeeps
<1>3. ASSUME flows' = flows, n' = n, IInv PROVE Clones'
  <2>1. CASE LastFlowDone BY <1>3, <2>1 DEF LastFlowDone, IInv
  <2>2. CASE InitRepository BY <1>3, <2>2 DEF InitRepository, IInv, n
  <2>3. CASE Fetch BY <1>3, <2>3 DEF Fetch, IInv, TypeOK
  <2>4. CASE WriteScript BY <1>3, <2>4 DEF WriteScript, IInv, n
  <2>5. CASE ShellEnds BY <1>3, <2>5 DEF ShellEnds, IInv, n
  <2>6. CASE AddDockerfile BY <1>3, <2>6 DEF AddDockerfile, IInv, n
  <2>7. CASE SendContext BY <1>3, <2>7 DEF SendContext, IInv
  <2>8. CASE CloseContext BY <1>3, <2>8 DEF CloseContext, IInv
  <2>9. CASE LuaEnds BY <1>3, <2>9 DEF LuaEnds, IInv, n
  <2>10. CASE Cancel BY <1>3, <2>10 DEF Cancel, IInv
  <2>11. CASE DeleteWorkspace BY <1>3, <2>11 DEF DeleteWorkspace, IInv
  <2>12. CASE Cleanup BY <1>3, <2>12 DEF Cleanup, IInv
  <2>13. CASE SvnEnds BY <1>3, <2>13 DEF SvnEnds, IInv, n
  <2>14. CASE UNCHANGED vars BY <1>3, <2>14 DEF IInv
  <2> QED BY <1>1, <1>2, <2>1, <2>2, <2>3, <2>4, <2>5, <2>6, <2>7, <2>8, <2>9, <2>10,
             <2>11, <2>12, <2>13, <2>14 DEF Next
<1>4. flows' = flows \/ StartFlow
  BY FlowsStep DEF IInv
<1> QED BY <1>2, <1>3, <1>4 DEF n

LEMMA Inductive == Spec => []IInv
<1>1. IInv /\ [Next]_vars => IInv'
  BY TypeStep, PlacedStep, ShellsStep, ClonesStep DEF IInv
<1> QED BY InitIInv, <1>1, PTL DEF Spec

-----------------------------------------------------------------------------
\* Every variable keeps to its values, and a directory that is gone holds nothing.
THEOREM Typing == Spec => []TypeOK
<1>1. IInv => TypeOK BY DEF IInv
<1> QED BY Inductive, <1>1, PTL

LEMMA FinishedIsOver == IInv /\ result = "succeed" => Over = Len(flows) /\ Len(flows) \in Nat
BY DEF IInv, Placed, Over, n, TypeOK

\* No pipeline of any length succeeds with a shell flow in the workspace a docker build
\* has removed (the Close of the build context), unless a clone or a script remade it.
THEOREM ShellsHaveWorkspace == Spec => []ShellNeedsWorkspace
<1>1. IInv => ShellNeedsWorkspace
  BY FinishedIsOver DEF IInv, Shells, Makers, Fenced, ShellNeedsWorkspace, Between
<1> QED BY Inductive, <1>1, PTL

\* No pipeline of any length succeeds with two clones and neither a docker build nor a
\* script between them (PlainClone's refusal of a repository).
THEOREM ClonesAreCleared == Spec => []ClonesNeedClearing
<1>1. IInv => ClonesNeedClearing
  BY FinishedIsOver DEF IInv, Clones, Clearers, Fenced, ClonesNeedClearing, Between
<1> QED BY Inductive, <1>1, PTL

\* No script of a shell flow is ever sent as part of a build context.
THEOREM ScriptsStayOut == Spec => []NoScriptInImage
<1>1. IInv => NoScriptInImage BY DEF IInv, Scripts, NoScriptInImage
<1> QED BY Inductive, <1>1, PTL
=============================================================================
