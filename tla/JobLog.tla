------------------------------- MODULE JobLog -------------------------------
(***************************************************************************)
(* The log file of one build and the clients that read it: Run makes       *)
(* <job dir>/data/job.log and writes to it, GetPipelineLog looks the build *)
(* up and reads the file by its path, DeletePipeline takes the directory   *)
(* away.  Run goes on writing to the file it has open, wherever that is.   *)
(*                                                                         *)
(* The build is one submitted over HTTP, the server that answers for logs. *)
(* The entry InitPipeline makes for it has no directory, which makes       *)
(* "/data/job.log" the path of its log.                                    *)
(***************************************************************************)
EXTENDS Naturals, Sequences

CONSTANTS
  Reader,    \* clients that ask for the log
  MaxLines,  \* bound: lines a build logs
  MaxReads   \* bound: requests of a client

ASSUME JobLogAssumption == MaxLines \in Nat \ {0} /\ MaxReads \in Nat

VARIABLES
  initDue,  \* InitPipeline is still to be called
  tooLate,  \* history: it was called after Run's last store
  entity,   \* the build's entry in progressMp
  pc,       \* where Run is
  lines,    \* how many lines Run has logged
  dir,      \* <job dir>/data exists
  file,     \* the log is in it
  foreign,  \* the host has a file /data/job.log
  dpc,      \* where the delete is
  rpc,      \* where each client's request is
  found,    \* the entry the request has loaded
  seen      \* the answers each client has got

runVars == <<pc, lines>>
fileVars == <<dir, file, foreign>>
readVars == <<rpc, found, seen>>
initVars == <<initDue, tooLate>>
vars == <<initVars, entity, runVars, fileVars, dpc, readVars>>

Entity == {"none", "init", "run"}

\* What a client is told: a number of lines of the build, another file, nothing (nil
\* bytes), or an error.
Answer == [is : {"lines"}, n : 0 .. MaxLines] \cup [is : {"foreign", "nil", "error"}]

TypeOK ==
  /\ initDue \in BOOLEAN /\ tooLate \in BOOLEAN /\ entity \in Entity
  /\ pc \in {"queued", "mkdata", "mklog", "running", "ending", "returned"}
  /\ lines \in 0 .. MaxLines
  /\ dir \in BOOLEAN /\ file \in BOOLEAN /\ (file => dir) /\ foreign \in BOOLEAN
  /\ dpc \in {"none", "load", "remove", "forget", "done"}
  /\ rpc \in [Reader -> {"idle", "load", "stat", "read"}]
  /\ found \in [Reader -> Entity]
  /\ seen \in [Reader -> Seq(Answer)]

Init ==
  /\ initDue = TRUE /\ tooLate = FALSE /\ entity = "none"
  /\ pc = "queued" /\ lines = 0
  /\ dir = FALSE /\ file = FALSE /\ foreign \in BOOLEAN
  /\ dpc = "none"
  /\ rpc = [r \in Reader |-> "idle"] /\ found = [r \in Reader |-> "none"]
  /\ seen = [r \in Reader |-> <<>>]

-----------------------------------------------------------------------------
(* The build. *)

\* The HTTP handler registers the build when a worker may have begun with it.
InitPipeline ==
  /\ initDue /\ initDue' = FALSE /\ entity' = "init"
  /\ tooLate' = (pc \in {"ending", "returned"})
  /\ UNCHANGED <<runVars, fileVars, dpc, readVars>>

BeginRun ==
  /\ pc = "queued" /\ pc' = "mkdata" /\ entity' = "run"
  /\ UNCHANGED <<initVars, lines, fileVars, dpc, readVars>>

MakeDataDir ==
  /\ pc = "mkdata"
  /\ \/ pc' = "mklog" /\ dir' = TRUE
     \/ pc' = "returned" /\ UNCHANGED dir
  /\ UNCHANGED <<initVars, entity, lines, file, foreign, dpc, readVars>>

\* The first line is logged before the entry is stored again.
CreateLog ==
  /\ pc = "mklog"
  /\ \/ dir /\ pc' = "running" /\ file' = TRUE /\ lines' = lines + 1
     \/ pc' = "returned" /\ UNCHANGED <<file, lines>>
  /\ UNCHANGED <<initVars, entity, dir, foreign, dpc, readVars>>

LogLine ==
  /\ pc = "running" /\ lines < MaxLines /\ lines' = lines + 1
  /\ UNCHANGED <<initVars, entity, pc, fileVars, dpc, readVars>>

FaultyStoreEntity ==               \* variant: the stores after the first are left out
  /\ pc = "running" /\ UNCHANGED entity
  /\ pc' \in {"running", "ending"}
  /\ UNCHANGED <<initVars, lines, fileVars, dpc, readVars>>
\* updatePipelineRunEntity, as the build goes on and for the last time before it ends.
StoreEntity ==
  /\ pc = "running" /\ entity' = "run"
  /\ pc' \in {"running", "ending"}
  /\ UNCHANGED <<initVars, lines, fileVars, dpc, readVars>>

\* The last line follows the last store; a build without flows logs none.
EndRun ==
  /\ pc = "ending" /\ pc' = "returned"
  /\ lines' = lines \/ (lines < MaxLines /\ lines' = lines + 1)
  /\ UNCHANGED <<initVars, entity, fileVars, dpc, readVars>>

-----------------------------------------------------------------------------
(* A client's delete. *)

DeleteBuild ==
  /\ dpc = "none" /\ ~initDue /\ dpc' = "load"
  /\ UNCHANGED <<initVars, entity, runVars, fileVars, readVars>>

\* DeletePipeline: of an entry without CancelFunc only the entry goes.
LoadToDelete ==
  /\ dpc = "load"
  /\ dpc' = CASE entity = "none" -> "done" [] entity = "init" -> "forget"
              [] entity = "run" -> "remove"
  /\ UNCHANGED <<initVars, entity, runVars, fileVars, readVars>>

RemoveDir ==
  /\ dpc = "remove" /\ dpc' = "forget" /\ dir' = FALSE /\ file' = FALSE
  /\ UNCHANGED <<initVars, entity, runVars, foreign, readVars>>

Forget ==
  /\ dpc = "forget" /\ dpc' = "done" /\ entity' = "none"
  /\ UNCHANGED <<initVars, runVars, fileVars, readVars>>

-----------------------------------------------------------------------------
(* GetPipelineLog. *)

Answers(r, a) ==
  /\ rpc' = [rpc EXCEPT ![r] = "idle"]
  /\ seen' = [seen EXCEPT ![r] = Append(@, a)]

Only(is) == [is |-> is]
Lines(n) == [is |-> "lines", n |-> n]

FaultyGetBuildLog(r) ==            \* variant: the uid is answered before InitPipeline
  /\ rpc[r] = "idle" /\ Len(seen[r]) < MaxReads
  /\ rpc' = [rpc EXCEPT ![r] = "load"]
  /\ UNCHANGED <<initVars, entity, runVars, fileVars, dpc, found, seen>>
\* A client has the uid from the answer to its Build request.
GetBuildLog(r) ==
  /\ rpc[r] = "idle" /\ Len(seen[r]) < MaxReads /\ ~initDue
  /\ rpc' = [rpc EXCEPT ![r] = "load"]
  /\ UNCHANGED <<initVars, entity, runVars, fileVars, dpc, found, seen>>

Load(r) ==
  /\ rpc[r] = "load"
  /\ IF entity = "none" THEN Answers(r, Only("error"))
     ELSE rpc' = [rpc EXCEPT ![r] = "stat"] /\ UNCHANGED seen
  /\ found' = [found EXCEPT ![r] = entity]
  /\ UNCHANGED <<initVars, entity, runVars, fileVars, dpc>>

Exists(r) == IF found[r] = "run" THEN file ELSE foreign

\* FileExists and os.ReadFile, a delete may come between the two.
Stat(r) ==
  /\ rpc[r] = "stat"
  /\ IF Exists(r) THEN rpc' = [rpc EXCEPT ![r] = "read"] /\ UNCHANGED seen
     ELSE Answers(r, Only("nil"))
  /\ UNCHANGED <<initVars, entity, runVars, fileVars, dpc, found>>

ReadFile(r) ==
  /\ rpc[r] = "read"
  /\ Answers(r, IF ~Exists(r) THEN Only("error")
                ELSE IF found[r] = "run" THEN Lines(lines) ELSE Only("foreign"))
  /\ UNCHANGED <<initVars, entity, runVars, fileVars, dpc, found>>

Next ==
  \/ InitPipeline \/ BeginRun \/ MakeDataDir \/ CreateLog \/ LogLine \/ StoreEntity
  \/ EndRun \/ DeleteBuild \/ LoadToDelete \/ RemoveDir \/ Forget
  \/ \E r \in Reader : GetBuildLog(r) \/ Load(r) \/ Stat(r) \/ ReadFile(r)

Spec == Init /\ [][Next]_vars

-----------------------------------------------------------------------------
(* Properties. *)

\* To a client that nobody deletes the build under, the log only grows: once it has got
\* lines of the build every later answer has as many at least.
LogOnlyGrows ==
  dpc = "none" =>
    \A r \in Reader : \A i, j \in DOMAIN seen[r] :
      i < j /\ seen[r][i].is = "lines" =>
        seen[r][j].is = "lines" /\ seen[r][j].n >= seen[r][i].n

\* The log of a build that has returned, and was not deleted, is there to be read: the
\* entry leads to the file, unless the handler's InitPipeline came after all of Run.
LogIsKept ==
  pc = "returned" /\ lines > 0 /\ dpc = "none" /\ ~tooLate => file /\ entity = "run"
=============================================================================
