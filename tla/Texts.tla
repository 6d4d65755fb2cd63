------------------------------- MODULE Texts -------------------------------
(***************************************************************************)
(* The three sequential parts that turn data into text and back: the job   *)
(* logger, the JSON functions of the Lua module and the process            *)
(* environment.  They share no state, so a behaviour is one of a single    *)
(* part, chosen at the start; the others stay as they are.                 *)
(***************************************************************************)
EXTENDS JobLogger, LuaJson, ProcessContext

VARIABLE part  \* which one it is

textsVars == <<part, loggerVars, jsonVars, contextVars>>

NoJson == arg = None /\ json = None /\ back = None /\ errMsg = FALSE

NoContext ==
  /\ at = "done" /\ env = <<>> /\ flows = 0 /\ script = FALSE
  /\ raw = FALSE /\ template = <<>> /\ used = <<>>

TextsInit ==
  /\ LoggerInit
  /\ \/ part = "logger" /\ NoJson /\ NoContext
     \/ part = "json" /\ JsonInit /\ NoContext
     \/ part = "context" /\ NoJson /\ ContextInit

TextsNext ==
  \/ part = "logger" /\ LoggerNext /\ UNCHANGED <<part, jsonVars, contextVars>>
  \/ part = "json" /\ JsonNext /\ UNCHANGED <<part, loggerVars, contextVars>>
  \/ part = "context" /\ ContextNext /\ UNCHANGED <<part, loggerVars, jsonVars>>

TextsSpec == TextsInit /\ [][TextsNext]_textsVars
=============================================================================
