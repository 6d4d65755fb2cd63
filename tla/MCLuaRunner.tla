---------------------------- MODULE MCLuaRunner ----------------------------
(* Three scripts: two of one build, one after the other, beside one of another. *)
EXTENDS LuaRunner

CONSTANTS s1, s2, t1, b1, b2

TwoBuilds == s1 :> b1 @@ s2 :> b1 @@ t1 :> b2
FR2 == INSTANCE FlowRunner
         WITH kind <- "Lua", ctx <- ctx[s2], late <- late[s2], ret <- ret[s2]
FRT == INSTANCE FlowRunner
         WITH kind <- "Lua", ctx <- ctx[t1], late <- late[t1], ret <- ret[t1]

\* The runner does what the processor takes for granted of it; in particular a script
\* that waits for an answer returns when its own build's context ends.
ImplementsFlowRunner == FR2!FairSpec /\ FRT!FairSpec
=============================================================================
