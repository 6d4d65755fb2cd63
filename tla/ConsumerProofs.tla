--------------------------- MODULE ConsumerProofs ---------------------------
(***************************************************************************)
(* The path of a message is safe for any number of workers, any capacity   *)
(* and any set of messages: IInv, which adds to TypeOK and OnePlace what a *)
(* worker holds at each point of its loop, is inductive.  The properties   *)
(* of Consumer follow from it, and so does the implementation of WorkQueue.*)
(***************************************************************************)
EXTENDS Consumer, TLAPS

Elems(s) == {s[i] : i \in DOMAIN s}

Distinct(s) == \A i, j \in DOMAIN s : s[i] = s[j] => i = j

\* A worker holds a message exactly while it runs it or puts it back.
HeldMatchesPc ==
  \A w \in Worker :
    /\ msg[w] # NoMsg <=> pc[w] \in {"run", "retry"}
    /\ pc[w] = "retry" => msg[w] \in Malformed

IInv == TypeOK /\ HeldMatchesPc /\ OnePlace

-----------------------------------------------------------------------------
(* Sequences as the channel uses them, and the messages in workers' hands.  *)

\* Append adds its element, and keeps the elements distinct if it is new.
LEMMA AppendElems ==
  ASSUME NEW S, NEW s \in Seq(S), NEW m \in S
  PROVE  /\ Elems(Append(s, m)) = Elems(s) \cup {m}
         /\ Distinct(s) /\ m \notin Elems(s) => Distinct(Append(s, m))
<1> DEFINE t == Append(s, m)
<1>1. /\ DOMAIN s = 1 .. Len(s) /\ Len(s) \in Nat
      /\ DOMAIN t = 1 .. Len(s) + 1
      /\ \A i \in 1 .. Len(s) : t[i] = s[i]
      /\ t[Len(s) + 1] = m
  OBVIOUS
<1>2. Elems(t) = Elems(s) \cup {m}
  <2>1. Elems(t) \subseteq Elems(s) \cup {m}
    BY <1>1 DEF Elems
  <2>2. Elems(s) \subseteq Elems(t)
    <3> SUFFICES ASSUME NEW i \in 1 .. Len(s) PROVE s[i] \in Elems(t)
      BY <1>1 DEF Elems
    <3>1. i \in 1 .. Len(s) + 1
      BY <1>1
    <3> QED
      BY <3>1, <1>1 DEF Elems
  <2>3. m \in Elems(t)
    <3>1. Len(s) + 1 \in 1 .. Len(s) + 1
      BY <1>1
    <3> QED
      BY <3>1, <1>1 DEF Elems
  <2> QED
    BY <2>1, <2>2, <2>3
<1>3. ASSUME Distinct(s), m \notin Elems(s) PROVE Distinct(t)
  <2> SUFFICES ASSUME NEW i \in DOMAIN t, NEW j \in DOMAIN t, t[i] = t[j]
               PROVE  i = j
    BY DEF Distinct
  <2>1. \A k \in 1 .. Len(s) : s[k] # m
    BY <1>1, <1>3 DEF Elems
  <2>2. CASE i \in 1 .. Len(s) /\ j \in 1 .. Len(s)
    BY <2>2, <1>1, <1>3 DEF Distinct
  <2>3. CASE i = Len(s) + 1 /\ j \in 1 .. Len(s)
    BY <2>3, <2>1, <1>1
  <2>4. CASE i \in 1 .. Len(s) /\ j = Len(s) + 1
    BY <2>4, <2>1, <1>1
  <2>5. CASE i = Len(s) + 1 /\ j = Len(s) + 1
    BY <2>5
  <2> QED
    BY <2>2, <2>3, <2>4, <2>5, <1>1
<1> QED
  BY <1>2, <1>3

\* Taking the head of distinct elements removes exactly it.
LEMMA TailElems ==
  ASSUME NEW S, NEW s \in Seq(S), s # <<>>, Distinct(s)
  PROVE  /\ Head(s) \in Elems(s)
         /\ Elems(Tail(s)) = Elems(s) \ {Head(s)}
         /\ Distinct(Tail(s))
<1> DEFINE t == Tail(s)
<1>1. /\ DOMAIN s = 1 .. Len(s) /\ Len(s) \in Nat \ {0}
      /\ DOMAIN t = 1 .. Len(s) - 1
      /\ \A i \in 1 .. Len(s) - 1 : t[i] = s[i + 1]
      /\ Head(s) = s[1]
  OBVIOUS
<1>2. 1 \in DOMAIN s
  BY <1>1
<1>3. \A i \in 1 .. Len(s) - 1 : i + 1 \in DOMAIN s /\ i + 1 # 1
  BY <1>1
<1>4. \A i \in DOMAIN s : i # 1 => i - 1 \in 1 .. Len(s) - 1 /\ s[i] = t[i - 1]
  BY <1>1
<1>5. Elems(t) \subseteq Elems(s) \ {Head(s)}
  BY <1>1, <1>2, <1>3 DEF Elems, Distinct
<1>6. Elems(s) \ {Head(s)} \subseteq Elems(t)
  <2> SUFFICES ASSUME NEW i \in DOMAIN s, s[i] # Head(s) PROVE s[i] \in Elems(t)
    BY DEF Elems
  <2>1. i # 1
    BY <1>1
  <2>2. i - 1 \in DOMAIN t /\ s[i] = t[i - 1]
    BY <2>1, <1>1, <1>4
  <2> QED
    BY <2>2 DEF Elems
<1>7. Distinct(t)
  <2> SUFFICES ASSUME NEW i \in DOMAIN t, NEW j \in DOMAIN t, t[i] = t[j]
               PROVE  i = j
    BY DEF Distinct
  <2>1. i + 1 \in DOMAIN s /\ j + 1 \in DOMAIN s /\ s[i + 1] = s[j + 1]
    BY <1>1, <1>3
  <2>2. i + 1 = j + 1
    BY <2>1 DEF Distinct
  <2> QED
    BY <2>2, <1>1
<1> QED
  BY <1>1, <1>2, <1>5, <1>6, <1>7 DEF Elems

\* What a Push and a Pop do to the channel's contents.
LEMMA PushBuffers ==
  ASSUME QueueTypeOK, Distinct(queueCh), NEW m \in Message, m \notin Buffered, PushAccepts(m)
  PROVE  QueueTypeOK' /\ Distinct(queueCh)' /\ Buffered' = Buffered \cup {m}
<1>1. queueCh \in Seq(Message) /\ queueCh' = Append(queueCh, m) /\ Buffered = Elems(queueCh)
  BY DEF QueueTypeOK, PushAccepts, Buffered, Elems
<1>2. Elems(queueCh') = Elems(queueCh) \cup {m} /\ Distinct(queueCh')
  BY <1>1, AppendElems
<1>3. queueCh' \in Seq(Message) /\ Len(queueCh') = Len(queueCh) + 1 /\ Len(queueCh) \in Nat
  BY <1>1
<1>4. QueueTypeOK'
  BY <1>3, CapAssumption DEF QueueTypeOK, PushAccepts, HasRoom
<1> QED
  BY <1>1, <1>2, <1>4 DEF Buffered, Elems, Distinct

LEMMA PopUnbuffers ==
  ASSUME QueueTypeOK, Distinct(queueCh), NEW m, PopDelivers(m)
  PROVE  /\ QueueTypeOK' /\ Distinct(queueCh)'
         /\ m \in Buffered /\ m \in Message /\ Buffered' = Buffered \ {m}
<1>1. /\ queueCh \in Seq(Message) /\ queueCh # <<>>
      /\ queueCh' = Tail(queueCh) /\ m = Head(queueCh) /\ Buffered = Elems(queueCh)
  BY DEF QueueTypeOK, PopDelivers, Buffered, Elems
<1>2. /\ m \in Elems(queueCh)
      /\ Elems(queueCh') = Elems(queueCh) \ {m} /\ Distinct(queueCh')
  BY <1>1, TailElems
<1>3. /\ queueCh' \in Seq(Message) /\ m \in Message
      /\ Len(queueCh') = Len(queueCh) - 1 /\ Len(queueCh) \in Nat
  BY <1>1
<1>4. QueueTypeOK'
  BY <1>3, CapAssumption DEF QueueTypeOK, PopDelivers
<1> QED
  BY <1>1, <1>2, <1>3, <1>4 DEF Buffered, Elems, Distinct

\* What taking and letting go of a message do to the set of held ones.
LEMMA TakeHolds ==
  ASSUME TypeOK, HeldMatchesPc, NEW w \in Worker, msg[w] = NoMsg,
         NEW m \in Message, msg' = [msg EXCEPT ![w] = m]
  PROVE  Held' = Held \cup {m}
<1>1. \A v \in Worker : msg'[v] = IF v = w THEN m ELSE msg[v]
  BY DEF TypeOK
<1> QED
  BY <1>1, ConsumerAssumption DEF Held

LEMMA LetGoUnholds ==
  ASSUME TypeOK, OnePlace, NEW w \in Worker, msg[w] # NoMsg,
         msg' = [msg EXCEPT ![w] = NoMsg]
  PROVE  msg[w] \in Held /\ Held' = Held \ {msg[w]}
<1>1. \A v \in Worker : msg'[v] = IF v = w THEN NoMsg ELSE msg[v]
  BY DEF TypeOK
<1>2. \A v \in Worker : msg[v] = msg[w] => v = w
  BY DEF OnePlace
<1> QED
  BY <1>1, <1>2 DEF Held

-----------------------------------------------------------------------------
(* The steps.  Each preserves IInv and is a step of WorkQueue, or none.     *)

WQStep == [WQ!WQNext]_WQ!wqVars

\* A step that moves no message keeps OnePlace and is a stutter of WorkQueue.
LEMMA Unmoved ==
  ASSUME OnePlace, UNCHANGED <<queueCh, msg, done, dropped>>, Accepted' = Accepted
  PROVE  OnePlace' /\ WQStep
<1>1. Buffered' = Buffered /\ Held' = Held
  BY DEF Buffered, Held
<1>2. WQStep
  BY <1>1 DEF WQStep, WQ!wqVars
<1>3. OnePlace'
  BY <1>1 DEF OnePlace
<1> QED
  BY <1>2, <1>3

LEMMA ReceiveBuildStep ==
  ASSUME IInv, NEW m \in Message, ReceiveBuild(m)
  PROVE  IInv' /\ WQStep
<1>1. TypeOK'
  BY DEF IInv, TypeOK, QueueTypeOK, ReceiveBuild, queueVars, workerVars
<1>2. HeldMatchesPc'
  BY DEF IInv, HeldMatchesPc, ReceiveBuild, workerVars
<1>3. Accepted' = Accepted
  BY DEF IInv, TypeOK, Accepted, ReceiveBuild
<1>4. OnePlace' /\ WQStep
  BY <1>3, Unmoved DEF IInv, ReceiveBuild, queueVars, workerVars
<1> QED
  BY <1>1, <1>2, <1>4 DEF IInv

LEMMA BuildAcceptedStep ==
  ASSUME IInv, NEW m \in Message, BuildAccepted(m)
  PROVE  IInv' /\ WQStep
<1> USE DEF IInv
<1>1. m \notin Accepted
  BY DEF BuildAccepted, Accepted
<1>2. m \notin Buffered \cup Held \cup done \cup dropped
  BY <1>1 DEF OnePlace
<1>3. QueueTypeOK' /\ Distinct(queueCh)' /\ Buffered' = Buffered \cup {m}
  BY <1>2, PushBuffers DEF BuildAccepted, TypeOK, OnePlace, Distinct
<1>4. Held' = Held /\ UNCHANGED <<main, srv, pc, msg, done, dropped, lateRuns>>
  BY DEF BuildAccepted, workerVars, Held
<1>5. Accepted' = Accepted \cup {m}
  BY DEF BuildAccepted, Accepted, TypeOK
<1>6. TypeOK'
  BY <1>3, <1>4 DEF TypeOK, BuildAccepted
<1>7. HeldMatchesPc'
  BY <1>4 DEF HeldMatchesPc
<1>8. OnePlace'
  BY <1>2, <1>3, <1>4, <1>5 DEF OnePlace, Distinct
<1>9. WQ!Accept(m)
  BY <1>2, <1>3, <1>4 DEF WQ!Accept, WQ!Fresh
<1> QED
  BY <1>6, <1>7, <1>8, <1>9 DEF WQStep, WQ!WQNext

LEMMA BuildRejectedStep ==
  ASSUME IInv, NEW m \in Message, EmptyBuild(m) \/ BuildRefused(m) \/ BuildPanics(m)
  PROVE  IInv' /\ WQStep
<1> USE DEF IInv, EmptyBuild, BuildRefused, BuildPanics, PushRefuses, PushPanics, queueVars, workerVars
<1>1. TypeOK'
  BY DEF TypeOK, QueueTypeOK
<1>2. HeldMatchesPc'
  BY DEF HeldMatchesPc
<1>3. Accepted' = Accepted
  BY DEF TypeOK, Accepted
<1>4. OnePlace' /\ WQStep
  BY <1>3, Unmoved
<1> QED
  BY <1>1, <1>2, <1>4

LEMMA PopMessageStep ==
  ASSUME IInv, NEW w \in Worker, PopMessage(w)
  PROVE  IInv' /\ WQStep
<1> USE DEF IInv
<1>1. PICK m \in Message : PopDelivers(m) /\ msg' = [msg EXCEPT ![w] = m]
  BY DEF PopMessage
<1>2. /\ QueueTypeOK' /\ Distinct(queueCh)'
      /\ m \in Buffered /\ Buffered' = Buffered \ {m}
  BY <1>1, PopUnbuffers DEF TypeOK, OnePlace, Distinct
<1>3. msg[w] = NoMsg /\ pc' = [pc EXCEPT ![w] = "run"]
  BY DEF HeldMatchesPc, PopMessage, Goto
<1>4. Held' = Held \cup {m}
  BY <1>1, <1>3, TakeHolds
<1>5. UNCHANGED <<main, srv, req, done, dropped>> /\ Accepted' = Accepted
  BY DEF PopMessage, Accepted
<1>6. TypeOK'
  <2>1. lateRuns' \in [Worker -> Nat]
    BY DEF PopMessage, TypeOK
  <2> QED
    BY <1>1, <1>2, <1>3, <1>5, <2>1 DEF TypeOK
<1>7. HeldMatchesPc'
  BY <1>1, <1>3, ConsumerAssumption DEF HeldMatchesPc, TypeOK
<1>8. m \notin Held
  BY <1>2 DEF OnePlace
<1>9. \A u, v \in Worker : msg'[u] = msg'[v] /\ msg'[u] # NoMsg => u = v
  BY <1>1, <1>8, ConsumerAssumption DEF OnePlace, Held, TypeOK
<1>10. OnePlace'
  BY <1>2, <1>4, <1>5, <1>8, <1>9 DEF OnePlace, Distinct
<1>11. WQ!Take(m)
  BY <1>2, <1>4, <1>5 DEF WQ!Take
<1> QED
  BY <1>1, <1>6, <1>7, <1>10, <1>11 DEF WQStep, WQ!WQNext

\* The worker steps that leave every message where it is.
LEMMA IdleWorkerStep ==
  ASSUME IInv, NEW w \in Worker,
         CheckContext(w) \/ PopClosed(w) \/ RunAsksRetry(w) \/ RequeuePanics(w)
  PROVE  IInv' /\ WQStep
<1> USE DEF IInv, CheckContext, PopClosed, PopFails, RunAsksRetry, RequeuePanics,
            PushPanics, Goto, queueVars, workerVars
<1>1. TypeOK'
  BY DEF TypeOK, QueueTypeOK
<1>2. HeldMatchesPc'
  BY DEF HeldMatchesPc, TypeOK, WantsRetry
<1>3. Accepted' = Accepted
  BY DEF Accepted
<1>4. OnePlace' /\ WQStep
  BY <1>3, Unmoved
<1> QED
  BY <1>1, <1>2, <1>4

\* A worker that lets go of its message: what remains true wherever it goes.
LEMMA LetGoKeeps ==
  ASSUME IInv, NEW w \in Worker, msg[w] # NoMsg,
         msg' = [msg EXCEPT ![w] = NoMsg], Goto(w, "loop")
  PROVE  /\ msg[w] \in Message /\ msg[w] \in Held /\ Held' = Held \ {msg[w]}
         /\ HeldMatchesPc'
         /\ msg' \in [Worker -> Message \cup {NoMsg}]
         /\ pc' \in [Worker -> {"loop", "pop", "run", "retry", "exited"}]
         /\ \A u, v \in Worker : msg'[u] = msg'[v] /\ msg'[u] # NoMsg => u = v
<1> USE DEF IInv
<1>1. msg[w] \in Held /\ Held' = Held \ {msg[w]}
  BY LetGoUnholds
<1>2. HeldMatchesPc'
  BY DEF HeldMatchesPc, TypeOK, Goto
<1>3. \A u, v \in Worker : msg'[u] = msg'[v] /\ msg'[u] # NoMsg => u = v
  BY DEF OnePlace, TypeOK
<1> QED
  BY <1>1, <1>2, <1>3 DEF TypeOK, Goto

LEMMA RunFinishesStep ==
  ASSUME IInv, NEW w \in Worker, RunFinishes(w)
  PROVE  IInv' /\ WQStep
<1> USE DEF IInv
<1>1. msg[w] # NoMsg /\ done' = done \cup {msg[w]}
  BY DEF HeldMatchesPc, RunFinishes
<1>2. UNCHANGED <<queueCh, closed, main, srv, req, dropped, lateRuns>>
  BY DEF RunFinishes, queueVars
<1>3. /\ msg[w] \in Message /\ msg[w] \in Held /\ Held' = Held \ {msg[w]}
      /\ HeldMatchesPc'
      /\ msg' \in [Worker -> Message \cup {NoMsg}]
      /\ pc' \in [Worker -> {"loop", "pop", "run", "retry", "exited"}]
      /\ \A u, v \in Worker : msg'[u] = msg'[v] /\ msg'[u] # NoMsg => u = v
  BY <1>1, LetGoKeeps DEF RunFinishes
<1>4. Buffered' = Buffered /\ Accepted' = Accepted
  BY <1>2 DEF Buffered, Accepted
<1>5. TypeOK'
  BY <1>1, <1>2, <1>3 DEF TypeOK, QueueTypeOK
<1>6. OnePlace'
  BY <1>1, <1>2, <1>3, <1>4 DEF OnePlace
<1>7. WQ!Finish(msg[w])
  BY <1>1, <1>2, <1>3, <1>4 DEF WQ!Finish
<1> QED
  BY <1>3, <1>5, <1>6, <1>7 DEF WQStep, WQ!WQNext

LEMMA RequeueStep ==
  ASSUME IInv, NEW w \in Worker, Requeue(w)
  PROVE  IInv' /\ WQStep
<1> USE DEF IInv
<1>1. msg[w] # NoMsg /\ msg[w] \in Malformed
  BY DEF HeldMatchesPc, Requeue
<1>2. UNCHANGED <<main, srv, req, done, dropped, lateRuns>> /\ Accepted' = Accepted
  BY DEF Requeue, Accepted
<1>3. /\ msg[w] \in Message /\ msg[w] \in Held /\ Held' = Held \ {msg[w]}
      /\ HeldMatchesPc'
      /\ msg' \in [Worker -> Message \cup {NoMsg}]
      /\ pc' \in [Worker -> {"loop", "pop", "run", "retry", "exited"}]
      /\ \A u, v \in Worker : msg'[u] = msg'[v] /\ msg'[u] # NoMsg => u = v
  BY <1>1, LetGoKeeps DEF Requeue
<1>4. msg[w] \notin Buffered
  BY <1>3 DEF OnePlace
<1>5. QueueTypeOK' /\ Distinct(queueCh)' /\ Buffered' = Buffered \cup {msg[w]}
  BY <1>3, <1>4, PushBuffers DEF Requeue, TypeOK, OnePlace, Distinct
<1>6. TypeOK'
  BY <1>2, <1>3, <1>5 DEF TypeOK
<1>7. OnePlace'
  BY <1>2, <1>3, <1>5 DEF OnePlace, Distinct
<1>8. WQ!PutBack(msg[w])
  BY <1>1, <1>2, <1>3, <1>5 DEF WQ!PutBack
<1> QED
  BY <1>3, <1>6, <1>7, <1>8 DEF WQStep, WQ!WQNext

LEMMA RequeueRefusedStep ==
  ASSUME IInv, NEW w \in Worker, RequeueRefused(w)
  PROVE  IInv' /\ WQStep
<1> USE DEF IInv
<1>1. msg[w] # NoMsg /\ msg[w] \in Malformed /\ dropped' = dropped \cup {msg[w]}
  BY DEF HeldMatchesPc, RequeueRefused
<1>2. UNCHANGED <<queueCh, closed, main, srv, req, done, lateRuns>>
  BY DEF RequeueRefused, PushRefuses, queueVars
<1>3. /\ msg[w] \in Message /\ msg[w] \in Held /\ Held' = Held \ {msg[w]}
      /\ HeldMatchesPc'
      /\ msg' \in [Worker -> Message \cup {NoMsg}]
      /\ pc' \in [Worker -> {"loop", "pop", "run", "retry", "exited"}]
      /\ \A u, v \in Worker : msg'[u] = msg'[v] /\ msg'[u] # NoMsg => u = v
  BY <1>1, LetGoKeeps DEF RequeueRefused
<1>4. Buffered' = Buffered /\ Accepted' = Accepted
  BY <1>2 DEF Buffered, Accepted
<1>5. TypeOK'
  BY <1>1, <1>2, <1>3 DEF TypeOK, QueueTypeOK
<1>6. OnePlace'
  BY <1>1, <1>2, <1>3, <1>4 DEF OnePlace
<1>7. WQ!Lose(msg[w])
  BY <1>1, <1>2, <1>3, <1>4 DEF WQ!Lose
<1> QED
  BY <1>3, <1>5, <1>6, <1>7 DEF WQStep, WQ!WQNext

LEMMA MainStep ==
  ASSUME IInv, Cancel \/ Shutdown
  PROVE  IInv' /\ WQStep
<1> USE DEF IInv, Cancel, Shutdown, CloseQueue, QueueClose, StopWeb, DrainGrpc, StopGrpc, Exit,
            queueVars, workerVars
<1>1. TypeOK'
  BY DEF TypeOK, QueueTypeOK, Server
<1>2. HeldMatchesPc'
  BY DEF HeldMatchesPc
<1>3. Accepted' = Accepted
  BY DEF Accepted
<1>4. OnePlace' /\ WQStep
  BY <1>3, Unmoved
<1> QED
  BY <1>1, <1>2, <1>4

-----------------------------------------------------------------------------
(* The theorems. *)

LEMMA InitEstablishes == Init => IInv /\ WQ!WQInit
<1> SUFFICES ASSUME Init PROVE IInv /\ WQ!WQInit
  OBVIOUS
<1> USE DEF Init, QueueInit
<1>1. queueCh \in Seq(Message) /\ Len(queueCh) = 0 /\ DOMAIN queueCh = {}
  OBVIOUS
<1>2. TypeOK
  <2>1. QueueTypeOK
    <3>1. 0 <= Cap
      BY CapAssumption
    <3>2. Len(queueCh) <= Cap
      BY <1>1, <3>1
    <3>3. queueCh \in Seq(Message) /\ closed \in BOOLEAN
      BY <1>1
    <3> QED
      BY <3>2, <3>3 DEF QueueTypeOK
  <2>2. req \in [Message -> {"none", "handling", "accepted", "refused", "panicked"}]
    OBVIOUS
  <2>3. /\ pc \in [Worker -> {"loop", "pop", "run", "retry", "exited"}]
        /\ msg \in [Worker -> Message \cup {NoMsg}]
        /\ srv \in [Server -> {"up", "draining", "down"}]
    OBVIOUS
  <2> QED
    BY <2>1, <2>2, <2>3 DEF TypeOK
<1>3. HeldMatchesPc
  BY DEF HeldMatchesPc
<1>4. Buffered = {} /\ Held = {} /\ Accepted = {}
  BY <1>1 DEF Buffered, Held, Accepted
<1>5. OnePlace
  BY <1>1, <1>4 DEF OnePlace
<1> QED
  BY <1>2, <1>3, <1>4, <1>5 DEF IInv, WQ!WQInit

LEMMA NextPreserves == IInv /\ [Next]_vars => IInv' /\ WQStep
<1> SUFFICES ASSUME IInv, [Next]_vars PROVE IInv' /\ WQStep
  OBVIOUS
<1>1. CASE UNCHANGED vars
  <2>1. Accepted' = Accepted
    BY <1>1 DEF vars, Accepted
  <2>2. OnePlace' /\ WQStep
    BY <1>1, <2>1, Unmoved DEF vars, IInv
  <2>3. TypeOK' /\ HeldMatchesPc'
    BY <1>1 DEF vars, IInv, TypeOK, QueueTypeOK, HeldMatchesPc
  <2> QED
    BY <2>2, <2>3 DEF IInv
<1>2. ASSUME NEW m \in Message, ReceiveBuild(m) \/ HandleBuild(m) PROVE IInv' /\ WQStep
  BY <1>2, ReceiveBuildStep, BuildAcceptedStep, BuildRejectedStep DEF HandleBuild
<1>3. ASSUME NEW w \in Worker, WorkerStep(w) PROVE IInv' /\ WQStep
  BY <1>3, PopMessageStep, IdleWorkerStep, RunFinishesStep, RequeueStep, RequeueRefusedStep
     DEF WorkerStep
<1>4. CASE Cancel \/ Shutdown
  BY <1>4, MainStep
<1> QED
  BY <1>1, <1>2, <1>3, <1>4 DEF Next

\* The inductive invariant holds in every reachable state.
THEOREM Inductive == Spec => []IInv
<1>1. Init => IInv
  BY InitEstablishes
<1>2. IInv /\ [Next]_vars => IInv'
  BY NextPreserves
<1> QED
  BY <1>1, <1>2, PTL DEF Spec

\* Every variable keeps its type; in particular the channel never holds more
\* messages than its capacity (queue/channel.go).
THEOREM TypeCorrect == Spec => []TypeOK
<1>1. IInv => TypeOK
  BY DEF IInv
<1> QED
  BY <1>1, Inductive, PTL

\* An accepted message is in exactly one place: buffered, held by one worker,
\* finished or dropped (queue/channel.go, consumer/consumer.go).
THEOREM NoMessageTwice == Spec => []OnePlace
<1>1. IInv => OnePlace
  BY DEF IInv
<1> QED
  BY <1>1, Inductive, PTL

\* The channel, the workers and the shutdown implement the abstract work queue.
THEOREM Refinement == Spec => ImplementsWorkQueue
<1>1. Init => WQ!WQInit
  BY InitEstablishes
<1>2. IInv /\ [Next]_vars => [WQ!WQNext]_WQ!wqVars
  BY NextPreserves DEF WQStep
<1> QED
  BY <1>1, <1>2, Inductive, PTL DEF Spec, ImplementsWorkQueue, WQ!WQSpec

\* On a message's path the process is brought down only by a gRPC request without a
\* pipeline and by a Push that meets the closed queue.
THEOREM CrashHasCause == Spec => []CrashCause
<1>1. Init => CrashCause
  BY DEF Init, CrashCause
<1>2. CrashCause /\ [Next]_vars => CrashCause'
  <2> SUFFICES ASSUME CrashCause, [Next]_vars, main' = "crashed"
               PROVE  CrashCause'
    BY DEF CrashCause
  <2>1. CASE UNCHANGED vars
    BY <2>1 DEF vars, CrashCause, Handling, Front
  <2>2. ASSUME Alive, NEW m \in Message, BuildPanics(m) PROVE CrashCause'
    <3>1. m \in Grpc
      BY <2>2 DEF BuildPanics, Recovered, Alive
    <3>2. closed /\ closed' = closed /\ req' = req /\ req[m] = "handling"
      BY <2>2, <3>1 DEF BuildPanics, Recovered, PushPanics, queueVars
    <3> QED
      BY <3>1, <3>2 DEF CrashCause, Handling, Front
  <2>3. ASSUME Alive, NEW m \in Message, m \in Empty, EmptyBuild(m) PROVE CrashCause'
    <3>1. m \in Grpc /\ req' = req /\ req[m] = "handling"
      BY <2>3 DEF EmptyBuild, Alive
    <3> QED
      BY <2>3, <3>1 DEF CrashCause, Handling, Front
  <2>4. ASSUME NEW w \in Worker, RequeuePanics(w) PROVE CrashCause'
    BY <2>4 DEF RequeuePanics, PushPanics, queueVars, workerVars, CrashCause
  <2> QED
    BY <2>1, <2>2, <2>3, <2>4 DEF Next, Alive, ReceiveBuild, HandleBuild, BuildAccepted,
       BuildRefused, WorkerStep, CheckContext, PopMessage, PopClosed, RunAsksRetry, RunFinishes,
       Requeue, RequeueRefused, Cancel, Shutdown, CloseQueue, StopWeb, DrainGrpc, StopGrpc, Exit,
       queueVars
<1> QED
  BY <1>1, <1>2, PTL DEF Spec

\* When main exits, no accepted build is half done.
THEOREM ExitIsClean == Spec => []ExitLeavesNoRun
<1>1. Init => ExitLeavesNoRun
  BY DEF Init, ExitLeavesNoRun
<1>2. IInv /\ ExitLeavesNoRun /\ [Next]_vars => ExitLeavesNoRun'
  <2> SUFFICES ASSUME IInv, ExitLeavesNoRun, [Next]_vars, main' = "exited"
               PROVE  ExitLeavesNoRun'
    BY DEF ExitLeavesNoRun
  <2>1. CASE UNCHANGED vars
    BY <2>1 DEF vars, ExitLeavesNoRun, Accepted, Buffered
  <2>2. CASE Exit
    <3>1. Held = {}
      BY <2>2 DEF Exit, AllStopped, IInv, HeldMatchesPc, Held
    <3>2. Accepted = Buffered \cup done \cup dropped
      BY <3>1 DEF IInv, OnePlace
    <3> QED
      BY <2>2, <3>2 DEF Exit, queueVars, workerVars, ExitLeavesNoRun, Accepted, Buffered
  <2> QED
    BY <2>1, <2>2 DEF Next, Alive, ReceiveBuild, HandleBuild, EmptyBuild, BuildAccepted, BuildRefused, BuildPanics,
       WorkerStep, CheckContext, PopMessage, PopClosed, RunAsksRetry, RunFinishes, Requeue,
       RequeueRefused, RequeuePanics, Cancel, Shutdown, CloseQueue, StopWeb, DrainGrpc, StopGrpc
<1> QED
  BY <1>1, <1>2, Inductive, PTL DEF Spec

\* A worker that began a run after the cancellation is past Pop for good: the
\* context is consulted again before the next one.
LateOnce ==
  \A w \in Worker :
    \/ lateRuns[w] = 0
    \/ lateRuns[w] = 1 /\ main # "running" /\ pc[w] # "pop"

\* After the root context is canceled a worker begins at most one more run
\* (consumer/consumer.go).
THEOREM ShutdownIsBounded == Spec => []ShutdownBounded
<1>1. Init => LateOnce
  BY DEF Init, LateOnce
<1>2. IInv /\ LateOnce /\ [Next]_vars => LateOnce'
  <2> SUFFICES ASSUME IInv, LateOnce, [Next]_vars, NEW v \in Worker
               PROVE  \/ lateRuns'[v] = 0
                      \/ lateRuns'[v] = 1 /\ main' # "running" /\ pc'[v] # "pop"
    BY DEF LateOnce
  <2> DEFINE Late == lateRuns[v] = 1 /\ main # "running" /\ pc[v] # "pop"
  <2>1. lateRuns[v] = 0 \/ Late
    BY DEF LateOnce
  <2>2. CASE UNCHANGED vars
    BY <2>1, <2>2 DEF vars
  <2>3. CASE Next
    <3>1. main' # "running" \/ main = "running"
      BY <2>3 DEF Next, ReceiveBuild, HandleBuild, EmptyBuild, BuildAccepted, BuildRefused,
         BuildPanics, Cancel, Shutdown, CloseQueue, StopWeb, DrainGrpc, StopGrpc, Exit,
         WorkerStep, CheckContext, PopMessage, PopClosed, RunAsksRetry, RunFinishes,
         Requeue, RequeueRefused, RequeuePanics
    <3>2. CASE UNCHANGED <<pc, lateRuns>>
      BY <3>1, <3>2, <2>1
    <3>3. ASSUME NEW w \in Worker, CheckContext(w) PROVE UNCHANGED lateRuns /\ (Late => pc'[v] # "pop")
      BY <3>3, <2>3 DEF CheckContext, Goto, CtxDone, IInv, TypeOK, Next, Alive
    <3>4. ASSUME NEW w \in Worker, PopMessage(w)
          PROVE  \/ lateRuns'[v] = 0
                 \/ lateRuns'[v] = 1 /\ main' # "running" /\ pc'[v] # "pop"
      <4>1. pc[w] = "pop" /\ pc' = [pc EXCEPT ![w] = "run"] /\ main' = main
        BY <3>4 DEF PopMessage, Goto
      <4>2. lateRuns' = IF CtxDone THEN [lateRuns EXCEPT ![w] = lateRuns[w] + 1] ELSE lateRuns
        BY <3>4 DEF PopMessage
      <4>3. lateRuns \in [Worker -> Nat] /\ pc'[v] \in {"run", pc[v]}
        BY <4>1 DEF IInv, TypeOK
      <4>4. CASE w = v
        BY <4>1, <4>2, <4>3, <4>4, <2>1 DEF CtxDone, IInv, TypeOK
      <4>5. CASE w # v
        BY <4>1, <4>2, <4>3, <4>5, <2>1 DEF IInv, TypeOK
      <4> QED
        BY <4>4, <4>5
    <3>5. ASSUME NEW w \in Worker,
                 PopClosed(w) \/ RunAsksRetry(w) \/ RunFinishes(w) \/ Requeue(w)
                   \/ RequeueRefused(w) \/ RequeuePanics(w)
          PROVE  UNCHANGED lateRuns /\ (pc'[v] = "pop" => pc[v] = "pop")
      BY <3>5 DEF PopClosed, RunAsksRetry, RunFinishes, Requeue, RequeueRefused, RequeuePanics,
         workerVars, Goto, IInv, TypeOK
    <3>6. ASSUME NEW w \in Worker, WorkerStep(w)
          PROVE  \/ lateRuns'[v] = 0
                 \/ lateRuns'[v] = 1 /\ main' # "running" /\ pc'[v] # "pop"
      BY <3>6, <3>1, <3>3, <3>4, <3>5, <2>1 DEF WorkerStep
    <3> QED
      BY <2>3, <3>2, <3>6 DEF Next, ReceiveBuild, HandleBuild, EmptyBuild, BuildAccepted,
         BuildRefused, BuildPanics, Cancel, Shutdown, CloseQueue, StopWeb, DrainGrpc, StopGrpc,
         Exit, workerVars
  <2> QED
    BY <2>2, <2>3
<1>3. LateOnce => ShutdownBounded
  <2> SUFFICES ASSUME LateOnce, NEW w \in Worker PROVE lateRuns[w] <= 1
    BY DEF ShutdownBounded
  <2>1. lateRuns[w] = 0 \/ lateRuns[w] = 1
    BY DEF LateOnce
  <2> QED
    BY <2>1
<1> QED
  BY <1>1, <1>2, <1>3, Inductive, PTL DEF Spec
=============================================================================
