-------------------------- MODULE DaemonRunsProofs --------------------------
(***************************************************************************)
(* Proofs about DaemonRuns, for any sessions, slots and number of faults:  *)
(* the types, that no two discoveries run at once, which cancellations can *)
(* reach a discovery before it starts, that an outcome the server has not  *)
(* taken is not lost, and that daemon and server implement DiscoveryWorker.*)
(***************************************************************************)
EXTENDS DaemonRuns, TLAPS

\* Only the task that has the manager's token can be alive, and once
\* initiate_session is over it is the current task; nothing runs while a new
\* one is prepared, nor while the daemon waits for an answer to a request that
\* said it was ready.
Single ==
    /\ \A r \in Slots : Alive(r) => r = holder
    /\ loop # "spawned" => \A r \in Slots : Alive(r) => r = task
    /\ loop \in Preparing => \A r \in Slots : ~ Alive(r)
    /\ loop \in {"asked", "answered"} /\ ready => \A r \in Slots : ~ Alive(r)
    /\ loop = "answered" /\ order # None => ready

\* The token of a task that is gone is not kept.
Tokens == \A r \in cancelled : r = None \/ Alive(r)

\* While no task has the manager's token it is being prepared for one, or no
\* cancellation has passed its check.  Those that can still cancel it had
\* passed theirs before it was made, and if it is cancelled there was one.
Fresh ==
    /\ loop \in Preparing => holder = None
    /\ \A s \in Sessions :
          holder = None /\ <<s, "checked">> \in posted => loop \in Preparing /\ s \in racing
    /\ None \in cancelled => loop \in Preparing /\ racing # {}

\* A running task has a session, and from its initialisation to its end that
\* is the current session.
Working ==
    /\ \A r \in Slots : Alive(r) => doing[r] \in Sessions
    /\ \A r \in Slots :
          pc[r] \in {"started", "scanning", "failing", "report", "store"} => session = doing[r]

\* The outcome a task is about to report was decided for its session.
Finishing ==
    \A r \in Slots :
        pc[r] \in {"report", "store"} => outcome[r] # "none" /\ <<doing[r], outcome[r]>> \in decided

\* So was every outcome that is kept for a poll or on its way in a response.
Reported ==
    /\ terminal # NoReport => terminal \in decided
    /\ progress[2] \in Outcomes => progress \in decided

Sending == loop \in {"send", "spawned"} \union Preparing => order # None

Reporting == Working /\ Finishing /\ Reported /\ Sending

IInv == TypeOK /\ Single /\ Tokens /\ Fresh /\ Reporting

-----------------------------------------------------------------------------
(***************************************************************************)
(* Types.                                                                  *)
(***************************************************************************)

\* The type invariant in parts, one for each group of variables that the
\* actions change together.
ServerTypes ==
    /\ server \in [Sessions -> ServerStates]
    /\ recorded \in SUBSET (Sessions \X Outcomes)

CancelTypes ==
    /\ flag \in Sessions \union {None}
    /\ asked \in SUBSET Sessions
    /\ posted \in SUBSET (Sessions \X {"flag", "sent", "checked"})
    /\ stall \in Sessions \union {None}

LoopTypes ==
    /\ loop \in LoopStates
    /\ ready \in BOOLEAN
    /\ order \in Sessions \union {None}
    /\ stop \in BOOLEAN

ProgressTypes == progress \in Reports

TaskTypes ==
    /\ task \in Slots \union {None}
    /\ pc \in [Slots -> TaskStates]
    /\ doing \in [Slots -> Sessions \union {None}]
    /\ holder \in Slots \union {None}
    /\ cancelled \in SUBSET (Slots \union {None})
    /\ racing \in SUBSET Sessions

RunTypes ==
    /\ outcome \in [Slots -> Outcomes \union {"none"}]
    /\ session \in Sessions \union {None}
    /\ terminal \in {NoReport} \union (Sessions \X Outcomes)
    /\ decided \in SUBSET (Sessions \X Outcomes)

OtherTypes == mode \in AllModes /\ faults \in 0 .. MaxFaults

\* TypeOK, in the parts that the actions touch together.
LEMMA TypeParts ==
    TypeOK <=> /\ ServerTypes /\ CancelTypes /\ LoopTypes /\ ProgressTypes
               /\ TaskTypes /\ RunTypes /\ OtherTypes
BY DEF TypeOK, ServerTypes, CancelTypes, LoopTypes, ProgressTypes, TaskTypes, RunTypes,
   OtherTypes

\* The same of the next state.
LEMMA TypePartsPrimed ==
    ASSUME ServerTypes', CancelTypes', LoopTypes', ProgressTypes', TaskTypes', RunTypes', OtherTypes'
    PROVE  TypeOK'
BY DEF TypeOK, ServerTypes, CancelTypes, LoopTypes, ProgressTypes, TaskTypes, RunTypes,
   OtherTypes

\* update_session changes four variables and keeps their types.
LEMMA UpdateTypes ==
    ASSUME ServerTypes, CancelTypes, NEW s \in Sessions,
           NEW phase \in {"Scanning"} \union Outcomes, UpdateSession(s, phase)
    PROVE  /\ ServerTypes'
           /\ flag' \in Sessions \union {None}
           /\ posted' \in SUBSET (Sessions \X {"flag", "sent", "checked"})
<1>1. CASE phase \notin Outcomes
  BY <1>1 DEF ServerTypes, CancelTypes, UpdateSession, ServerStates, Live
<1>2. CASE phase \in Outcomes /\ server[s] = "ended"
  BY <1>2 DEF ServerTypes, CancelTypes, UpdateSession
<1>3. CASE phase \in Outcomes /\ server[s] # "ended"
  BY <1>3 DEF ServerTypes, CancelTypes, UpdateSession, CancelEvent, ServerStates
<1>q. QED BY <1>1, <1>2, <1>3

\* A post to the server leaves the server and what it answers typed.
LEMMA PostTypes ==
    ASSUME ServerTypes, CancelTypes, NEW s \in Sessions,
           NEW phase \in {"Scanning"} \union Outcomes, Post(s, phase)
    PROVE  /\ ServerTypes'
           /\ flag' \in Sessions \union {None}
           /\ posted' \in SUBSET (Sessions \X {"flag", "sent", "checked"})
BY UpdateTypes DEF Post, ServerTypes, CancelTypes

\* get_pending_work hands out a session or none.
LEMMA PickTypes ==
    ASSUME ServerTypes, UNCHANGED recorded, PickWork
    PROVE  ServerTypes' /\ order' \in Sessions \union {None}
BY DEF ServerTypes, PickWork, ServerStates, Live

\* A task is spawned in a free slot, with the manager's token.
LEMMA SpawnFills ==
    ASSUME Spawn
    PROVE  \E r \in Slots :
              /\ ~ Alive(r)
              /\ holder' = r
              /\ pc' = [pc EXCEPT ![r] = "setup"]
              /\ doing' = [doing EXCEPT ![r] = order]
              /\ cancelled' = (cancelled \ {None}) \union (IF None \in cancelled THEN {r} ELSE {})
BY DEF Spawn

\* Every step keeps the types.
LEMMA TypeStep ==
    ASSUME TypeOK, Finishing, [Next]_vars
    PROVE  TypeOK'
<1>1. CASE UNCHANGED vars
  BY <1>1 DEF TypeOK, serverVars, cancelVars, loopVars, taskVars, tokenVars, runVars, vars
<1>2. ASSUME NEW s \in Sessions, CancelSession(s) PROVE TypeOK'
  <2>0. ServerTypes /\ CancelTypes /\ LoopTypes /\ ProgressTypes /\ TaskTypes /\ RunTypes /\ OtherTypes
    BY TypeParts
  <2>1. ServerTypes'
    BY <1>2, <2>0 DEF ServerTypes, CancelSession, serverVars
  <2>2. CancelTypes'
    BY <1>2, <2>0 DEF CancelTypes, CancelSession, cancelVars, RequestCancellation,
       CancelEvent
  <2>3. LoopTypes'
    BY <1>2, <2>0 DEF LoopTypes, CancelSession, loopVars
  <2>4. ProgressTypes'
    BY <1>2, <2>0 DEF ProgressTypes, CancelSession, loopVars
  <2>5. TaskTypes'
    BY <1>2, <2>0 DEF TaskTypes, CancelSession, taskVars, tokenVars
  <2>6. RunTypes'
    BY <1>2, <2>0 DEF RunTypes, CancelSession, runVars
  <2>7. OtherTypes'
    BY <1>2, <2>0 DEF OtherTypes, CancelSession
  <2>q. QED BY <2>1, <2>2, <2>3, <2>4, <2>5, <2>6, <2>7, TypePartsPrimed
<1>3. ASSUME NEW s \in Sessions, SetFlag(s) PROVE TypeOK'
  <2>0. ServerTypes /\ CancelTypes /\ LoopTypes /\ ProgressTypes /\ TaskTypes /\ RunTypes /\ OtherTypes
    BY TypeParts
  <2>1. ServerTypes'
    BY <1>3, <2>0 DEF ServerTypes, SetFlag, serverVars
  <2>2. CancelTypes'
    BY <1>3, <2>0 DEF CancelTypes, SetFlag, cancelVars
  <2>3. LoopTypes'
    BY <1>3, <2>0 DEF LoopTypes, SetFlag, loopVars
  <2>4. ProgressTypes'
    BY <1>3, <2>0 DEF ProgressTypes, SetFlag, loopVars
  <2>5. TaskTypes'
    BY <1>3, <2>0 DEF TaskTypes, SetFlag, taskVars, tokenVars
  <2>6. RunTypes'
    BY <1>3, <2>0 DEF RunTypes, SetFlag, runVars
  <2>7. OtherTypes'
    BY <1>3, <2>0 DEF OtherTypes, SetFlag
  <2>q. QED BY <2>1, <2>2, <2>3, <2>4, <2>5, <2>6, <2>7, TypePartsPrimed
<1>4. ASSUME NEW s \in Sessions, CancelCheck(s) PROVE TypeOK'
  <2>0. ServerTypes /\ CancelTypes /\ LoopTypes /\ ProgressTypes /\ TaskTypes /\ RunTypes /\ OtherTypes
    BY TypeParts
  <2>1. ServerTypes'
    BY <1>4, <2>0 DEF ServerTypes, CancelCheck, serverVars
  <2>2. CancelTypes'
    BY <1>4, <2>0 DEF CancelTypes, CancelCheck, cancelVars
  <2>3. LoopTypes'
    BY <1>4, <2>0 DEF LoopTypes, CancelCheck, loopVars
  <2>4. ProgressTypes'
    BY <1>4, <2>0 DEF ProgressTypes, CancelCheck, loopVars
  <2>5. TaskTypes'
    BY <1>4, <2>0 DEF TaskTypes, CancelCheck, taskVars, tokenVars
  <2>6. RunTypes'
    BY <1>4, <2>0 DEF RunTypes, CancelCheck, runVars
  <2>7. OtherTypes'
    BY <1>4, <2>0 DEF OtherTypes, CancelCheck
  <2>q. QED BY <2>1, <2>2, <2>3, <2>4, <2>5, <2>6, <2>7, TypePartsPrimed
<1>5. ASSUME NEW s \in Sessions, CancelSignal(s) PROVE TypeOK'
  <2>0. ServerTypes /\ CancelTypes /\ LoopTypes /\ ProgressTypes /\ TaskTypes /\ RunTypes /\ OtherTypes
    BY TypeParts
  <2>1. ServerTypes'
    BY <1>5, <2>0 DEF ServerTypes, CancelSignal, serverVars
  <2>2. CancelTypes'
    BY <1>5, <2>0 DEF CancelTypes, CancelSignal, cancelVars
  <2>3. LoopTypes'
    BY <1>5, <2>0 DEF LoopTypes, CancelSignal, loopVars
  <2>4. ProgressTypes'
    BY <1>5, <2>0 DEF ProgressTypes, CancelSignal, loopVars
  <2>5. TaskTypes'
    BY <1>5, <2>0 DEF TaskTypes, CancelSignal, taskVars, tokenVars, Token
  <2>6. RunTypes'
    BY <1>5, <2>0 DEF RunTypes, CancelSignal, runVars
  <2>7. OtherTypes'
    BY <1>5, <2>0, BoundAssumption DEF OtherTypes, CancelSignal, Fault
  <2>q. QED BY <2>1, <2>2, <2>3, <2>4, <2>5, <2>6, <2>7, TypePartsPrimed
<1>6. ASSUME NEW s \in Sessions, CancelLost(s) PROVE TypeOK'
  <2>0. ServerTypes /\ CancelTypes /\ LoopTypes /\ ProgressTypes /\ TaskTypes /\ RunTypes /\ OtherTypes
    BY TypeParts
  <2>1. ServerTypes'
    BY <1>6, <2>0 DEF ServerTypes, CancelLost, serverVars
  <2>2. CancelTypes'
    BY <1>6, <2>0 DEF CancelTypes, CancelLost, cancelVars
  <2>3. LoopTypes'
    BY <1>6, <2>0 DEF LoopTypes, CancelLost, loopVars
  <2>4. ProgressTypes'
    BY <1>6, <2>0 DEF ProgressTypes, CancelLost, loopVars
  <2>5. TaskTypes'
    BY <1>6, <2>0 DEF TaskTypes, CancelLost, taskVars, tokenVars
  <2>6. RunTypes'
    BY <1>6, <2>0 DEF RunTypes, CancelLost, runVars
  <2>7. OtherTypes'
    BY <1>6, <2>0, BoundAssumption DEF OtherTypes, CancelLost, Fault
  <2>q. QED BY <2>1, <2>2, <2>3, <2>4, <2>5, <2>6, <2>7, TypePartsPrimed
<1>7. ASSUME NEW s \in Sessions, StallBegin(s) PROVE TypeOK'
  <2>0. ServerTypes /\ CancelTypes /\ LoopTypes /\ ProgressTypes /\ TaskTypes /\ RunTypes /\ OtherTypes
    BY TypeParts
  <2>1. ServerTypes'
    BY <1>7, <2>0 DEF ServerTypes, StallBegin, serverVars
  <2>2. CancelTypes'
    BY <1>7, <2>0 DEF CancelTypes, StallBegin, cancelVars, RequestCancellation, CancelEvent
  <2>3. LoopTypes'
    BY <1>7, <2>0 DEF LoopTypes, StallBegin, loopVars
  <2>4. ProgressTypes'
    BY <1>7, <2>0 DEF ProgressTypes, StallBegin, loopVars
  <2>5. TaskTypes'
    BY <1>7, <2>0 DEF TaskTypes, StallBegin, taskVars, tokenVars
  <2>6. RunTypes'
    BY <1>7, <2>0 DEF RunTypes, StallBegin, runVars
  <2>7. OtherTypes'
    BY <1>7, <2>0 DEF OtherTypes, StallBegin
  <2>q. QED BY <2>1, <2>2, <2>3, <2>4, <2>5, <2>6, <2>7, TypePartsPrimed
<1>8. ASSUME StallEnd PROVE TypeOK'
  <2>0. ServerTypes /\ CancelTypes /\ LoopTypes /\ ProgressTypes /\ TaskTypes /\ RunTypes /\ OtherTypes
    BY TypeParts
  <2>1. ServerTypes'
    BY <1>8, <2>0, CancelTypes DEF ServerTypes, StallEnd, serverVars, ServerStates, Live,
       Outcomes, CancelTypes
  <2>2. CancelTypes'
    BY <1>8, <2>0 DEF CancelTypes, StallEnd, cancelVars
  <2>3. LoopTypes'
    BY <1>8, <2>0 DEF LoopTypes, StallEnd, loopVars
  <2>4. ProgressTypes'
    BY <1>8, <2>0 DEF ProgressTypes, StallEnd, loopVars
  <2>5. TaskTypes'
    BY <1>8, <2>0 DEF TaskTypes, StallEnd, taskVars, tokenVars
  <2>6. RunTypes'
    BY <1>8, <2>0 DEF RunTypes, StallEnd, runVars
  <2>7. OtherTypes'
    BY <1>8, <2>0 DEF OtherTypes, StallEnd
  <2>q. QED BY <2>1, <2>2, <2>3, <2>4, <2>5, <2>6, <2>7, TypePartsPrimed
<1>9. ASSUME PollStatus PROVE TypeOK'
  <2>0. ServerTypes /\ CancelTypes /\ LoopTypes /\ ProgressTypes /\ TaskTypes /\ RunTypes /\ OtherTypes
    BY TypeParts
  <2>1. ServerTypes'
    BY <1>9, <2>0 DEF ServerTypes, PollStatus, serverVars
  <2>2. CancelTypes'
    BY <1>9, <2>0 DEF CancelTypes, PollStatus, cancelVars
  <2>3. LoopTypes'
    BY <1>9, <2>0 DEF LoopTypes, PollStatus, loopVars, LoopStates, Running, Alive
  <2>4. ProgressTypes'
    BY <1>9, <2>0 DEF ProgressTypes, PollStatus, loopVars
  <2>5. TaskTypes'
    BY <1>9, <2>0 DEF TaskTypes, PollStatus, taskVars, tokenVars
  <2>6. RunTypes'
    BY <1>9, <2>0 DEF RunTypes, PollStatus, runVars
  <2>7. OtherTypes'
    BY <1>9, <2>0 DEF OtherTypes, PollStatus
  <2>q. QED BY <2>1, <2>2, <2>3, <2>4, <2>5, <2>6, <2>7, TypePartsPrimed
<1>10. ASSUME PollServe PROVE TypeOK'
  <2>0. ServerTypes /\ CancelTypes /\ LoopTypes /\ ProgressTypes /\ TaskTypes /\ RunTypes /\ OtherTypes
    BY TypeParts
  <2>1. ServerTypes'
    BY <1>10, <2>0 DEF ServerTypes, PollServe, serverVars
  <2>2. CancelTypes'
    BY <1>10, <2>0 DEF CancelTypes, PollServe, cancelVars
  <2>3. LoopTypes'
    BY <1>10, <2>0 DEF LoopTypes, PollServe, loopVars, LoopStates
  <2>4. ProgressTypes'
    BY <1>10, <2>0 DEF ProgressTypes, PollServe, loopVars, GetProgress, Reports, NoReport,
       RunTypes
  <2>5. TaskTypes'
    BY <1>10, <2>0 DEF TaskTypes, PollServe, taskVars, tokenVars
  <2>6. RunTypes'
    BY <1>10, <2>0 DEF RunTypes, PollServe, runVars
  <2>7. OtherTypes'
    BY <1>10, <2>0 DEF OtherTypes, PollServe
  <2>q. QED BY <2>1, <2>2, <2>3, <2>4, <2>5, <2>6, <2>7, TypePartsPrimed
<1>11. ASSUME PollLost PROVE TypeOK'
  <2>0. ServerTypes /\ CancelTypes /\ LoopTypes /\ ProgressTypes /\ TaskTypes /\ RunTypes /\ OtherTypes
    BY TypeParts
  <2>1. ServerTypes'
    BY <1>11, <2>0 DEF ServerTypes, PollLost, serverVars
  <2>2. CancelTypes'
    BY <1>11, <2>0 DEF CancelTypes, PollLost, cancelVars
  <2>3. LoopTypes'
    BY <1>11, <2>0 DEF LoopTypes, PollLost, loopVars, LoopStates
  <2>4. ProgressTypes'
    BY <1>11, <2>0 DEF ProgressTypes, PollLost, loopVars, Reports
  <2>5. TaskTypes'
    BY <1>11, <2>0 DEF TaskTypes, PollLost, taskVars, tokenVars
  <2>6. RunTypes'
    BY <1>11, <2>0 DEF RunTypes, PollLost, runVars
  <2>7. OtherTypes'
    BY <1>11, <2>0, BoundAssumption DEF OtherTypes, PollLost, Fault
  <2>q. QED BY <2>1, <2>2, <2>3, <2>4, <2>5, <2>6, <2>7, TypePartsPrimed
<1>12. ASSUME PollReceive PROVE TypeOK'
  <2>0. ServerTypes /\ CancelTypes /\ LoopTypes /\ ProgressTypes /\ TaskTypes /\ RunTypes /\ OtherTypes
    BY TypeParts
  <2>1. ServerTypes'
    <3>1. CASE progress = NoReport BY <1>12, <2>0, <3>1 DEF ServerTypes, PollReceive
    <3>2. CASE progress # NoReport
      <4>1. progress[1] \in Sessions /\ progress[2] \in {"Scanning"} \union Outcomes
        BY <2>0, <3>2 DEF ProgressTypes, Reports
      <4>q. QED BY <1>12, <2>0, <3>2, <4>1, UpdateTypes DEF PollReceive
    <3>q. QED BY <3>1, <3>2
  <2>2. CancelTypes'
    <3>1. CASE progress = NoReport BY <1>12, <2>0, <3>1 DEF CancelTypes, PollReceive
    <3>2. CASE progress # NoReport
      <4>1. progress[1] \in Sessions /\ progress[2] \in {"Scanning"} \union Outcomes
        BY <2>0, <3>2 DEF ProgressTypes, Reports
      <4>q. QED BY <1>12, <2>0, <3>2, <4>1, UpdateTypes DEF PollReceive, CancelTypes
    <3>q. QED BY <3>1, <3>2
  <2>3. LoopTypes'
    BY <1>12, <2>0 DEF LoopTypes, PollReceive, loopVars, LoopStates
  <2>4. ProgressTypes'
    BY <1>12, <2>0 DEF ProgressTypes, PollReceive, loopVars
  <2>5. TaskTypes'
    BY <1>12, <2>0 DEF TaskTypes, PollReceive, taskVars, tokenVars
  <2>6. RunTypes'
    BY <1>12, <2>0 DEF RunTypes, PollReceive, runVars
  <2>7. OtherTypes'
    BY <1>12, <2>0 DEF OtherTypes, PollReceive
  <2>q. QED BY <2>1, <2>2, <2>3, <2>4, <2>5, <2>6, <2>7, TypePartsPrimed
<1>13. ASSUME PollWork PROVE TypeOK'
  <2>0. ServerTypes /\ CancelTypes /\ LoopTypes /\ ProgressTypes /\ TaskTypes /\ RunTypes /\ OtherTypes
    BY TypeParts
  <2>1. ServerTypes'
    BY <1>13, <2>0, PickTypes DEF ServerTypes, PollWork, serverVars
  <2>2. CancelTypes'
    BY <1>13, <2>0 DEF CancelTypes, PollWork, cancelVars
  <2>3. LoopTypes'
    BY <1>13, <2>0, PickTypes DEF LoopTypes, PollWork, loopVars, LoopStates
  <2>4. ProgressTypes'
    BY <1>13, <2>0 DEF ProgressTypes, PollWork, loopVars, Reports
  <2>5. TaskTypes'
    BY <1>13, <2>0 DEF TaskTypes, PollWork, taskVars, tokenVars
  <2>6. RunTypes'
    BY <1>13, <2>0 DEF RunTypes, PollWork, runVars
  <2>7. OtherTypes'
    BY <1>13, <2>0 DEF OtherTypes, PollWork
  <2>q. QED BY <2>1, <2>2, <2>3, <2>4, <2>5, <2>6, <2>7, TypePartsPrimed
<1>14. ASSUME InitiateServe PROVE TypeOK'
  <2>0. ServerTypes /\ CancelTypes /\ LoopTypes /\ ProgressTypes /\ TaskTypes /\ RunTypes /\ OtherTypes
    BY TypeParts
  <2>1. ServerTypes'
    BY <1>14, <2>0 DEF ServerTypes, InitiateServe, serverVars
  <2>2. CancelTypes'
    BY <1>14, <2>0 DEF CancelTypes, InitiateServe, cancelVars
  <2>3. LoopTypes'
    BY <1>14, <2>0 DEF LoopTypes, InitiateServe, LoopStates, Preparing
  <2>4. ProgressTypes'
    BY <1>14, <2>0 DEF ProgressTypes, InitiateServe
  <2>5. TaskTypes'
    BY <1>14, <2>0 DEF TaskTypes, InitiateServe, NewToken, taskVars
  <2>6. RunTypes'
    BY <1>14, <2>0 DEF RunTypes, InitiateServe, runVars
  <2>7. OtherTypes'
    BY <1>14, <2>0 DEF OtherTypes, InitiateServe
  <2>q. QED BY <2>1, <2>2, <2>3, <2>4, <2>5, <2>6, <2>7, TypePartsPrimed
<1>15. ASSUME InitiateLost PROVE TypeOK'
  <2>0. ServerTypes /\ CancelTypes /\ LoopTypes /\ ProgressTypes /\ TaskTypes /\ RunTypes /\ OtherTypes
    BY TypeParts
  <2>1. ServerTypes'
    BY <1>15, <2>0 DEF ServerTypes, InitiateLost, serverVars
  <2>2. CancelTypes'
    BY <1>15, <2>0 DEF CancelTypes, InitiateLost, cancelVars
  <2>3. LoopTypes'
    BY <1>15, <2>0 DEF LoopTypes, InitiateLost, loopVars, LoopStates
  <2>4. ProgressTypes'
    BY <1>15, <2>0 DEF ProgressTypes, InitiateLost, loopVars
  <2>5. TaskTypes'
    BY <1>15, <2>0 DEF TaskTypes, InitiateLost, taskVars, tokenVars
  <2>6. RunTypes'
    BY <1>15, <2>0 DEF RunTypes, InitiateLost, runVars
  <2>7. OtherTypes'
    BY <1>15, <2>0, BoundAssumption DEF OtherTypes, InitiateLost, Fault
  <2>q. QED BY <2>1, <2>2, <2>3, <2>4, <2>5, <2>6, <2>7, TypePartsPrimed
<1>16. ASSUME RequestWork PROVE TypeOK'
  <2>0. ServerTypes /\ CancelTypes /\ LoopTypes /\ ProgressTypes /\ TaskTypes /\ RunTypes /\ OtherTypes
    BY TypeParts
  <2>1. ServerTypes'
    BY <1>16, <2>0 DEF ServerTypes, RequestWork, serverVars
  <2>2. CancelTypes'
    BY <1>16, <2>0 DEF CancelTypes, RequestWork, cancelVars
  <2>3. LoopTypes'
    BY <1>16, <2>0 DEF LoopTypes, RequestWork, loopVars, LoopStates, Running, Alive
  <2>4. ProgressTypes'
    BY <1>16, <2>0 DEF ProgressTypes, RequestWork, loopVars
  <2>5. TaskTypes'
    BY <1>16, <2>0 DEF TaskTypes, RequestWork, taskVars, tokenVars
  <2>6. RunTypes'
    BY <1>16, <2>0 DEF RunTypes, RequestWork, runVars
  <2>7. OtherTypes'
    BY <1>16, <2>0 DEF OtherTypes, RequestWork
  <2>q. QED BY <2>1, <2>2, <2>3, <2>4, <2>5, <2>6, <2>7, TypePartsPrimed
<1>17. ASSUME AnswerWork PROVE TypeOK'
  <2>0. ServerTypes /\ CancelTypes /\ LoopTypes /\ ProgressTypes /\ TaskTypes /\ RunTypes /\ OtherTypes
    BY TypeParts
  <2>1. ServerTypes'
    BY <1>17, <2>0, PickTypes DEF ServerTypes, AnswerWork, serverVars
  <2>2. CancelTypes'
    BY <1>17, <2>0 DEF CancelTypes, AnswerWork, cancelVars
  <2>3. LoopTypes'
    BY <1>17, <2>0, PickTypes DEF LoopTypes, AnswerWork, loopVars, LoopStates
  <2>4. ProgressTypes'
    BY <1>17, <2>0 DEF ProgressTypes, AnswerWork, loopVars
  <2>5. TaskTypes'
    BY <1>17, <2>0 DEF TaskTypes, AnswerWork, taskVars, tokenVars
  <2>6. RunTypes'
    BY <1>17, <2>0 DEF RunTypes, AnswerWork, runVars
  <2>7. OtherTypes'
    BY <1>17, <2>0 DEF OtherTypes, AnswerWork
  <2>q. QED BY <2>1, <2>2, <2>3, <2>4, <2>5, <2>6, <2>7, TypePartsPrimed
<1>18. ASSUME AnswerLost PROVE TypeOK'
  <2>0. ServerTypes /\ CancelTypes /\ LoopTypes /\ ProgressTypes /\ TaskTypes /\ RunTypes /\ OtherTypes
    BY TypeParts
  <2>1. ServerTypes'
    BY <1>18, <2>0 DEF ServerTypes, AnswerLost, serverVars
  <2>2. CancelTypes'
    BY <1>18, <2>0 DEF CancelTypes, AnswerLost, cancelVars
  <2>3. LoopTypes'
    BY <1>18, <2>0 DEF LoopTypes, AnswerLost, loopVars, LoopStates
  <2>4. ProgressTypes'
    BY <1>18, <2>0 DEF ProgressTypes, AnswerLost, loopVars
  <2>5. TaskTypes'
    BY <1>18, <2>0 DEF TaskTypes, AnswerLost, taskVars, tokenVars
  <2>6. RunTypes'
    BY <1>18, <2>0 DEF RunTypes, AnswerLost, runVars
  <2>7. OtherTypes'
    BY <1>18, <2>0, BoundAssumption DEF OtherTypes, AnswerLost, Fault
  <2>q. QED BY <2>1, <2>2, <2>3, <2>4, <2>5, <2>6, <2>7, TypePartsPrimed
<1>19. ASSUME FollowOrders PROVE TypeOK'
  <2>0. ServerTypes /\ CancelTypes /\ LoopTypes /\ ProgressTypes /\ TaskTypes /\ RunTypes /\ OtherTypes
    BY TypeParts
  <2>1. ServerTypes'
    BY <1>19, <2>0 DEF ServerTypes, FollowOrders, serverVars
  <2>2. CancelTypes'
    BY <1>19, <2>0 DEF CancelTypes, FollowOrders, cancelVars
  <2>3. LoopTypes'
    BY <1>19, <2>0 DEF LoopTypes, FollowOrders, LoopStates, Preparing
  <2>4. ProgressTypes'
    BY <1>19, <2>0 DEF ProgressTypes, FollowOrders
  <2>5. TaskTypes'
    BY <1>19, <2>0 DEF TaskTypes, FollowOrders, NewToken, Token, taskVars
  <2>6. RunTypes'
    BY <1>19, <2>0 DEF RunTypes, FollowOrders, runVars
  <2>7. OtherTypes'
    BY <1>19, <2>0 DEF OtherTypes, FollowOrders
  <2>q. QED BY <2>1, <2>2, <2>3, <2>4, <2>5, <2>6, <2>7, TypePartsPrimed
<1>20. ASSUME NEW r \in Slots, RunAborts(r) PROVE TypeOK'
  <2>0. ServerTypes /\ CancelTypes /\ LoopTypes /\ ProgressTypes /\ TaskTypes /\ RunTypes /\ OtherTypes
    BY TypeParts
  <2>1. ServerTypes'
    BY <1>20, <2>0 DEF ServerTypes, RunAborts, serverVars
  <2>2. CancelTypes'
    BY <1>20, <2>0 DEF CancelTypes, RunAborts, cancelVars
  <2>3. LoopTypes'
    BY <1>20, <2>0 DEF LoopTypes, RunAborts, loopVars
  <2>4. ProgressTypes'
    BY <1>20, <2>0 DEF ProgressTypes, RunAborts, loopVars
  <2>5. TaskTypes'
    BY <1>20, <2>0 DEF TaskTypes, RunAborts, taskVars, tokenVars, Return, TaskStates
  <2>6. RunTypes'
    BY <1>20, <2>0 DEF RunTypes, RunAborts, runVars, Return
  <2>7. OtherTypes'
    BY <1>20, <2>0 DEF OtherTypes, RunAborts
  <2>q. QED BY <2>1, <2>2, <2>3, <2>4, <2>5, <2>6, <2>7, TypePartsPrimed
<1>21. ASSUME NEW r \in Slots, RunSetupFails(r) PROVE TypeOK'
  <2>0. ServerTypes /\ CancelTypes /\ LoopTypes /\ ProgressTypes /\ TaskTypes /\ RunTypes /\ OtherTypes
    BY TypeParts
  <2>1. ServerTypes'
    BY <1>21, <2>0 DEF ServerTypes, RunSetupFails, serverVars
  <2>2. CancelTypes'
    BY <1>21, <2>0 DEF CancelTypes, RunSetupFails, cancelVars
  <2>3. LoopTypes'
    BY <1>21, <2>0 DEF LoopTypes, RunSetupFails, loopVars
  <2>4. ProgressTypes'
    BY <1>21, <2>0 DEF ProgressTypes, RunSetupFails, loopVars
  <2>5. TaskTypes'
    BY <1>21, <2>0 DEF TaskTypes, RunSetupFails, taskVars, tokenVars, Goto, TaskStates
  <2>6. RunTypes'
    BY <1>21, <2>0 DEF RunTypes, RunSetupFails, runVars, InitializeSession, TaskTypes
  <2>7. OtherTypes'
    BY <1>21, <2>0 DEF OtherTypes, RunSetupFails
  <2>q. QED BY <2>1, <2>2, <2>3, <2>4, <2>5, <2>6, <2>7, TypePartsPrimed
<1>22. ASSUME NEW r \in Slots, RunStarts(r) PROVE TypeOK'
  <2>0. ServerTypes /\ CancelTypes /\ LoopTypes /\ ProgressTypes /\ TaskTypes /\ RunTypes /\ OtherTypes
    BY TypeParts
  <2>1. ServerTypes'
    BY <1>22, <2>0 DEF ServerTypes, RunStarts, serverVars
  <2>2. CancelTypes'
    BY <1>22, <2>0 DEF CancelTypes, RunStarts, cancelVars
  <2>3. LoopTypes'
    BY <1>22, <2>0 DEF LoopTypes, RunStarts, loopVars
  <2>4. ProgressTypes'
    BY <1>22, <2>0 DEF ProgressTypes, RunStarts, loopVars
  <2>5. TaskTypes'
    BY <1>22, <2>0 DEF TaskTypes, RunStarts, taskVars, tokenVars, Goto, TaskStates
  <2>6. RunTypes'
    BY <1>22, <2>0 DEF RunTypes, RunStarts, runVars, InitializeSession, TaskTypes
  <2>7. OtherTypes'
    BY <1>22, <2>0 DEF OtherTypes, RunStarts
  <2>q. QED BY <2>1, <2>2, <2>3, <2>4, <2>5, <2>6, <2>7, TypePartsPrimed
<1>23. ASSUME NEW r \in Slots, RunReports(r) PROVE TypeOK'
  <2>0. ServerTypes /\ CancelTypes /\ LoopTypes /\ ProgressTypes /\ TaskTypes /\ RunTypes /\ OtherTypes
    BY TypeParts
  <2>1. ServerTypes'
    <3>1. session \in Sessions /\ "Scanning" \in {"Scanning"} \union Outcomes /\ Post(session, "Scanning")
      BY <1>23, <2>0 DEF RunReports, RunTypes
    <3>q. QED BY <1>23, <2>0, <3>1, PostTypes DEF ServerTypes, RunReports
  <2>2. CancelTypes'
    <3>1. session \in Sessions /\ "Scanning" \in {"Scanning"} \union Outcomes /\ Post(session, "Scanning")
      BY <1>23, <2>0 DEF RunReports, RunTypes
    <3>q. QED BY <1>23, <2>0, <3>1, PostTypes DEF CancelTypes, RunReports
  <2>3. LoopTypes'
    BY <1>23, <2>0 DEF LoopTypes, RunReports, loopVars
  <2>4. ProgressTypes'
    BY <1>23, <2>0 DEF ProgressTypes, RunReports, loopVars
  <2>5. TaskTypes'
    BY <1>23, <2>0 DEF TaskTypes, RunReports, taskVars, tokenVars, Goto, TaskStates
  <2>6. RunTypes'
    BY <1>23, <2>0 DEF RunTypes, RunReports, runVars
  <2>7. OtherTypes'
    BY <1>23, <2>0 DEF OtherTypes, RunReports
  <2>q. QED BY <2>1, <2>2, <2>3, <2>4, <2>5, <2>6, <2>7, TypePartsPrimed
<1>24. ASSUME NEW r \in Slots, NEW ok \in BOOLEAN, RunFinishes(r, ok) PROVE TypeOK'
  <2>0. ServerTypes /\ CancelTypes /\ LoopTypes /\ ProgressTypes /\ TaskTypes /\ RunTypes /\ OtherTypes
    BY TypeParts
  <2>1. ServerTypes'
    BY <1>24, <2>0 DEF ServerTypes, RunFinishes, serverVars
  <2>2. CancelTypes'
    BY <1>24, <2>0 DEF CancelTypes, RunFinishes, cancelVars
  <2>3. LoopTypes'
    BY <1>24, <2>0 DEF LoopTypes, RunFinishes, loopVars
  <2>4. ProgressTypes'
    BY <1>24, <2>0 DEF ProgressTypes, RunFinishes, loopVars
  <2>5. TaskTypes'
    BY <1>24, <2>0 DEF TaskTypes, RunFinishes, taskVars, tokenVars, Goto, TaskStates
  <2>6. RunTypes'
    BY <1>24, <2>0 DEF RunTypes, RunFinishes, runVars, Outcomes
  <2>7. OtherTypes'
    BY <1>24, <2>0 DEF OtherTypes, RunFinishes
  <2>q. QED BY <2>1, <2>2, <2>3, <2>4, <2>5, <2>6, <2>7, TypePartsPrimed
<1>25. ASSUME NEW r \in Slots, RunPosts(r) PROVE TypeOK'
  <2>0. ServerTypes /\ CancelTypes /\ LoopTypes /\ ProgressTypes /\ TaskTypes /\ RunTypes /\ OtherTypes
    BY TypeParts
  <2>1. ServerTypes'
    <3>1. session \in Sessions /\ outcome[r] \in {"Scanning"} \union Outcomes /\ Post(session, outcome[r])
      BY <1>25, <2>0 DEF RunPosts, RunTypes, Finishing
    <3>q. QED BY <1>25, <2>0, <3>1, PostTypes DEF ServerTypes, RunPosts
  <2>2. CancelTypes'
    <3>1. session \in Sessions /\ outcome[r] \in {"Scanning"} \union Outcomes /\ Post(session, outcome[r])
      BY <1>25, <2>0 DEF RunPosts, RunTypes, Finishing
    <3>q. QED BY <1>25, <2>0, <3>1, PostTypes DEF CancelTypes, RunPosts
  <2>3. LoopTypes'
    BY <1>25, <2>0 DEF LoopTypes, RunPosts, loopVars
  <2>4. ProgressTypes'
    BY <1>25, <2>0 DEF ProgressTypes, RunPosts, loopVars
  <2>5. TaskTypes'
    BY <1>25, <2>0 DEF TaskTypes, RunPosts, taskVars, tokenVars, Goto, TaskStates
  <2>6. RunTypes'
    BY <1>25, <2>0 DEF RunTypes, RunPosts, runVars
  <2>7. OtherTypes'
    BY <1>25, <2>0 DEF OtherTypes, RunPosts
  <2>q. QED BY <2>1, <2>2, <2>3, <2>4, <2>5, <2>6, <2>7, TypePartsPrimed
<1>26. ASSUME NEW r \in Slots, RunStores(r) PROVE TypeOK'
  <2>0. ServerTypes /\ CancelTypes /\ LoopTypes /\ ProgressTypes /\ TaskTypes /\ RunTypes /\ OtherTypes
    BY TypeParts
  <2>1. ServerTypes'
    BY <1>26, <2>0 DEF ServerTypes, RunStores, serverVars
  <2>2. CancelTypes'
    BY <1>26, <2>0 DEF CancelTypes, RunStores, cancelVars
  <2>3. LoopTypes'
    BY <1>26, <2>0 DEF LoopTypes, RunStores, loopVars
  <2>4. ProgressTypes'
    BY <1>26, <2>0 DEF ProgressTypes, RunStores, loopVars
  <2>5. TaskTypes'
    BY <1>26, <2>0 DEF TaskTypes, RunStores, taskVars, tokenVars, Goto, TaskStates
  <2>6. RunTypes'
    BY <1>26, <2>0 DEF RunTypes, RunStores, runVars, Finishing
  <2>7. OtherTypes'
    BY <1>26, <2>0 DEF OtherTypes, RunStores
  <2>q. QED BY <2>1, <2>2, <2>3, <2>4, <2>5, <2>6, <2>7, TypePartsPrimed
<1>27. ASSUME NEW r \in Slots, RunExits(r) PROVE TypeOK'
  <2>0. ServerTypes /\ CancelTypes /\ LoopTypes /\ ProgressTypes /\ TaskTypes /\ RunTypes /\ OtherTypes
    BY TypeParts
  <2>1. ServerTypes'
    BY <1>27, <2>0 DEF ServerTypes, RunExits, serverVars
  <2>2. CancelTypes'
    BY <1>27, <2>0 DEF CancelTypes, RunExits, cancelVars
  <2>3. LoopTypes'
    BY <1>27, <2>0 DEF LoopTypes, RunExits, loopVars
  <2>4. ProgressTypes'
    BY <1>27, <2>0 DEF ProgressTypes, RunExits, loopVars
  <2>5. TaskTypes'
    BY <1>27, <2>0 DEF TaskTypes, RunExits, taskVars, tokenVars, Return, TaskStates
  <2>6. RunTypes'
    BY <1>27, <2>0 DEF RunTypes, RunExits, runVars, Return
  <2>7. OtherTypes'
    BY <1>27, <2>0 DEF OtherTypes, RunExits
  <2>q. QED BY <2>1, <2>2, <2>3, <2>4, <2>5, <2>6, <2>7, TypePartsPrimed
<1>28. ASSUME DaemonRestart PROVE TypeOK'
  <2>0. ServerTypes /\ CancelTypes /\ LoopTypes /\ ProgressTypes /\ TaskTypes /\ RunTypes /\ OtherTypes
    BY TypeParts
  <2>1. ServerTypes'
    BY <1>28, <2>0 DEF ServerTypes, DaemonRestart, serverVars
  <2>2. CancelTypes'
    BY <1>28, <2>0 DEF CancelTypes, DaemonRestart, cancelVars
  <2>3. LoopTypes'
    BY <1>28, <2>0 DEF LoopTypes, DaemonRestart, loopVars, LoopStates
  <2>4. ProgressTypes'
    BY <1>28, <2>0 DEF ProgressTypes, DaemonRestart, loopVars
  <2>5. TaskTypes'
    BY <1>28, <2>0 DEF TaskTypes, DaemonRestart, taskVars, tokenVars, TaskStates
  <2>6. RunTypes'
    BY <1>28, <2>0 DEF RunTypes, DaemonRestart, runVars
  <2>7. OtherTypes'
    BY <1>28, <2>0, BoundAssumption DEF OtherTypes, DaemonRestart, Fault
  <2>q. QED BY <2>1, <2>2, <2>3, <2>4, <2>5, <2>6, <2>7, TypePartsPrimed
<1>29. ASSUME ClearTask PROVE TypeOK'
  <2>0. ServerTypes /\ CancelTypes /\ LoopTypes /\ ProgressTypes /\ TaskTypes /\ RunTypes /\ OtherTypes
    BY TypeParts
  <2>1. ServerTypes'
    BY <1>29, <2>0 DEF ServerTypes, ClearTask, serverVars
  <2>2. CancelTypes'
    BY <1>29, <2>0 DEF CancelTypes, ClearTask, cancelVars
  <2>3. LoopTypes'
    BY <1>29, <2>0 DEF LoopTypes, ClearTask, LoopStates, Preparing
  <2>4. ProgressTypes'
    BY <1>29, <2>0 DEF ProgressTypes, ClearTask
  <2>5. TaskTypes'
    BY <1>29, <2>0 DEF TaskTypes, ClearTask, tokenVars
  <2>6. RunTypes'
    BY <1>29, <2>0 DEF RunTypes, ClearTask, runVars
  <2>7. OtherTypes'
    BY <1>29, <2>0 DEF OtherTypes, ClearTask
  <2>q. QED BY <2>1, <2>2, <2>3, <2>4, <2>5, <2>6, <2>7, TypePartsPrimed
<1>30. ASSUME Spawn PROVE TypeOK'
  <2>0. ServerTypes /\ CancelTypes /\ LoopTypes /\ ProgressTypes /\ TaskTypes /\ RunTypes /\ OtherTypes
    BY TypeParts
  <2>1. ServerTypes'
    BY <1>30, <2>0 DEF ServerTypes, Spawn, serverVars
  <2>2. CancelTypes'
    BY <1>30, <2>0 DEF CancelTypes, Spawn, cancelVars
  <2>3. LoopTypes'
    BY <1>30, <2>0 DEF LoopTypes, Spawn, LoopStates, Preparing
  <2>4. ProgressTypes'
    BY <1>30, <2>0 DEF ProgressTypes, Spawn
  <2>5. TaskTypes'
    BY <1>30, <2>0, SpawnFills DEF TaskTypes, LoopTypes, TaskStates, Spawn
  <2>6. RunTypes'
    BY <1>30, <2>0 DEF RunTypes, Spawn, runVars
  <2>7. OtherTypes'
    BY <1>30, <2>0 DEF OtherTypes, Spawn
  <2>q. QED BY <2>1, <2>2, <2>3, <2>4, <2>5, <2>6, <2>7, TypePartsPrimed
<1>31. ASSUME SetCurrentTask PROVE TypeOK'
  <2>0. ServerTypes /\ CancelTypes /\ LoopTypes /\ ProgressTypes /\ TaskTypes /\ RunTypes /\ OtherTypes
    BY TypeParts
  <2>1. ServerTypes'
    BY <1>31, <2>0 DEF ServerTypes, SetCurrentTask, serverVars
  <2>2. CancelTypes'
    BY <1>31, <2>0 DEF CancelTypes, SetCurrentTask, cancelVars
  <2>3. LoopTypes'
    BY <1>31, <2>0 DEF LoopTypes, SetCurrentTask, LoopStates, Preparing
  <2>4. ProgressTypes'
    BY <1>31, <2>0 DEF ProgressTypes, SetCurrentTask
  <2>5. TaskTypes'
    BY <1>31, <2>0 DEF TaskTypes, SetCurrentTask, tokenVars
  <2>6. RunTypes'
    BY <1>31, <2>0 DEF RunTypes, SetCurrentTask, runVars
  <2>7. OtherTypes'
    BY <1>31, <2>0, BoundAssumption DEF OtherTypes, SetCurrentTask, Fault
  <2>q. QED BY <2>1, <2>2, <2>3, <2>4, <2>5, <2>6, <2>7, TypePartsPrimed
<1>q. QED BY <1>1, <1>2, <1>3, <1>4, <1>5, <1>6, <1>7, <1>8, <1>9, <1>10, <1>11, <1>12,
             <1>13, <1>14, <1>15, <1>16, <1>17, <1>18, <1>19, <1>20, <1>21, <1>22, <1>23,
             <1>24, <1>25, <1>26, <1>27, <1>28, <1>29, <1>30, <1>31
          DEF Next, Cancel, ServerPoll, DaemonPoll, InitiateSession, Run

\* No step makes a second task alive.
LEMMA SingleStep ==
    ASSUME TypeOK, Single, [Next]_vars
    PROVE  Single'
<1>1. CASE UNCHANGED vars
  BY <1>1 DEF Single, Preparing, Alive, vars
<1>2. ASSUME NEW s \in Sessions, CancelSession(s) PROVE Single'
  BY <1>2, NoneAssumption DEF Single, Preparing, Alive, TypeOK, CancelSession, taskVars,
     tokenVars, loopVars
<1>3. ASSUME NEW s \in Sessions, SetFlag(s) PROVE Single'
  BY <1>3, NoneAssumption DEF Single, Preparing, Alive, TypeOK, SetFlag, taskVars,
     tokenVars, loopVars
<1>4. ASSUME NEW s \in Sessions, CancelCheck(s) PROVE Single'
  BY <1>4, NoneAssumption DEF Single, Preparing, Alive, TypeOK, CancelCheck, taskVars,
     tokenVars, loopVars
<1>5. ASSUME NEW s \in Sessions, CancelSignal(s) PROVE Single'
  BY <1>5, NoneAssumption DEF Single, Preparing, Alive, TypeOK, CancelSignal, taskVars,
     tokenVars, loopVars
<1>6. ASSUME NEW s \in Sessions, CancelLost(s) PROVE Single'
  BY <1>6, NoneAssumption DEF Single, Preparing, Alive, TypeOK, CancelLost, taskVars,
     tokenVars, loopVars
<1>7. ASSUME NEW s \in Sessions, StallBegin(s) PROVE Single'
  BY <1>7, NoneAssumption DEF Single, Preparing, Alive, TypeOK, StallBegin, taskVars,
     tokenVars, loopVars
<1>8. ASSUME StallEnd PROVE Single'
  BY <1>8, NoneAssumption DEF Single, Preparing, Alive, TypeOK, StallEnd, taskVars,
     tokenVars, loopVars
<1>9. ASSUME PollStatus PROVE Single'
  BY <1>9, NoneAssumption DEF Single, Preparing, Alive, TypeOK, PollStatus, taskVars,
     tokenVars, loopVars, Running
<1>10. ASSUME PollServe PROVE Single'
  BY <1>10, NoneAssumption DEF Single, Preparing, Alive, TypeOK, PollServe, taskVars,
     tokenVars, loopVars
<1>11. ASSUME PollLost PROVE Single'
  BY <1>11, NoneAssumption DEF Single, Preparing, Alive, TypeOK, PollLost, taskVars,
     tokenVars, loopVars
<1>12. ASSUME PollReceive PROVE Single'
  BY <1>12, NoneAssumption DEF Single, Preparing, Alive, TypeOK, PollReceive, taskVars,
     tokenVars, loopVars
<1>13. ASSUME PollWork PROVE Single'
  BY <1>13, NoneAssumption DEF Single, Preparing, Alive, TypeOK, PollWork, taskVars,
     tokenVars, loopVars
<1>14. ASSUME InitiateServe PROVE Single'
  <2>1. CASE Running
    BY <1>14, <2>1 DEF Single, Preparing, Alive, InitiateServe, taskVars
  <2>2. CASE ~ Running
    <3>1. \A x \in Slots : ~ Alive(x)
      BY <1>14, <2>2, NoneAssumption DEF Single, Running, InitiateServe
    <3>q. QED BY <1>14, <2>2, <3>1 DEF Single, Preparing, Alive, InitiateServe, taskVars
  <2>q. QED BY <2>1, <2>2
<1>15. ASSUME InitiateLost PROVE Single'
  BY <1>15, NoneAssumption DEF Single, Preparing, Alive, TypeOK, InitiateLost, taskVars,
     tokenVars, loopVars
<1>16. ASSUME RequestWork PROVE Single'
  <2>1. ready' => \A r \in Slots : ~ Alive(r)
    <3>1. ready' => ~ Running
      BY <1>16 DEF RequestWork
    <3>q. QED BY <1>16, <3>1, NoneAssumption DEF Single, Running, RequestWork
  <2>q. QED BY <1>16, <2>1 DEF Single, Preparing, Alive, RequestWork, taskVars, tokenVars
<1>17. ASSUME AnswerWork PROVE Single'
  BY <1>17, NoneAssumption DEF Single, Preparing, Alive, TypeOK, AnswerWork, taskVars,
     tokenVars, loopVars
<1>18. ASSUME AnswerLost PROVE Single'
  BY <1>18, NoneAssumption DEF Single, Preparing, Alive, TypeOK, AnswerLost, taskVars,
     tokenVars, loopVars
<1>19. ASSUME FollowOrders PROVE Single'
  <2>1. CASE order = None
    BY <1>19, <2>1 DEF Single, Preparing, Alive, FollowOrders, taskVars
  <2>2. CASE order # None
    <3>1. \A x \in Slots : ~ Alive(x)
      BY <1>19, <2>2 DEF Single, FollowOrders
    <3>q. QED BY <1>19, <2>2, <3>1 DEF Single, Preparing, Alive, FollowOrders, taskVars
  <2>q. QED BY <2>1, <2>2
<1>20. ASSUME NEW r \in Slots, RunAborts(r) PROVE Single'
  BY <1>20, NoneAssumption DEF Single, Preparing, Alive, TypeOK, RunAborts, taskVars,
     tokenVars, loopVars, Return
<1>21. ASSUME NEW r \in Slots, RunSetupFails(r) PROVE Single'
  BY <1>21, NoneAssumption DEF Single, Preparing, Alive, TypeOK, RunSetupFails, taskVars,
     tokenVars, loopVars,
     Goto
<1>22. ASSUME NEW r \in Slots, RunStarts(r) PROVE Single'
  BY <1>22, NoneAssumption DEF Single, Preparing, Alive, TypeOK, RunStarts, taskVars,
     tokenVars, loopVars, Goto
<1>23. ASSUME NEW r \in Slots, RunReports(r) PROVE Single'
  BY <1>23, NoneAssumption DEF Single, Preparing, Alive, TypeOK, RunReports, taskVars,
     tokenVars, loopVars, Goto
<1>24. ASSUME NEW r \in Slots, NEW ok \in BOOLEAN, RunFinishes(r, ok) PROVE Single'
  BY <1>24, NoneAssumption DEF Single, Preparing, Alive, TypeOK, RunFinishes, taskVars,
     tokenVars, loopVars, Goto
<1>25. ASSUME NEW r \in Slots, RunPosts(r) PROVE Single'
  BY <1>25, NoneAssumption DEF Single, Preparing, Alive, TypeOK, RunPosts, taskVars,
     tokenVars, loopVars, Goto
<1>26. ASSUME NEW r \in Slots, RunStores(r) PROVE Single'
  BY <1>26, NoneAssumption DEF Single, Preparing, Alive, TypeOK, RunStores, taskVars,
     tokenVars, loopVars, Goto
<1>27. ASSUME NEW r \in Slots, RunExits(r) PROVE Single'
  BY <1>27, NoneAssumption DEF Single, Preparing, Alive, TypeOK, RunExits, taskVars,
     tokenVars, loopVars, Return
<1>28. ASSUME DaemonRestart PROVE Single'
  BY <1>28, NoneAssumption DEF Single, Preparing, Alive, TypeOK, DaemonRestart, taskVars,
     tokenVars, loopVars
<1>29. ASSUME ClearTask PROVE Single'
  BY <1>29 DEF Single, Preparing, Alive, TypeOK, ClearTask, tokenVars
<1>30. ASSUME Spawn PROVE Single'
  <2>1. \A x \in Slots : ~ Alive(x)
    BY <1>30 DEF Spawn, Single, Preparing
  <2>2. PICK r \in Slots : holder' = r /\ pc' = [pc EXCEPT ![r] = "setup"] /\ doing' = [doing EXCEPT ![r] = order]
    BY <1>30, SpawnFills
  <2>q. QED BY <1>30, <2>1, <2>2 DEF Single, Preparing, Alive, TypeOK, Spawn
<1>31. ASSUME SetCurrentTask PROVE Single'
  BY <1>31 DEF Single, Preparing, Alive, TypeOK, SetCurrentTask, tokenVars
<1>q. QED BY <1>1, <1>2, <1>3, <1>4, <1>5, <1>6, <1>7, <1>8, <1>9, <1>10, <1>11, <1>12,
             <1>13, <1>14, <1>15, <1>16, <1>17, <1>18, <1>19, <1>20, <1>21, <1>22, <1>23,
             <1>24, <1>25, <1>26, <1>27, <1>28, <1>29, <1>30, <1>31
          DEF Next, Cancel, ServerPoll, DaemonPoll, InitiateSession, Run

\* A token goes with its task.
LEMMA TokensStep ==
    ASSUME TypeOK, Tokens, [Next]_vars
    PROVE  Tokens'
<1>1. CASE UNCHANGED vars
  BY <1>1 DEF Tokens, Alive, vars
<1>2. ASSUME NEW s \in Sessions, CancelSession(s) PROVE Tokens'
  BY <1>2 DEF Tokens, Alive, TypeOK, CancelSession, taskVars, tokenVars
<1>3. ASSUME NEW s \in Sessions, SetFlag(s) PROVE Tokens'
  BY <1>3 DEF Tokens, Alive, TypeOK, SetFlag, taskVars, tokenVars
<1>4. ASSUME NEW s \in Sessions, CancelCheck(s) PROVE Tokens'
  BY <1>4 DEF Tokens, Alive, TypeOK, CancelCheck, taskVars, tokenVars
<1>5. ASSUME NEW s \in Sessions, CancelSignal(s) PROVE Tokens'
  BY <1>5 DEF Tokens, Alive, TypeOK, CancelSignal, taskVars, tokenVars, Token
<1>6. ASSUME NEW s \in Sessions, CancelLost(s) PROVE Tokens'
  BY <1>6 DEF Tokens, Alive, TypeOK, CancelLost, taskVars, tokenVars
<1>7. ASSUME NEW s \in Sessions, StallBegin(s) PROVE Tokens'
  BY <1>7 DEF Tokens, Alive, TypeOK, StallBegin, taskVars, tokenVars
<1>8. ASSUME StallEnd PROVE Tokens'
  BY <1>8 DEF Tokens, Alive, TypeOK, StallEnd, taskVars, tokenVars
<1>9. ASSUME PollStatus PROVE Tokens'
  BY <1>9 DEF Tokens, Alive, TypeOK, PollStatus, taskVars, tokenVars
<1>10. ASSUME PollServe PROVE Tokens'
  BY <1>10 DEF Tokens, Alive, TypeOK, PollServe, taskVars, tokenVars
<1>11. ASSUME PollLost PROVE Tokens'
  BY <1>11 DEF Tokens, Alive, TypeOK, PollLost, taskVars, tokenVars
<1>12. ASSUME PollReceive PROVE Tokens'
  BY <1>12 DEF Tokens, Alive, TypeOK, PollReceive, taskVars, tokenVars
<1>13. ASSUME PollWork PROVE Tokens'
  BY <1>13 DEF Tokens, Alive, TypeOK, PollWork, taskVars, tokenVars
<1>14. ASSUME InitiateServe PROVE Tokens'
  BY <1>14 DEF Tokens, Alive, TypeOK, InitiateServe, NewToken, Running, taskVars, tokenVars
<1>15. ASSUME InitiateLost PROVE Tokens'
  BY <1>15 DEF Tokens, Alive, TypeOK, InitiateLost, taskVars, tokenVars
<1>16. ASSUME RequestWork PROVE Tokens'
  BY <1>16 DEF Tokens, Alive, TypeOK, RequestWork, taskVars, tokenVars
<1>17. ASSUME AnswerWork PROVE Tokens'
  BY <1>17 DEF Tokens, Alive, TypeOK, AnswerWork, taskVars, tokenVars
<1>18. ASSUME AnswerLost PROVE Tokens'
  BY <1>18 DEF Tokens, Alive, TypeOK, AnswerLost, taskVars, tokenVars
<1>19. ASSUME FollowOrders PROVE Tokens'
  BY <1>19 DEF Tokens, Alive, TypeOK, FollowOrders, Token, taskVars
<1>20. ASSUME NEW r \in Slots, RunAborts(r) PROVE Tokens'
  BY <1>20 DEF Tokens, Alive, TypeOK, RunAborts, taskVars, tokenVars, Return
<1>21. ASSUME NEW r \in Slots, RunSetupFails(r) PROVE Tokens'
  BY <1>21 DEF Tokens, Alive, TypeOK, RunSetupFails, taskVars, tokenVars, Goto
<1>22. ASSUME NEW r \in Slots, RunStarts(r) PROVE Tokens'
  BY <1>22 DEF Tokens, Alive, TypeOK, RunStarts, taskVars, tokenVars, Goto
<1>23. ASSUME NEW r \in Slots, RunReports(r) PROVE Tokens'
  BY <1>23 DEF Tokens, Alive, TypeOK, RunReports, taskVars, tokenVars, Goto
<1>24. ASSUME NEW r \in Slots, NEW ok \in BOOLEAN, RunFinishes(r, ok) PROVE Tokens'
  BY <1>24 DEF Tokens, Alive, TypeOK, RunFinishes, taskVars, tokenVars, Goto
<1>25. ASSUME NEW r \in Slots, RunPosts(r) PROVE Tokens'
  BY <1>25 DEF Tokens, Alive, TypeOK, RunPosts, taskVars, tokenVars, Goto
<1>26. ASSUME NEW r \in Slots, RunStores(r) PROVE Tokens'
  BY <1>26 DEF Tokens, Alive, TypeOK, RunStores, taskVars, tokenVars, Goto
<1>27. ASSUME NEW r \in Slots, RunExits(r) PROVE Tokens'
  BY <1>27 DEF Tokens, Alive, TypeOK, RunExits, taskVars, tokenVars, Return
<1>28. ASSUME DaemonRestart PROVE Tokens'
  BY <1>28 DEF Tokens, Alive, TypeOK, DaemonRestart, taskVars, tokenVars
<1>29. ASSUME ClearTask PROVE Tokens'
  BY <1>29 DEF Tokens, Alive, TypeOK, ClearTask, taskVars, tokenVars
<1>30. ASSUME Spawn PROVE Tokens'
  BY <1>30, SpawnFills DEF Tokens, Alive, TypeOK
<1>31. ASSUME SetCurrentTask PROVE Tokens'
  BY <1>31 DEF Tokens, Alive, TypeOK, SetCurrentTask, taskVars, tokenVars
<1>q. QED BY <1>1, <1>2, <1>3, <1>4, <1>5, <1>6, <1>7, <1>8, <1>9, <1>10, <1>11, <1>12,
             <1>13, <1>14, <1>15, <1>16, <1>17, <1>18, <1>19, <1>20, <1>21, <1>22, <1>23,
             <1>24, <1>25, <1>26, <1>27, <1>28, <1>29, <1>30, <1>31
          DEF Next, Cancel, ServerPoll, DaemonPoll, InitiateSession, Run

\* What is reported was decided.
LEMMA ReportingStep ==
    ASSUME TypeOK, Single, Reporting, [Next]_vars
    PROVE  Reporting'
<1>1. CASE UNCHANGED vars
  BY <1>1 DEF Reporting, Working, Finishing, Reported, Sending, Alive, vars
<1>2. ASSUME NEW s \in Sessions, CancelSession(s) PROVE Reporting'
  <2>0. Working /\ Finishing /\ Reported /\ Sending
    BY DEF Reporting
  <2>1. Working'
    BY <1>2, <2>0 DEF Working, TypeOK, Single, Preparing, Alive, CancelSession, taskVars,
       tokenVars, runVars
  <2>2. Finishing'
    BY <1>2, <2>0 DEF Working, Finishing, TypeOK, Single, Preparing, Alive, CancelSession,
       taskVars, tokenVars,
       runVars
  <2>3. Reported'
    BY <1>2, <2>0 DEF Reported, CancelSession, loopVars, runVars
  <2>4. Sending'
    BY <1>2, <2>0 DEF Sending, Preparing, CancelSession, loopVars
  <2>q. QED BY <2>1, <2>2, <2>3, <2>4 DEF Reporting
<1>3. ASSUME NEW s \in Sessions, SetFlag(s) PROVE Reporting'
  <2>0. Working /\ Finishing /\ Reported /\ Sending
    BY DEF Reporting
  <2>1. Working'
    BY <1>3, <2>0 DEF Working, TypeOK, Single, Preparing, Alive, SetFlag, taskVars,
       tokenVars, runVars
  <2>2. Finishing'
    BY <1>3, <2>0 DEF Working, Finishing, TypeOK, Single, Preparing, Alive, SetFlag,
       taskVars, tokenVars, runVars
  <2>3. Reported'
    BY <1>3, <2>0 DEF Reported, SetFlag, loopVars, runVars
  <2>4. Sending'
    BY <1>3, <2>0 DEF Sending, Preparing, SetFlag, loopVars
  <2>q. QED BY <2>1, <2>2, <2>3, <2>4 DEF Reporting
<1>4. ASSUME NEW s \in Sessions, CancelCheck(s) PROVE Reporting'
  <2>0. Working /\ Finishing /\ Reported /\ Sending
    BY DEF Reporting
  <2>1. Working'
    BY <1>4, <2>0 DEF Working, TypeOK, Single, Preparing, Alive, CancelCheck, taskVars,
       tokenVars, runVars
  <2>2. Finishing'
    BY <1>4, <2>0 DEF Working, Finishing, TypeOK, Single, Preparing, Alive, CancelCheck,
       taskVars, tokenVars,
       runVars
  <2>3. Reported'
    BY <1>4, <2>0 DEF Reported, CancelCheck, loopVars, runVars
  <2>4. Sending'
    BY <1>4, <2>0 DEF Sending, Preparing, CancelCheck, loopVars
  <2>q. QED BY <2>1, <2>2, <2>3, <2>4 DEF Reporting
<1>5. ASSUME NEW s \in Sessions, CancelSignal(s) PROVE Reporting'
  <2>0. Working /\ Finishing /\ Reported /\ Sending
    BY DEF Reporting
  <2>1. Working'
    BY <1>5, <2>0 DEF Working, TypeOK, Single, Preparing, Alive, CancelSignal, taskVars,
       tokenVars, runVars
  <2>2. Finishing'
    BY <1>5, <2>0 DEF Working, Finishing, TypeOK, Single, Preparing, Alive, CancelSignal,
       taskVars, tokenVars,
       runVars
  <2>3. Reported'
    BY <1>5, <2>0 DEF Reported, CancelSignal, loopVars, runVars
  <2>4. Sending'
    BY <1>5, <2>0 DEF Sending, Preparing, CancelSignal, loopVars
  <2>q. QED BY <2>1, <2>2, <2>3, <2>4 DEF Reporting
<1>6. ASSUME NEW s \in Sessions, CancelLost(s) PROVE Reporting'
  <2>0. Working /\ Finishing /\ Reported /\ Sending
    BY DEF Reporting
  <2>1. Working'
    BY <1>6, <2>0 DEF Working, TypeOK, Single, Preparing, Alive, CancelLost, taskVars,
       tokenVars, runVars
  <2>2. Finishing'
    BY <1>6, <2>0 DEF Working, Finishing, TypeOK, Single, Preparing, Alive, CancelLost,
       taskVars, tokenVars,
       runVars
  <2>3. Reported'
    BY <1>6, <2>0 DEF Reported, CancelLost, loopVars, runVars
  <2>4. Sending'
    BY <1>6, <2>0 DEF Sending, Preparing, CancelLost, loopVars
  <2>q. QED BY <2>1, <2>2, <2>3, <2>4 DEF Reporting
<1>7. ASSUME NEW s \in Sessions, StallBegin(s) PROVE Reporting'
  <2>0. Working /\ Finishing /\ Reported /\ Sending
    BY DEF Reporting
  <2>1. Working'
    BY <1>7, <2>0 DEF Working, TypeOK, Single, Preparing, Alive, StallBegin, taskVars,
       tokenVars, runVars
  <2>2. Finishing'
    BY <1>7, <2>0 DEF Working, Finishing, TypeOK, Single, Preparing, Alive, StallBegin,
       taskVars, tokenVars,
       runVars
  <2>3. Reported'
    BY <1>7, <2>0 DEF Reported, StallBegin, loopVars, runVars
  <2>4. Sending'
    BY <1>7, <2>0 DEF Sending, Preparing, StallBegin, loopVars
  <2>q. QED BY <2>1, <2>2, <2>3, <2>4 DEF Reporting
<1>8. ASSUME StallEnd PROVE Reporting'
  <2>0. Working /\ Finishing /\ Reported /\ Sending
    BY DEF Reporting
  <2>1. Working'
    BY <1>8, <2>0 DEF Working, TypeOK, Single, Preparing, Alive, StallEnd, taskVars,
       tokenVars, runVars
  <2>2. Finishing'
    BY <1>8, <2>0 DEF Working, Finishing, TypeOK, Single, Preparing, Alive, StallEnd,
       taskVars, tokenVars, runVars
  <2>3. Reported'
    BY <1>8, <2>0 DEF Reported, StallEnd, loopVars, runVars
  <2>4. Sending'
    BY <1>8, <2>0 DEF Sending, Preparing, StallEnd, loopVars
  <2>q. QED BY <2>1, <2>2, <2>3, <2>4 DEF Reporting
<1>9. ASSUME PollStatus PROVE Reporting'
  <2>0. Working /\ Finishing /\ Reported /\ Sending
    BY DEF Reporting
  <2>1. Working'
    BY <1>9, <2>0 DEF Working, TypeOK, Single, Preparing, Alive, PollStatus, taskVars,
       tokenVars, runVars
  <2>2. Finishing'
    BY <1>9, <2>0 DEF Working, Finishing, TypeOK, Single, Preparing, Alive, PollStatus,
       taskVars, tokenVars,
       runVars
  <2>3. Reported'
    BY <1>9, <2>0 DEF Reported, PollStatus, loopVars, runVars
  <2>4. Sending'
    BY <1>9, <2>0 DEF Sending, Preparing, PollStatus, loopVars
  <2>q. QED BY <2>1, <2>2, <2>3, <2>4 DEF Reporting
<1>10. ASSUME PollServe PROVE Reporting'
  <2>0. Working /\ Finishing /\ Reported /\ Sending
    BY DEF Reporting
  <2>1. Working'
    BY <1>10, <2>0 DEF Working, TypeOK, Single, Preparing, Alive, PollServe, taskVars,
       tokenVars, runVars
  <2>2. Finishing'
    BY <1>10, <2>0 DEF Working, Finishing, TypeOK, Single, Preparing, Alive, PollServe,
       taskVars, tokenVars,
       runVars
  <2>3. Reported'
    BY <1>10, <2>0, NoneAssumption DEF Reported, PollServe, GetProgress, NoReport,
       Outcomes, cancelVars
  <2>4. Sending'
    BY <1>10, <2>0 DEF Sending, Preparing, PollServe, loopVars
  <2>q. QED BY <2>1, <2>2, <2>3, <2>4 DEF Reporting
<1>11. ASSUME PollLost PROVE Reporting'
  <2>0. Working /\ Finishing /\ Reported /\ Sending
    BY DEF Reporting
  <2>1. Working'
    BY <1>11, <2>0 DEF Working, TypeOK, Single, Preparing, Alive, PollLost, taskVars,
       tokenVars, runVars
  <2>2. Finishing'
    BY <1>11, <2>0 DEF Working, Finishing, TypeOK, Single, Preparing, Alive, PollLost,
       taskVars, tokenVars,
       runVars
  <2>3. Reported'
    BY <1>11, <2>0 DEF Reported, PollLost, NoReport, Outcomes, runVars
  <2>4. Sending'
    BY <1>11, <2>0 DEF Sending, Preparing, PollLost, loopVars
  <2>q. QED BY <2>1, <2>2, <2>3, <2>4 DEF Reporting
<1>12. ASSUME PollReceive PROVE Reporting'
  <2>0. Working /\ Finishing /\ Reported /\ Sending
    BY DEF Reporting
  <2>1. Working'
    BY <1>12, <2>0 DEF Working, TypeOK, Single, Preparing, Alive, PollReceive, taskVars,
       tokenVars, runVars
  <2>2. Finishing'
    BY <1>12, <2>0 DEF Working, Finishing, TypeOK, Single, Preparing, Alive, PollReceive,
       taskVars, tokenVars,
       runVars
  <2>3. Reported'
    BY <1>12, <2>0 DEF Reported, PollReceive, loopVars, runVars
  <2>4. Sending'
    BY <1>12, <2>0 DEF Sending, Preparing, PollReceive, loopVars
  <2>q. QED BY <2>1, <2>2, <2>3, <2>4 DEF Reporting
<1>13. ASSUME PollWork PROVE Reporting'
  <2>0. Working /\ Finishing /\ Reported /\ Sending
    BY DEF Reporting
  <2>1. Working'
    BY <1>13, <2>0 DEF Working, TypeOK, Single, Preparing, Alive, PollWork, taskVars,
       tokenVars, runVars
  <2>2. Finishing'
    BY <1>13, <2>0 DEF Working, Finishing, TypeOK, Single, Preparing, Alive, PollWork,
       taskVars, tokenVars,
       runVars
  <2>3. Reported'
    BY <1>13, <2>0 DEF Reported, PollWork, NoReport, Outcomes, runVars
  <2>4. Sending'
    BY <1>13, <2>0 DEF Sending, Preparing, PollWork, loopVars
  <2>q. QED BY <2>1, <2>2, <2>3, <2>4 DEF Reporting
<1>14. ASSUME InitiateServe PROVE Reporting'
  <2>0. Working /\ Finishing /\ Reported /\ Sending
    BY DEF Reporting
  <2>1. Working'
    BY <1>14, <2>0 DEF Working, Alive, InitiateServe, taskVars, runVars
  <2>2. Finishing'
    BY <1>14, <2>0 DEF Finishing, Alive, InitiateServe, taskVars, runVars
  <2>3. Reported'
    BY <1>14, <2>0 DEF Reported, InitiateServe, runVars
  <2>4. Sending'
    BY <1>14, <2>0 DEF Sending, Preparing, InitiateServe
  <2>q. QED BY <2>1, <2>2, <2>3, <2>4 DEF Reporting
<1>15. ASSUME InitiateLost PROVE Reporting'
  <2>0. Working /\ Finishing /\ Reported /\ Sending
    BY DEF Reporting
  <2>1. Working'
    BY <1>15, <2>0 DEF Working, TypeOK, Single, Preparing, Alive, InitiateLost, taskVars,
       tokenVars, runVars
  <2>2. Finishing'
    BY <1>15, <2>0 DEF Working, Finishing, TypeOK, Single, Preparing, Alive, InitiateLost,
       taskVars, tokenVars,
       runVars
  <2>3. Reported'
    BY <1>15, <2>0 DEF Reported, InitiateLost, loopVars, runVars
  <2>4. Sending'
    BY <1>15, <2>0 DEF Sending, Preparing, InitiateLost, loopVars
  <2>q. QED BY <2>1, <2>2, <2>3, <2>4 DEF Reporting
<1>16. ASSUME RequestWork PROVE Reporting'
  <2>0. Working /\ Finishing /\ Reported /\ Sending
    BY DEF Reporting
  <2>1. Working'
    BY <1>16, <2>0 DEF Working, TypeOK, Single, Preparing, Alive, RequestWork, taskVars,
       tokenVars, runVars
  <2>2. Finishing'
    BY <1>16, <2>0 DEF Working, Finishing, TypeOK, Single, Preparing, Alive, RequestWork,
       taskVars, tokenVars,
       runVars
  <2>3. Reported'
    BY <1>16, <2>0 DEF Reported, RequestWork, loopVars, runVars
  <2>4. Sending'
    BY <1>16, <2>0 DEF Sending, Preparing, RequestWork, loopVars
  <2>q. QED BY <2>1, <2>2, <2>3, <2>4 DEF Reporting
<1>17. ASSUME AnswerWork PROVE Reporting'
  <2>0. Working /\ Finishing /\ Reported /\ Sending
    BY DEF Reporting
  <2>1. Working'
    BY <1>17, <2>0 DEF Working, TypeOK, Single, Preparing, Alive, AnswerWork, taskVars,
       tokenVars, runVars
  <2>2. Finishing'
    BY <1>17, <2>0 DEF Working, Finishing, TypeOK, Single, Preparing, Alive, AnswerWork,
       taskVars, tokenVars,
       runVars
  <2>3. Reported'
    BY <1>17, <2>0 DEF Reported, AnswerWork, loopVars, runVars
  <2>4. Sending'
    BY <1>17, <2>0 DEF Sending, Preparing, AnswerWork, loopVars
  <2>q. QED BY <2>1, <2>2, <2>3, <2>4 DEF Reporting
<1>18. ASSUME AnswerLost PROVE Reporting'
  <2>0. Working /\ Finishing /\ Reported /\ Sending
    BY DEF Reporting
  <2>1. Working'
    BY <1>18, <2>0 DEF Working, TypeOK, Single, Preparing, Alive, AnswerLost, taskVars,
       tokenVars, runVars
  <2>2. Finishing'
    BY <1>18, <2>0 DEF Working, Finishing, TypeOK, Single, Preparing, Alive, AnswerLost,
       taskVars, tokenVars,
       runVars
  <2>3. Reported'
    BY <1>18, <2>0 DEF Reported, AnswerLost, loopVars, runVars
  <2>4. Sending'
    BY <1>18, <2>0 DEF Sending, Preparing, AnswerLost, loopVars
  <2>q. QED BY <2>1, <2>2, <2>3, <2>4 DEF Reporting
<1>19. ASSUME FollowOrders PROVE Reporting'
  <2>0. Working /\ Finishing /\ Reported /\ Sending
    BY DEF Reporting
  <2>1. Working'
    BY <1>19, <2>0 DEF Working, Alive, FollowOrders, taskVars, runVars
  <2>2. Finishing'
    BY <1>19, <2>0 DEF Finishing, Alive, FollowOrders, taskVars, runVars
  <2>3. Reported'
    BY <1>19, <2>0 DEF Reported, FollowOrders, runVars
  <2>4. Sending'
    BY <1>19, <2>0 DEF Sending, Preparing, FollowOrders
  <2>q. QED BY <2>1, <2>2, <2>3, <2>4 DEF Reporting
<1>20. ASSUME NEW r \in Slots, RunAborts(r) PROVE Reporting'
  <2>0. Working /\ Finishing /\ Reported /\ Sending
    BY DEF Reporting
  <2>1. Working'
    BY <1>20, <2>0 DEF Working, TypeOK, Single, Preparing, Alive, RunAborts, Return,
       taskVars, tokenVars, runVars
  <2>2. Finishing'
    BY <1>20, <2>0 DEF Working, Finishing, TypeOK, Single, Preparing, Alive, RunAborts,
       Return,
       taskVars, tokenVars, runVars
  <2>3. Reported'
    BY <1>20, <2>0 DEF Reported, RunAborts, Return, loopVars, runVars
  <2>4. Sending'
    BY <1>20, <2>0 DEF Sending, Preparing, RunAborts, Return, loopVars
  <2>q. QED BY <2>1, <2>2, <2>3, <2>4 DEF Reporting
<1>21. ASSUME NEW r \in Slots, RunSetupFails(r) PROVE Reporting'
  <2>0. Working /\ Finishing /\ Reported /\ Sending
    BY DEF Reporting
  <2>1. Working'
    BY <1>21, <2>0 DEF Working, TypeOK, Single, Preparing, Alive, RunSetupFails, Goto,
       InitializeSession, taskVars, tokenVars, runVars
  <2>2. Finishing'
    BY <1>21, <2>0 DEF Working, Finishing, TypeOK, Single, Preparing, Alive, RunSetupFails,
       Goto,
       InitializeSession, taskVars, tokenVars, runVars
  <2>3. Reported'
    BY <1>21, <2>0 DEF Reported, RunSetupFails, Goto, InitializeSession, loopVars, runVars
  <2>4. Sending'
    BY <1>21, <2>0 DEF Sending, Preparing, RunSetupFails, Goto, InitializeSession, loopVars
  <2>q. QED BY <2>1, <2>2, <2>3, <2>4 DEF Reporting
<1>22. ASSUME NEW r \in Slots, RunStarts(r) PROVE Reporting'
  <2>0. Working /\ Finishing /\ Reported /\ Sending
    BY DEF Reporting
  <2>1. Working'
    BY <1>22, <2>0 DEF Working, TypeOK, Single, Preparing, Alive, RunStarts, Goto,
       InitializeSession,
       taskVars, tokenVars, runVars
  <2>2. Finishing'
    BY <1>22, <2>0 DEF Working, Finishing, TypeOK, Single, Preparing, Alive, RunStarts,
       Goto,
       InitializeSession, taskVars, tokenVars, runVars
  <2>3. Reported'
    BY <1>22, <2>0 DEF Reported, RunStarts, Goto, InitializeSession, loopVars, runVars
  <2>4. Sending'
    BY <1>22, <2>0 DEF Sending, Preparing, RunStarts, Goto, InitializeSession, loopVars
  <2>q. QED BY <2>1, <2>2, <2>3, <2>4 DEF Reporting
<1>23. ASSUME NEW r \in Slots, RunReports(r) PROVE Reporting'
  <2>0. Working /\ Finishing /\ Reported /\ Sending
    BY DEF Reporting
  <2>1. Working'
    BY <1>23, <2>0 DEF Working, TypeOK, Single, Preparing, Alive, RunReports, Goto,
       taskVars, tokenVars, runVars
  <2>2. Finishing'
    BY <1>23, <2>0 DEF Working, Finishing, TypeOK, Single, Preparing, Alive, RunReports,
       Goto,
       taskVars, tokenVars, runVars
  <2>3. Reported'
    BY <1>23, <2>0 DEF Reported, RunReports, Goto, loopVars, runVars
  <2>4. Sending'
    BY <1>23, <2>0 DEF Sending, Preparing, RunReports, Goto, loopVars
  <2>q. QED BY <2>1, <2>2, <2>3, <2>4 DEF Reporting
<1>24. ASSUME NEW r \in Slots, NEW ok \in BOOLEAN, RunFinishes(r, ok) PROVE Reporting'
  <2>0. Working /\ Finishing /\ Reported /\ Sending
    BY DEF Reporting
  <2>1. Working'
    BY <1>24, <2>0 DEF Working, TypeOK, Single, Preparing, Alive, RunFinishes, Goto,
       taskVars, tokenVars, runVars
  <2>2. Finishing'
    <3>1. \E o \in Outcomes : outcome' = [outcome EXCEPT ![r] = o] /\ decided' = decided \union {<<session, o>>}
      BY <1>24 DEF RunFinishes, Outcomes
    <3>2. session = doing[r]
      BY <1>24, <2>0 DEF RunFinishes, Working
    <3>q. QED BY <1>24, <2>0, <3>1, <3>2 DEF Finishing, TypeOK, RunFinishes, Goto, Outcomes
  <2>3. Reported'
    BY <1>24, <2>0 DEF Reported, RunFinishes, Goto, loopVars, runVars
  <2>4. Sending'
    BY <1>24, <2>0 DEF Sending, Preparing, RunFinishes, Goto, loopVars
  <2>q. QED BY <2>1, <2>2, <2>3, <2>4 DEF Reporting
<1>25. ASSUME NEW r \in Slots, RunPosts(r) PROVE Reporting'
  <2>0. Working /\ Finishing /\ Reported /\ Sending
    BY DEF Reporting
  <2>1. Working'
    BY <1>25, <2>0 DEF Working, TypeOK, Single, Preparing, Alive, RunPosts, Goto, taskVars,
       tokenVars, runVars
  <2>2. Finishing'
    BY <1>25, <2>0 DEF Working, Finishing, TypeOK, Single, Preparing, Alive, RunPosts,
       Goto, taskVars, tokenVars,
       runVars
  <2>3. Reported'
    BY <1>25, <2>0 DEF Reported, RunPosts, Goto, loopVars, runVars
  <2>4. Sending'
    BY <1>25, <2>0 DEF Sending, Preparing, RunPosts, Goto, loopVars
  <2>q. QED BY <2>1, <2>2, <2>3, <2>4 DEF Reporting
<1>26. ASSUME NEW r \in Slots, RunStores(r) PROVE Reporting'
  <2>0. Working /\ Finishing /\ Reported /\ Sending
    BY DEF Reporting
  <2>1. Working'
    BY <1>26, <2>0 DEF Working, TypeOK, Single, Preparing, Alive, RunStores, Goto,
       taskVars, tokenVars, runVars
  <2>2. Finishing'
    BY <1>26, <2>0 DEF Working, Finishing, TypeOK, Single, Preparing, Alive, RunStores,
       Goto,
       taskVars, tokenVars, runVars
  <2>3. Reported'
    BY <1>26, <2>0 DEF Reported, Working, Finishing, RunStores, Goto, loopVars
  <2>4. Sending'
    BY <1>26, <2>0 DEF Sending, Preparing, RunStores, Goto, loopVars
  <2>q. QED BY <2>1, <2>2, <2>3, <2>4 DEF Reporting
<1>27. ASSUME NEW r \in Slots, RunExits(r) PROVE Reporting'
  <2>0. Working /\ Finishing /\ Reported /\ Sending
    BY DEF Reporting
  <2>1. Working'
    BY <1>27, <2>0 DEF Working, TypeOK, Single, Preparing, Alive, RunExits, Return,
       taskVars, tokenVars, runVars
  <2>2. Finishing'
    BY <1>27, <2>0 DEF Working, Finishing, TypeOK, Single, Preparing, Alive, RunExits,
       Return,
       taskVars, tokenVars, runVars
  <2>3. Reported'
    BY <1>27, <2>0 DEF Reported, RunExits, Return, loopVars, runVars
  <2>4. Sending'
    BY <1>27, <2>0 DEF Sending, Preparing, RunExits, Return, loopVars
  <2>q. QED BY <2>1, <2>2, <2>3, <2>4 DEF Reporting
<1>28. ASSUME DaemonRestart PROVE Reporting'
  <2>0. Working /\ Finishing /\ Reported /\ Sending
    BY DEF Reporting
  <2>1. Working'
    BY <1>28, <2>0 DEF Working, TypeOK, Single, Preparing, Alive, DaemonRestart, taskVars,
       tokenVars, runVars
  <2>2. Finishing'
    BY <1>28, <2>0 DEF Working, Finishing, TypeOK, Single, Preparing, Alive, DaemonRestart,
       taskVars, tokenVars,
       runVars
  <2>3. Reported'
    BY <1>28, <2>0 DEF Reported, DaemonRestart, loopVars, runVars
  <2>4. Sending'
    BY <1>28, <2>0 DEF Sending, Preparing, DaemonRestart, loopVars
  <2>q. QED BY <2>1, <2>2, <2>3, <2>4 DEF Reporting
<1>29. ASSUME ClearTask PROVE Reporting'
  <2>0. Working /\ Finishing /\ Reported /\ Sending
    BY DEF Reporting
  <2>1. Working'
    BY <1>29, <2>0 DEF Working, Alive, ClearTask, taskVars, runVars
  <2>2. Finishing'
    BY <1>29, <2>0 DEF Finishing, Alive, ClearTask, taskVars, runVars
  <2>3. Reported'
    BY <1>29, <2>0 DEF Reported, ClearTask, runVars
  <2>4. Sending'
    BY <1>29, <2>0 DEF Sending, Preparing, ClearTask
  <2>q. QED BY <2>1, <2>2, <2>3, <2>4 DEF Reporting
<1>30. ASSUME Spawn PROVE Reporting'
  <2>0. Working /\ Finishing /\ Reported /\ Sending
    BY DEF Reporting
  <2>a. \A x \in Slots : ~ Alive(x)
    BY <1>30 DEF Spawn, Single, Preparing
  <2>b. PICK r \in Slots : holder' = r /\ pc' = [pc EXCEPT ![r] = "setup"] /\ doing' = [doing EXCEPT ![r] = order]
    BY <1>30, SpawnFills
  <2>c. order \in Sessions
    BY <1>30, <2>0 DEF Spawn, Sending, Preparing, TypeOK
  <2>1. Working'
    BY <1>30, <2>a, <2>b, <2>c DEF Working, Alive, TypeOK, Spawn
  <2>2. Finishing'
    BY <1>30, <2>a, <2>b, <2>c DEF Finishing, Alive, TypeOK, Spawn
  <2>3. Reported'
    BY <1>30, <2>0 DEF Reported, Spawn, runVars
  <2>4. Sending'
    BY <1>30, <2>0 DEF Sending, Preparing, Spawn
  <2>q. QED BY <2>1, <2>2, <2>3, <2>4 DEF Reporting
<1>31. ASSUME SetCurrentTask PROVE Reporting'
  <2>0. Working /\ Finishing /\ Reported /\ Sending
    BY DEF Reporting
  <2>1. Working'
    BY <1>31, <2>0 DEF Working, Alive, SetCurrentTask, taskVars, runVars
  <2>2. Finishing'
    BY <1>31, <2>0 DEF Finishing, Alive, SetCurrentTask, taskVars, runVars
  <2>3. Reported'
    BY <1>31, <2>0 DEF Reported, SetCurrentTask, runVars
  <2>4. Sending'
    BY <1>31, <2>0 DEF Sending, Preparing, SetCurrentTask
  <2>q. QED BY <2>1, <2>2, <2>3, <2>4 DEF Reporting
<1>q. QED BY <1>1, <1>2, <1>3, <1>4, <1>5, <1>6, <1>7, <1>8, <1>9, <1>10, <1>11, <1>12,
             <1>13, <1>14, <1>15, <1>16, <1>17, <1>18, <1>19, <1>20, <1>21, <1>22, <1>23,
             <1>24, <1>25, <1>26, <1>27, <1>28, <1>29, <1>30, <1>31
          DEF Next, Cancel, ServerPoll, DaemonPoll, InitiateSession, Run

\* update_session may send a cancellation to the daemon; it checks none.
LEMMA UpdateSends ==
    ASSUME NEW x, NEW phase, UpdateSession(x, phase)
    PROVE  \A s \in Sessions : <<s, "checked">> \in posted' => <<s, "checked">> \in posted
<1>1. posted' = posted \/ posted' = posted \union {<<x, "sent">>}
  <2>1. CASE phase \notin Outcomes
    BY <2>1 DEF UpdateSession
  <2>2. CASE phase \in Outcomes /\ server[x] = "ended"
    BY <2>2 DEF UpdateSession
  <2>3. CASE phase \in Outcomes /\ server[x] # "ended"
    BY <2>3 DEF UpdateSession, CancelEvent
  <2>q. QED BY <2>1, <2>2, <2>3
<1>2. \A s \in Sessions : <<s, "checked">> # <<x, "sent">>
  OBVIOUS
<1>q. QED BY <1>1, <1>2

\* The manager's token is cancelled before a task has it only by a
\* cancellation that had passed its check before the token was made.
LEMMA FreshStep ==
    ASSUME TypeOK, Single, Fresh, [Next]_vars
    PROVE  Fresh'
<1>1. CASE UNCHANGED vars
  BY <1>1 DEF Fresh, vars
<1>2. ASSUME NEW s \in Sessions, CancelSession(s) PROVE Fresh'
  BY <1>2, NoneAssumption DEF Fresh, Preparing, TypeOK, CancelSession, RequestCancellation,
     CancelEvent, cancelVars, loopVars, taskVars, tokenVars
<1>3. ASSUME NEW s \in Sessions, SetFlag(s) PROVE Fresh'
  BY <1>3, NoneAssumption DEF Fresh, Preparing, TypeOK, SetFlag, cancelVars, loopVars,
     taskVars, tokenVars
<1>4. ASSUME NEW s \in Sessions, CancelCheck(s) PROVE Fresh'
  <2>1. Running => holder # None /\ loop \notin Preparing
    BY NoneAssumption DEF Running, Single, Alive, TypeOK
  <2>q. QED BY <1>4, <2>1 DEF Fresh, CancelCheck, loopVars, tokenVars
<1>5. ASSUME NEW s \in Sessions, CancelSignal(s) PROVE Fresh'
  BY <1>5, NoneAssumption DEF Fresh, Preparing, TypeOK, CancelSignal, Token, cancelVars,
     loopVars, taskVars, tokenVars
<1>6. ASSUME NEW s \in Sessions, CancelLost(s) PROVE Fresh'
  BY <1>6, NoneAssumption DEF Fresh, Preparing, TypeOK, CancelLost, cancelVars, loopVars,
     taskVars, tokenVars
<1>7. ASSUME NEW s \in Sessions, StallBegin(s) PROVE Fresh'
  BY <1>7, NoneAssumption DEF Fresh, Preparing, TypeOK, StallBegin, RequestCancellation,
     CancelEvent, cancelVars, loopVars, taskVars, tokenVars
<1>8. ASSUME StallEnd PROVE Fresh'
  BY <1>8, NoneAssumption DEF Fresh, Preparing, TypeOK, StallEnd, cancelVars, loopVars,
     taskVars, tokenVars
<1>9. ASSUME PollStatus PROVE Fresh'
  BY <1>9, NoneAssumption DEF Fresh, Preparing, TypeOK, PollStatus, cancelVars, loopVars,
     taskVars, tokenVars
<1>10. ASSUME PollServe PROVE Fresh'
  BY <1>10, NoneAssumption DEF Fresh, Preparing, TypeOK, PollServe, cancelVars, loopVars,
     taskVars, tokenVars
<1>11. ASSUME PollLost PROVE Fresh'
  BY <1>11, NoneAssumption DEF Fresh, Preparing, TypeOK, PollLost, cancelVars, loopVars,
     taskVars, tokenVars
<1>12. ASSUME PollReceive PROVE Fresh'
  <2>1. \A s \in Sessions : <<s, "checked">> \in posted' => <<s, "checked">> \in posted
    BY <1>12, UpdateSends DEF PollReceive
  <2>q. QED BY <1>12, <2>1 DEF Fresh, Preparing, PollReceive, tokenVars
<1>13. ASSUME PollWork PROVE Fresh'
  BY <1>13, NoneAssumption DEF Fresh, Preparing, TypeOK, PollWork, cancelVars, loopVars,
     taskVars, tokenVars
<1>14. ASSUME InitiateServe PROVE Fresh'
  BY <1>14, NoneAssumption DEF Fresh, Preparing, TypeOK, InitiateServe, NewToken, Running,
     cancelVars, loopVars, taskVars, tokenVars
<1>15. ASSUME InitiateLost PROVE Fresh'
  BY <1>15, NoneAssumption DEF Fresh, Preparing, TypeOK, InitiateLost, cancelVars,
     loopVars, taskVars, tokenVars
<1>16. ASSUME RequestWork PROVE Fresh'
  BY <1>16, NoneAssumption DEF Fresh, Preparing, TypeOK, RequestWork, cancelVars, loopVars,
     taskVars, tokenVars
<1>17. ASSUME AnswerWork PROVE Fresh'
  BY <1>17, NoneAssumption DEF Fresh, Preparing, TypeOK, AnswerWork, cancelVars, loopVars,
     taskVars, tokenVars
<1>18. ASSUME AnswerLost PROVE Fresh'
  BY <1>18, NoneAssumption DEF Fresh, Preparing, TypeOK, AnswerLost, cancelVars, loopVars,
     taskVars, tokenVars
<1>19. ASSUME FollowOrders PROVE Fresh'
  <2>1. stop /\ Running => None \notin Token
    BY NoneAssumption DEF Running, Token, Single, Alive, TypeOK, FollowOrders
  <2>2. None \in cancelled' => None \in cancelled
    BY <1>19, <2>1 DEF FollowOrders
  <2>q. QED BY <1>19, <2>2 DEF Fresh, Preparing, FollowOrders, NewToken, cancelVars
<1>20. ASSUME NEW r \in Slots, RunAborts(r) PROVE Fresh'
  BY <1>20, NoneAssumption DEF Fresh, Preparing, TypeOK, RunAborts, Return, cancelVars,
     loopVars, taskVars, tokenVars
<1>21. ASSUME NEW r \in Slots, RunSetupFails(r) PROVE Fresh'
  BY <1>21, NoneAssumption DEF Fresh, Preparing, TypeOK, RunSetupFails, cancelVars,
     loopVars, taskVars, tokenVars
<1>22. ASSUME NEW r \in Slots, RunStarts(r) PROVE Fresh'
  BY <1>22, NoneAssumption DEF Fresh, Preparing, TypeOK, RunStarts, cancelVars, loopVars,
     taskVars, tokenVars
<1>23. ASSUME NEW r \in Slots, RunReports(r) PROVE Fresh'
  <2>1. \A s \in Sessions : <<s, "checked">> \in posted' => <<s, "checked">> \in posted
    BY <1>23, UpdateSends DEF RunReports, Post
  <2>q. QED BY <1>23, <2>1 DEF Fresh, RunReports, loopVars, tokenVars
<1>24. ASSUME NEW r \in Slots, NEW ok \in BOOLEAN, RunFinishes(r, ok) PROVE Fresh'
  BY <1>24, NoneAssumption DEF Fresh, Preparing, TypeOK, RunFinishes, Goto, cancelVars,
     loopVars, taskVars, tokenVars
<1>25. ASSUME NEW r \in Slots, RunPosts(r) PROVE Fresh'
  <2>1. \A s \in Sessions : <<s, "checked">> \in posted' => <<s, "checked">> \in posted
    BY <1>25, UpdateSends DEF RunPosts, Post
  <2>q. QED BY <1>25, <2>1 DEF Fresh, RunPosts, loopVars, tokenVars
<1>26. ASSUME NEW r \in Slots, RunStores(r) PROVE Fresh'
  BY <1>26, NoneAssumption DEF Fresh, Preparing, TypeOK, RunStores, cancelVars, loopVars,
     taskVars, tokenVars
<1>27. ASSUME NEW r \in Slots, RunExits(r) PROVE Fresh'
  BY <1>27, NoneAssumption DEF Fresh, Preparing, TypeOK, RunExits, Return, cancelVars,
     loopVars, taskVars, tokenVars
<1>28. ASSUME DaemonRestart PROVE Fresh'
  <2>1. \A s \in Sessions : <<s, "checked">> \notin posted'
    <3>1. SUFFICES ASSUME NEW s \in Sessions, <<s, "checked">> \in posted' PROVE FALSE
      OBVIOUS
    <3>2. PICK c \in posted : <<s, "checked">> = IF c[2] = "checked" THEN <<c[1], "sent">> ELSE c
      BY <1>28, <3>1 DEF DaemonRestart
    <3>3. CASE c[2] = "checked"
      BY <3>2, <3>3
    <3>4. CASE c[2] # "checked"
      BY <3>2, <3>4
    <3>q. QED BY <3>3, <3>4
  <2>q. QED BY <1>28, <2>1 DEF Fresh, Preparing, DaemonRestart
<1>29. ASSUME ClearTask PROVE Fresh'
  BY <1>29, NoneAssumption DEF Fresh, Preparing, TypeOK, ClearTask, cancelVars, loopVars,
     taskVars, tokenVars
<1>30. ASSUME Spawn PROVE Fresh'
  <2>1. holder' \in Slots /\ None \notin cancelled'
    BY <1>30, SpawnFills, NoneAssumption
  <2>q. QED BY <1>30, <2>1, NoneAssumption DEF Fresh, Spawn, Preparing
<1>31. ASSUME SetCurrentTask PROVE Fresh'
  BY <1>31, NoneAssumption DEF Fresh, Preparing, TypeOK, SetCurrentTask, cancelVars,
     loopVars, taskVars, tokenVars
<1>q. QED BY <1>1, <1>2, <1>3, <1>4, <1>5, <1>6, <1>7, <1>8, <1>9, <1>10, <1>11, <1>12,
             <1>13, <1>14, <1>15, <1>16, <1>17, <1>18, <1>19, <1>20, <1>21, <1>22, <1>23,
             <1>24, <1>25, <1>26, <1>27, <1>28, <1>29, <1>30, <1>31
          DEF Next, Cancel, ServerPoll, DaemonPoll, InitiateSession, Run

\* Only Spawn makes a task alive.
LEMMA OnlySpawnStarts ==
    ASSUME TypeOK, [Next]_vars, NEW r \in Slots, pc[r] = "none", pc'[r] # "none"
    PROVE  Spawn
<1>1. CASE UNCHANGED pc
  BY <1>1
<1>2. CASE UNCHANGED vars
  BY <1>2 DEF vars
<1>3. CASE \E s \in Sessions : Cancel(s) \/ StallBegin(s)
  BY <1>1, <1>3 DEF Cancel, CancelSession, SetFlag, CancelCheck, CancelSignal, CancelLost,
     StallBegin, taskVars
<1>4. CASE StallEnd
  BY <1>1, <1>4 DEF StallEnd, taskVars
<1>5. CASE ServerPoll
  BY <1>1, <1>5 DEF ServerPoll, PollStatus, PollServe, PollLost, PollReceive, PollWork,
     InitiateServe, InitiateLost, taskVars
<1>6. CASE DaemonPoll
  BY <1>1, <1>6 DEF DaemonPoll, RequestWork, AnswerWork, AnswerLost, FollowOrders, taskVars
<1>7. CASE ClearTask \/ SetCurrentTask
  BY <1>1, <1>7 DEF ClearTask, SetCurrentTask
<1>8. ASSUME NEW x \in Slots, Run(x) PROVE FALSE
  <2>1. \E l \in TaskStates : pc' = [pc EXCEPT ![x] = l] /\ (pc[x] # "none" \/ l = "none")
    BY <1>8 DEF Run, RunAborts, RunSetupFails, RunStarts, RunReports, RunFinishes,
       RunPosts, RunStores,
       RunExits, Return, Goto, TaskStates
  <2>q. QED BY <2>1 DEF TypeOK
<1>9. CASE DaemonRestart
  BY <1>9 DEF DaemonRestart
<1>q. QED BY <1>2, <1>3, <1>4, <1>5, <1>6, <1>7, <1>8, <1>9 DEF Next, InitiateSession

-----------------------------------------------------------------------------
(***************************************************************************)
(* Theorems.                                                               *)
(***************************************************************************)

\* It holds before the daemon has done anything.
LEMMA InitHolds == Init => IInv
<1>1. SUFFICES ASSUME Init PROVE IInv
  OBVIOUS
<1>2. ServerTypes /\ CancelTypes
  BY <1>1 DEF Init, ServerTypes, CancelTypes, ServerStates
<1>3. LoopTypes /\ ProgressTypes
  BY <1>1 DEF Init, LoopTypes, ProgressTypes, LoopStates, Reports
<1>4. TaskTypes /\ RunTypes
  BY <1>1 DEF Init, TaskTypes, RunTypes, TaskStates
<1>5. OtherTypes
  BY <1>1, BoundAssumption, ModesAssumption DEF Init, OtherTypes
<1>6. TypeOK
  BY <1>2, <1>3, <1>4, <1>5, TypeParts
<1>q. QED BY <1>1, <1>6 DEF Init, IInv, Single, Tokens, Fresh, Preparing, Reporting,
             Working, Finishing, Reported, Sending, Alive, NoReport, Outcomes

\* Every step of the daemon, the poll loops and the server keeps it.
LEMMA Inductive == IInv /\ [Next]_vars => IInv'
BY TypeStep, SingleStep, TokensStep, FreshStep, ReportingStep DEF IInv, Reporting

\* The invariant holds in every behaviour of the daemon and the server.
THEOREM Invariance == Spec => []IInv
BY InitHolds, Inductive, PTL DEF Spec

\* Every variable of the daemon, of the poll loops and of the server's view
\* keeps its type (TypeOK); in particular an outcome that is posted or stored
\* is one.
THEOREM TypeCorrect == Spec => []TypeOK
<1>1. IInv => TypeOK
  BY DEF IInv
<1>q. QED BY Invariance, <1>1, PTL

\* For any number of sessions and faults the daemon never runs two discoveries
\* at once (OneRunAtATime), although initiate_session itself checks nothing.
THEOREM RunsExclude == Spec => []OneRunAtATime
<1>1. IInv => OneRunAtATime
  BY DEF IInv, Single, OneRunAtATime
<1>q. QED BY Invariance, <1>1, PTL

\* A task is spawned with a cancelled token only if a /cancel had passed its
\* check before that token was made (NewRunNotCancelled): the session handed
\* out beside a cancellation, a repeated /cancel and one that comes while the
\* task is being prepared do not make it start cancelled.
THEOREM FreshToken == Spec => NewRunNotCancelled
<1>1. ASSUME IInv, [Next]_vars, NEW r \in Slots, pc[r] = "none", pc'[r] # "none", r \in cancelled'
      PROVE  racing # {}
  <2>1. TypeOK /\ Tokens /\ Fresh
    BY <1>1 DEF IInv
  <2>2. Spawn
    BY <1>1, <2>1, OnlySpawnStarts
  <2>3. r \notin cancelled
    BY <1>1, <2>1, NoneAssumption DEF Tokens, Alive
  <2>4. None \in cancelled
    BY <1>1, <2>2, <2>3, SpawnFills
  <2>q. QED BY <2>1, <2>4 DEF Fresh
<1>2. IInv /\ [Next]_vars =>
        [\A r \in Slots : pc[r] = "none" /\ pc'[r] # "none" /\ r \in cancelled' => racing # {}]_vars
  BY <1>1
<1>q. QED BY Invariance, <1>2, PTL DEF Spec, NewRunNotCancelled


-----------------------------------------------------------------------------
(***************************************************************************)
(* The refinement.                                                         *)
(***************************************************************************)

\* With one task alive, the busy session is that task's.
LEMMA BusyIsDoing ==
    ASSUME Single, NEW r \in Slots, Alive(r)
    PROVE  Busy = doing[r]
<1>1. \A x \in Slots : Alive(x) => x = r
  BY DEF Single
<1>2. (CHOOSE x \in Slots : Alive(x)) = r
  BY <1>1
<1>q. QED BY <1>2 DEF Busy

\* The same of the next state.
LEMMA BusyIsDoingNext ==
    ASSUME Single', NEW r \in Slots, Alive(r)'
    PROVE  Busy' = doing'[r]
<1>1. \A x \in Slots : Alive(x)' => x = r
  BY DEF Single
<1>2. (CHOOSE x \in Slots : Alive(x)') = r
  BY <1>1
<1>q. QED BY <1>2 DEF Busy

\* Without a live task there is no session that the daemon works on.
LEMMA NobodyBusy ==
    /\ (\A r \in Slots : ~ Alive(r)) => Busy = None
    /\ (\A r \in Slots : ~ Alive(r)') => Busy' = None
BY DEF Busy

\* A step of a task that stays alive does not change what the daemon works on.
LEMMA GotoKeepsBusy ==
    ASSUME TypeOK, Single, Single', NEW r \in Slots, Alive(r), NEW l, l # "none", Goto(r, l)
    PROVE  Busy' = Busy /\ Busy = doing[r]
<1>1. Alive(r)' /\ doing' = doing
  BY DEF Goto, Alive, TypeOK
<1>q. QED BY <1>1, BusyIsDoing, BusyIsDoingNext

\* A step that leaves the tasks alone leaves what the daemon works on.
LEMMA SameTasks ==
    ASSUME pc' = pc, doing' = doing
    PROVE  Busy' = Busy
BY DEF Busy, Alive

\* update_session adds to the history only the outcome it is given.
LEMMA UpdateRecords ==
    ASSUME NEW s, NEW phase, UpdateSession(s, phase)
    PROVE  recorded' = recorded \/ (phase \in Outcomes /\ recorded' = recorded \union {<<s, phase>>})
BY DEF UpdateSession

\* A daemon that has done nothing is an idle worker.
LEMMA WorkerInit == Init => Worker!Init
BY NobodyBusy DEF Init, Worker!Init, Alive

\* Every step is a step of the worker, or changes nothing it can see.
LEMMA WorkerStep ==
    ASSUME TypeOK, Single, Reporting, Single', [Next]_vars
    PROVE  [Worker!Next]_(Worker!vars)
<1>1. CASE UNCHANGED vars
  BY <1>1, SameTasks DEF vars, Worker!vars
<1>2. ASSUME NEW s \in Sessions, CancelSession(s) PROVE [Worker!Next]_(Worker!vars)
  BY <1>2, SameTasks DEF CancelSession, taskVars, tokenVars, runVars, serverVars,
     Worker!vars
<1>3. ASSUME NEW s \in Sessions, SetFlag(s) PROVE [Worker!Next]_(Worker!vars)
  BY <1>3, SameTasks DEF SetFlag, taskVars, tokenVars, runVars, serverVars, Worker!vars
<1>4. ASSUME NEW s \in Sessions, CancelCheck(s) PROVE [Worker!Next]_(Worker!vars)
  BY <1>4, SameTasks DEF CancelCheck, taskVars, tokenVars, runVars, serverVars, Worker!vars
<1>5. ASSUME NEW s \in Sessions, CancelSignal(s) PROVE [Worker!Next]_(Worker!vars)
  BY <1>5, SameTasks DEF CancelSignal, taskVars, tokenVars, runVars, serverVars, Worker!vars
<1>6. ASSUME NEW s \in Sessions, CancelLost(s) PROVE [Worker!Next]_(Worker!vars)
  BY <1>6, SameTasks DEF CancelLost, taskVars, tokenVars, runVars, serverVars, Worker!vars
<1>7. ASSUME NEW s \in Sessions, StallBegin(s) PROVE [Worker!Next]_(Worker!vars)
  BY <1>7, SameTasks DEF StallBegin, taskVars, tokenVars, runVars, serverVars, Worker!vars
<1>8. ASSUME StallEnd PROVE [Worker!Next]_(Worker!vars)
  <2>1. Busy' = Busy /\ decided' = decided
    BY <1>8, SameTasks DEF StallEnd, taskVars, tokenVars, runVars
  <2>2. stall \in Sessions
    BY <1>8 DEF StallEnd, TypeOK
  <2>3. recorded' = recorded \/ recorded' = recorded \union {<<stall, "Failed">>}
    BY <1>8 DEF StallEnd
  <2>4. CASE recorded' = recorded
    BY <2>1, <2>4 DEF Worker!vars
  <2>5. CASE recorded' = recorded \union {<<stall, "Failed">>}
    BY <2>1, <2>2, <2>5 DEF Worker!Next, Worker!GiveUp
  <2>q. QED BY <2>3, <2>4, <2>5
<1>9. ASSUME PollStatus PROVE [Worker!Next]_(Worker!vars)
  BY <1>9, SameTasks DEF PollStatus, taskVars, tokenVars, runVars, serverVars, Worker!vars
<1>10. ASSUME PollServe PROVE [Worker!Next]_(Worker!vars)
  BY <1>10, SameTasks DEF PollServe, taskVars, tokenVars, runVars, serverVars, Worker!vars
<1>11. ASSUME PollLost PROVE [Worker!Next]_(Worker!vars)
  BY <1>11, SameTasks DEF PollLost, taskVars, tokenVars, runVars, serverVars, Worker!vars
<1>12. ASSUME PollReceive PROVE [Worker!Next]_(Worker!vars)
  <2>1. Busy' = Busy /\ decided' = decided
    BY <1>12, SameTasks DEF PollReceive, taskVars, tokenVars, runVars
  <2>2. CASE recorded' = recorded
    BY <2>1, <2>2 DEF Worker!vars
  <2>3. CASE progress # NoReport /\ UpdateSession(progress[1], progress[2]) /\ recorded' # recorded
    <3>1. progress[2] \in Outcomes /\ recorded' = recorded \union {<<progress[1], progress[2]>>}
      BY <2>3, UpdateRecords
    <3>2. progress[1] \in Sessions /\ progress = <<progress[1], progress[2]>>
      BY <2>3 DEF TypeOK, Reports
    <3>3. progress \in decided
      BY <3>1 DEF Reporting, Reported
    <3>4. Worker!Learn(progress[1], progress[2])
      BY <2>1, <3>1, <3>2, <3>3 DEF Worker!Learn
    <3>q. QED BY <3>1, <3>2, <3>4 DEF Worker!Next, Worker!Outcomes, Outcomes
  <2>q. QED BY <1>12, <2>2, <2>3 DEF PollReceive
<1>13. ASSUME PollWork PROVE [Worker!Next]_(Worker!vars)
  BY <1>13, SameTasks DEF PollWork, taskVars, tokenVars, runVars, serverVars, Worker!vars
<1>14. ASSUME InitiateServe PROVE [Worker!Next]_(Worker!vars)
  BY <1>14, SameTasks DEF InitiateServe, taskVars, runVars, serverVars, Worker!vars
<1>15. ASSUME InitiateLost PROVE [Worker!Next]_(Worker!vars)
  BY <1>15, SameTasks DEF InitiateLost, taskVars, tokenVars, runVars, serverVars,
     Worker!vars
<1>16. ASSUME RequestWork PROVE [Worker!Next]_(Worker!vars)
  BY <1>16, SameTasks DEF RequestWork, taskVars, tokenVars, runVars, serverVars, Worker!vars
<1>17. ASSUME AnswerWork PROVE [Worker!Next]_(Worker!vars)
  BY <1>17, SameTasks DEF AnswerWork, taskVars, tokenVars, runVars, serverVars, Worker!vars
<1>18. ASSUME AnswerLost PROVE [Worker!Next]_(Worker!vars)
  BY <1>18, SameTasks DEF AnswerLost, taskVars, tokenVars, runVars, serverVars, Worker!vars
<1>19. ASSUME FollowOrders PROVE [Worker!Next]_(Worker!vars)
  BY <1>19, SameTasks DEF FollowOrders, taskVars, runVars, serverVars, Worker!vars
<1>20. ASSUME NEW r \in Slots, RunAborts(r) PROVE [Worker!Next]_(Worker!vars)
  <2>1. Alive(r) /\ \A x \in Slots : ~ Alive(x)'
    BY <1>20 DEF RunAborts, Return, Alive, Single, Preparing, TypeOK
  <2>2. Worker!Rest
    BY <1>20, <2>1, NobodyBusy DEF RunAborts, Return, serverVars, Worker!Rest
  <2>q. QED BY <2>2 DEF Worker!Next
<1>21. ASSUME NEW r \in Slots, RunSetupFails(r) PROVE [Worker!Next]_(Worker!vars)
  <2>1. Busy' = Busy /\ Busy = doing[r]
    <3>1. Alive(r) /\ Goto(r, "failing")
      BY <1>21 DEF RunSetupFails, Alive
    <3>q. QED BY <3>1, GotoKeepsBusy
  <2>q. QED BY <1>21, <2>1 DEF RunSetupFails, serverVars, Worker!vars
<1>22. ASSUME NEW r \in Slots, RunStarts(r) PROVE [Worker!Next]_(Worker!vars)
  <2>1. Busy' = Busy /\ Busy = doing[r]
    <3>1. Alive(r) /\ Goto(r, "started")
      BY <1>22 DEF RunStarts, Alive
    <3>q. QED BY <3>1, GotoKeepsBusy
  <2>q. QED BY <1>22, <2>1 DEF RunStarts, serverVars, Worker!vars
<1>23. ASSUME NEW r \in Slots, RunReports(r) PROVE [Worker!Next]_(Worker!vars)
  <2>1. Busy' = Busy /\ Busy = doing[r]
    <3>1. Alive(r) /\ Goto(r, "scanning")
      BY <1>23 DEF RunReports, Alive
    <3>q. QED BY <3>1, GotoKeepsBusy
  <2>2. recorded' = recorded
    BY <1>23, UpdateRecords DEF RunReports, Post, Outcomes
  <2>q. QED BY <1>23, <2>1, <2>2 DEF RunReports, runVars, Worker!vars
<1>24. ASSUME NEW r \in Slots, NEW ok \in BOOLEAN, RunFinishes(r, ok) PROVE [Worker!Next]_(Worker!vars)
  <2>1. Busy' = Busy /\ Busy = doing[r]
    <3>1. Alive(r) /\ Goto(r, "report")
      BY <1>24 DEF RunFinishes, Alive
    <3>q. QED BY <3>1, GotoKeepsBusy
  <2>2. session = doing[r] /\ doing[r] \in Sessions
    BY <1>24 DEF RunFinishes, Reporting, Working, Alive
  <2>3. PICK o \in Outcomes : decided' = decided \union {<<session, o>>}
    BY <1>24 DEF RunFinishes, Outcomes
  <2>4. Worker!Decide(o)
    BY <1>24, <2>1, <2>2, <2>3, NoneAssumption DEF RunFinishes, serverVars, Worker!Decide
  <2>q. QED BY <2>4 DEF Worker!Next, Worker!Outcomes, Outcomes
<1>25. ASSUME NEW r \in Slots, RunPosts(r) PROVE [Worker!Next]_(Worker!vars)
  <2>1. Busy' = Busy /\ Busy = doing[r]
    <3>1. Alive(r) /\ Goto(r, "store")
      BY <1>25 DEF RunPosts, Alive
    <3>q. QED BY <3>1, GotoKeepsBusy
  <2>2. session \in Sessions /\ <<session, outcome[r]>> \in decided
    BY <1>25 DEF RunPosts, Reporting, Working, Finishing, Alive
  <2>3. recorded' = recorded \/ (outcome[r] \in Outcomes /\ recorded' = recorded \union {<<session, outcome[r]>>})
    BY <1>25, UpdateRecords DEF RunPosts, Post
  <2>4. decided' = decided
    BY <1>25 DEF RunPosts, runVars
  <2>5. CASE recorded' = recorded
    BY <2>1, <2>4, <2>5 DEF Worker!vars
  <2>6. CASE outcome[r] \in Outcomes /\ recorded' = recorded \union {<<session, outcome[r]>>}
    <3>1. Worker!Learn(session, outcome[r])
      BY <2>1, <2>2, <2>4, <2>6 DEF Worker!Learn
    <3>q. QED BY <2>2, <2>6, <3>1 DEF Worker!Next, Worker!Outcomes, Outcomes
  <2>q. QED BY <2>3, <2>5, <2>6
<1>26. ASSUME NEW r \in Slots, RunStores(r) PROVE [Worker!Next]_(Worker!vars)
  <2>1. Busy' = Busy /\ Busy = doing[r]
    <3>1. Alive(r) /\ Goto(r, "exit")
      BY <1>26 DEF RunStores, Alive
    <3>q. QED BY <3>1, GotoKeepsBusy
  <2>q. QED BY <1>26, <2>1 DEF RunStores, serverVars, Worker!vars
<1>27. ASSUME NEW r \in Slots, RunExits(r) PROVE [Worker!Next]_(Worker!vars)
  <2>1. Alive(r) /\ \A x \in Slots : ~ Alive(x)'
    BY <1>27 DEF RunExits, Return, Alive, Single, Preparing, TypeOK
  <2>2. Worker!Rest
    BY <1>27, <2>1, NobodyBusy DEF RunExits, Return, serverVars, Worker!Rest
  <2>q. QED BY <2>2 DEF Worker!Next
<1>28. ASSUME DaemonRestart PROVE [Worker!Next]_(Worker!vars)
  <2>1. \A x \in Slots : ~ Alive(x)'
    BY <1>28 DEF DaemonRestart, Alive
  <2>2. Worker!Rest
    BY <1>28, <2>1, NobodyBusy DEF DaemonRestart, serverVars, Worker!Rest
  <2>q. QED BY <2>2 DEF Worker!Next
<1>29. ASSUME ClearTask PROVE [Worker!Next]_(Worker!vars)
  BY <1>29, SameTasks DEF ClearTask, taskVars, runVars, serverVars, Worker!vars
<1>30. ASSUME Spawn PROVE [Worker!Next]_(Worker!vars)
  <2>1. \A x \in Slots : ~ Alive(x)
    BY <1>30 DEF Spawn, Single, Preparing
  <2>2. PICK r \in Slots : holder' = r /\ pc' = [pc EXCEPT ![r] = "setup"] /\ doing' = [doing EXCEPT ![r] = order]
    BY <1>30, SpawnFills
  <2>3. order \in Sessions
    BY <1>30 DEF Spawn, Reporting, Sending, Preparing, TypeOK
  <2>4. Alive(r)' /\ doing'[r] = order
    BY <2>2 DEF Alive, TypeOK
  <2>5. Busy = None /\ Busy' = order
    BY <2>1, <2>4, NobodyBusy, BusyIsDoingNext
  <2>6. Worker!Begin(order)
    BY <1>30, <2>5 DEF Spawn, serverVars, runVars, Worker!Begin
  <2>q. QED BY <2>3, <2>6 DEF Worker!Next
<1>31. ASSUME SetCurrentTask PROVE [Worker!Next]_(Worker!vars)
  BY <1>31, SameTasks DEF SetCurrentTask, taskVars, runVars, serverVars, Worker!vars
<1>q. QED BY <1>1, <1>2, <1>3, <1>4, <1>5, <1>6, <1>7, <1>8, <1>9, <1>10, <1>11, <1>12,
             <1>13, <1>14, <1>15, <1>16, <1>17, <1>18, <1>19, <1>20, <1>21, <1>22, <1>23,
             <1>24, <1>25, <1>26, <1>27, <1>28, <1>29, <1>30, <1>31
          DEF Next, Cancel, ServerPoll, DaemonPoll, InitiateSession, Run


\* Daemon and server together implement the worker (ImplementsWorker): one
\* session at a time, and every outcome in the history was decided by the
\* daemon for that session or is the server's verdict on a stalled one, across
\* lost and repeated messages, retries and restarts.
THEOREM Implementation == Spec => ImplementsWorker
<1>1. Init => Worker!Init
  BY WorkerInit
<1>2. IInv /\ IInv' /\ [Next]_vars => [Worker!Next]_(Worker!vars)
  BY WorkerStep DEF IInv
<1>q. QED BY <1>1, <1>2, Invariance, PTL DEF Spec, ImplementsWorker, Worker!Spec

-----------------------------------------------------------------------------
(***************************************************************************)
(* The terminal payload.                                                   *)
(***************************************************************************)

\* The states of a task between initialize_session and the end of its session.
InSession == {"started", "scanning", "failing", "report", "store"}

\* A session is handed to the daemon only in the round that asks for work; in
\* a round that found the daemon ready nothing runs, and while a session is
\* being handed over nothing runs but the task it started.
Rounds ==
    /\ order # None => loop \in {"send", "answered", "spawned"} \union Preparing
    /\ loop \in {"poll", "served", "work"} /\ ready => \A r \in Slots : ~ Alive(r)
    /\ order # None => \A r \in Slots : Alive(r) => doing[r] = order

\* While there is a current session a task works on it and no payload is kept;
\* a poll response that shows a session is followed by no new task until it
\* has been received.
Settled ==
    /\ session # None => terminal = NoReport /\ \E r \in Slots : pc[r] \in InSession
    /\ loop = "served" /\ progress[2] = "Scanning" => \A r \in Slots : pc[r] # "setup"

\* As long as the server waits for the session of the payload, the daemon is
\* given no other, and only that one can be about to start again.
Owed ==
    terminal # NoReport /\ server[terminal[1]] \in Live =>
        /\ \A r \in Slots : pc[r] = "setup" => doing[r] = terminal[1]
        /\ order # None => order = terminal[1]

Payload == Rounds /\ Settled /\ Owed

\* Every step keeps the rounds apart.
LEMMA RoundsStep ==
    ASSUME TypeOK, Single, Rounds, [Next]_vars
    PROVE  Rounds'
<1>1. CASE UNCHANGED vars
  BY <1>1 DEF Rounds, Preparing, Alive, vars
<1>2. ASSUME NEW s \in Sessions, CancelSession(s) PROVE Rounds'
  BY <1>2, NoneAssumption DEF Rounds, Preparing, Alive, TypeOK, CancelSession, serverVars,
     taskVars, tokenVars, loopVars, runVars
<1>3. ASSUME NEW s \in Sessions, SetFlag(s) PROVE Rounds'
  BY <1>3, NoneAssumption DEF Rounds, Preparing, Alive, TypeOK, SetFlag, serverVars,
     taskVars, tokenVars,
     loopVars, runVars
<1>4. ASSUME NEW s \in Sessions, CancelCheck(s) PROVE Rounds'
  BY <1>4, NoneAssumption DEF Rounds, Preparing, Alive, TypeOK, CancelCheck, serverVars,
     taskVars, tokenVars,
     loopVars, runVars
<1>5. ASSUME NEW s \in Sessions, CancelSignal(s) PROVE Rounds'
  BY <1>5, NoneAssumption DEF Rounds, Preparing, Alive, TypeOK, CancelSignal, serverVars,
     taskVars, tokenVars,
     loopVars, runVars
<1>6. ASSUME NEW s \in Sessions, CancelLost(s) PROVE Rounds'
  BY <1>6, NoneAssumption DEF Rounds, Preparing, Alive, TypeOK, CancelLost, serverVars,
     taskVars, tokenVars,
     loopVars, runVars
<1>7. ASSUME NEW s \in Sessions, StallBegin(s) PROVE Rounds'
  BY <1>7, NoneAssumption DEF Rounds, Preparing, Alive, TypeOK, StallBegin, serverVars,
     taskVars, tokenVars,
     loopVars, runVars
<1>8. ASSUME StallEnd PROVE Rounds'
  BY <1>8, NoneAssumption DEF Rounds, Preparing, Alive, TypeOK, StallEnd, serverVars,
     taskVars, tokenVars,
     loopVars, runVars
<1>9. ASSUME PollStatus PROVE Rounds'
  <2>1. ready' => \A r \in Slots : ~ Alive(r)
    <3>1. ready' => ~ Running
      BY <1>9 DEF PollStatus
    <3>q. QED BY <1>9, <3>1, NoneAssumption DEF Single, Running, PollStatus
  <2>q. QED BY <1>9, <2>1 DEF Rounds, Preparing, Alive, PollStatus, taskVars
<1>10. ASSUME PollServe PROVE Rounds'
  BY <1>10, NoneAssumption DEF Rounds, Preparing, Alive, TypeOK, PollServe, serverVars,
     taskVars, tokenVars,
     loopVars, runVars, GetProgress
<1>11. ASSUME PollLost PROVE Rounds'
  BY <1>11, NoneAssumption DEF Rounds, Preparing, Alive, TypeOK, PollLost, serverVars,
     taskVars, tokenVars,
     loopVars, runVars
<1>12. ASSUME PollReceive PROVE Rounds'
  BY <1>12, NoneAssumption DEF Rounds, Preparing, Alive, TypeOK, PollReceive, serverVars,
     taskVars, tokenVars,
     loopVars, runVars
<1>13. ASSUME PollWork PROVE Rounds'
  BY <1>13, NoneAssumption DEF Rounds, Preparing, Alive, TypeOK, PollWork, PickWork,
     taskVars, tokenVars
<1>14. ASSUME InitiateServe PROVE Rounds'
  BY <1>14 DEF Rounds, Preparing, Alive, InitiateServe, taskVars
<1>15. ASSUME InitiateLost PROVE Rounds'
  BY <1>15, NoneAssumption DEF Rounds, Preparing, Alive, TypeOK, InitiateLost, serverVars,
     taskVars, tokenVars, loopVars, runVars
<1>16. ASSUME RequestWork PROVE Rounds'
  BY <1>16, NoneAssumption DEF Rounds, Preparing, Alive, TypeOK, RequestWork, serverVars,
     taskVars, tokenVars,
     loopVars, runVars, Running
<1>17. ASSUME AnswerWork PROVE Rounds'
  BY <1>17, NoneAssumption DEF Rounds, Preparing, Alive, Single, Preparing, TypeOK,
     AnswerWork, PickWork, taskVars, tokenVars
<1>18. ASSUME AnswerLost PROVE Rounds'
  BY <1>18, NoneAssumption DEF Rounds, Preparing, Alive, TypeOK, AnswerLost, serverVars,
     taskVars, tokenVars,
     loopVars, runVars
<1>19. ASSUME FollowOrders PROVE Rounds'
  BY <1>19 DEF Rounds, Preparing, Alive, FollowOrders, taskVars
<1>20. ASSUME NEW r \in Slots, RunAborts(r) PROVE Rounds'
  BY <1>20, NoneAssumption DEF Rounds, Preparing, Alive, TypeOK, RunAborts, serverVars,
     taskVars, tokenVars,
     loopVars, runVars, Return
<1>21. ASSUME NEW r \in Slots, RunSetupFails(r) PROVE Rounds'
  BY <1>21, NoneAssumption DEF Rounds, Preparing, Alive, TypeOK, RunSetupFails, serverVars,
     taskVars, tokenVars, loopVars, runVars, Goto, InitializeSession
<1>22. ASSUME NEW r \in Slots, RunStarts(r) PROVE Rounds'
  BY <1>22, NoneAssumption DEF Rounds, Preparing, Alive, TypeOK, RunStarts, serverVars,
     taskVars, tokenVars,
     loopVars, runVars, Goto, InitializeSession
<1>23. ASSUME NEW r \in Slots, RunReports(r) PROVE Rounds'
  BY <1>23, NoneAssumption DEF Rounds, Preparing, Alive, TypeOK, RunReports, serverVars,
     taskVars, tokenVars,
     loopVars, runVars, Goto
<1>24. ASSUME NEW r \in Slots, NEW ok \in BOOLEAN, RunFinishes(r, ok) PROVE Rounds'
  BY <1>24, NoneAssumption DEF Rounds, Preparing, Alive, TypeOK, RunFinishes, serverVars,
     taskVars, tokenVars,
     loopVars, runVars, Goto
<1>25. ASSUME NEW r \in Slots, RunPosts(r) PROVE Rounds'
  BY <1>25, NoneAssumption DEF Rounds, Preparing, Alive, TypeOK, RunPosts, serverVars,
     taskVars, tokenVars,
     loopVars, runVars, Goto
<1>26. ASSUME NEW r \in Slots, RunStores(r) PROVE Rounds'
  BY <1>26, NoneAssumption DEF Rounds, Preparing, Alive, TypeOK, RunStores, serverVars,
     taskVars, tokenVars,
     loopVars, runVars, Goto
<1>27. ASSUME NEW r \in Slots, RunExits(r) PROVE Rounds'
  BY <1>27, NoneAssumption DEF Rounds, Preparing, Alive, TypeOK, RunExits, serverVars,
     taskVars, tokenVars,
     loopVars, runVars, Return
<1>28. ASSUME DaemonRestart PROVE Rounds'
  BY <1>28, NoneAssumption DEF Rounds, Preparing, Alive, TypeOK, DaemonRestart, serverVars,
     taskVars, tokenVars, loopVars, runVars
<1>29. ASSUME ClearTask PROVE Rounds'
  BY <1>29 DEF Rounds, Preparing, Alive, ClearTask, taskVars
<1>30. ASSUME Spawn PROVE Rounds'
  <2>1. \A x \in Slots : ~ Alive(x)
    BY <1>30 DEF Spawn, Single, Preparing
  <2>2. PICK r \in Slots : holder' = r /\ pc' = [pc EXCEPT ![r] = "setup"] /\ doing' = [doing EXCEPT ![r] = order]
    BY <1>30, SpawnFills
  <2>q. QED BY <1>30, <2>1, <2>2 DEF Rounds, Preparing, Alive, Spawn, TypeOK
<1>31. ASSUME SetCurrentTask PROVE Rounds'
  BY <1>31 DEF Rounds, Preparing, Alive, SetCurrentTask, taskVars
<1>q. QED BY <1>1, <1>2, <1>3, <1>4, <1>5, <1>6, <1>7, <1>8, <1>9, <1>10, <1>11, <1>12,
             <1>13, <1>14, <1>15, <1>16, <1>17, <1>18, <1>19, <1>20, <1>21, <1>22, <1>23,
             <1>24, <1>25, <1>26, <1>27, <1>28, <1>29, <1>30, <1>31
          DEF Next, Cancel, ServerPoll, DaemonPoll, InitiateSession, Run

\* Every step keeps the current session and its task together.
LEMMA SettledStep ==
    ASSUME TypeOK, Single, Working, Settled, [Next]_vars
    PROVE  Settled'
<1>1. CASE UNCHANGED vars
  BY <1>1 DEF Settled, Alive, InSession, vars
<1>2. ASSUME NEW s \in Sessions, CancelSession(s) PROVE Settled'
  BY <1>2, NoneAssumption DEF Settled, Alive, InSession, TypeOK, CancelSession,
     serverVars, taskVars, tokenVars, loopVars, runVars
<1>3. ASSUME NEW s \in Sessions, SetFlag(s) PROVE Settled'
  BY <1>3, NoneAssumption DEF Settled, Alive, InSession, TypeOK, SetFlag, serverVars,
     taskVars, tokenVars, loopVars, runVars
<1>4. ASSUME NEW s \in Sessions, CancelCheck(s) PROVE Settled'
  BY <1>4, NoneAssumption DEF Settled, Alive, InSession, TypeOK, CancelCheck,
     serverVars, taskVars, tokenVars, loopVars, runVars
<1>5. ASSUME NEW s \in Sessions, CancelSignal(s) PROVE Settled'
  BY <1>5, NoneAssumption DEF Settled, Alive, InSession, TypeOK, CancelSignal,
     serverVars, taskVars, tokenVars, loopVars, runVars
<1>6. ASSUME NEW s \in Sessions, CancelLost(s) PROVE Settled'
  BY <1>6, NoneAssumption DEF Settled, Alive, InSession, TypeOK, CancelLost, serverVars,
     taskVars, tokenVars, loopVars, runVars
<1>7. ASSUME NEW s \in Sessions, StallBegin(s) PROVE Settled'
  BY <1>7, NoneAssumption DEF Settled, Alive, InSession, TypeOK, StallBegin, serverVars,
     taskVars, tokenVars, loopVars, runVars
<1>8. ASSUME StallEnd PROVE Settled'
  BY <1>8, NoneAssumption DEF Settled, Alive, InSession, TypeOK, StallEnd, serverVars,
     taskVars, tokenVars, loopVars, runVars
<1>9. ASSUME PollStatus PROVE Settled'
  BY <1>9, NoneAssumption DEF Settled, Alive, InSession, TypeOK, PollStatus, serverVars,
     taskVars, tokenVars, loopVars, runVars, Running
<1>10. ASSUME PollServe PROVE Settled'
  <2>1. terminal[2] # "Scanning"
    BY DEF TypeOK, NoReport, Outcomes
  <2>2. session # None => \A r \in Slots : pc[r] # "setup"
    BY DEF Settled, InSession, Single, Preparing, Alive
  <2>q. QED BY <1>10, <2>1, <2>2 DEF Settled, PollServe, GetProgress, taskVars, tokenVars
<1>11. ASSUME PollLost PROVE Settled'
  BY <1>11 DEF Settled, PollLost, NoReport, taskVars, tokenVars, runVars
<1>12. ASSUME PollReceive PROVE Settled'
  BY <1>12, NoneAssumption DEF Settled, Alive, InSession, TypeOK, PollReceive,
     serverVars, taskVars, tokenVars, loopVars, runVars
<1>13. ASSUME PollWork PROVE Settled'
  BY <1>13, NoneAssumption DEF Settled, Alive, InSession, TypeOK, PollWork, serverVars,
     taskVars, tokenVars, loopVars, runVars
<1>14. ASSUME InitiateServe PROVE Settled'
  BY <1>14 DEF Settled, Alive, InSession, InitiateServe, taskVars, runVars
<1>15. ASSUME InitiateLost PROVE Settled'
  BY <1>15, NoneAssumption DEF Settled, Alive, InSession, TypeOK, InitiateLost,
     serverVars, taskVars, tokenVars, loopVars, runVars
<1>16. ASSUME RequestWork PROVE Settled'
  BY <1>16, NoneAssumption DEF Settled, Alive, InSession, TypeOK, RequestWork,
     serverVars, taskVars, tokenVars, loopVars, runVars, Running
<1>17. ASSUME AnswerWork PROVE Settled'
  BY <1>17, NoneAssumption DEF Settled, Alive, InSession, TypeOK, AnswerWork,
     serverVars, taskVars, tokenVars, loopVars, runVars
<1>18. ASSUME AnswerLost PROVE Settled'
  BY <1>18, NoneAssumption DEF Settled, Alive, InSession, TypeOK, AnswerLost,
     serverVars, taskVars, tokenVars, loopVars, runVars
<1>19. ASSUME FollowOrders PROVE Settled'
  BY <1>19 DEF Settled, Alive, InSession, FollowOrders, taskVars, runVars
<1>20. ASSUME NEW r \in Slots, RunAborts(r) PROVE Settled'
  BY <1>20, NoneAssumption DEF Settled, Alive, InSession, TypeOK, RunAborts, serverVars,
     taskVars, tokenVars, loopVars, runVars, Return
<1>21. ASSUME NEW r \in Slots, RunSetupFails(r) PROVE Settled'
  BY <1>21, NoneAssumption DEF Settled, Alive, InSession, TypeOK, RunSetupFails,
     serverVars, taskVars, tokenVars, loopVars, runVars, Goto, InitializeSession
<1>22. ASSUME NEW r \in Slots, RunStarts(r) PROVE Settled'
  BY <1>22, NoneAssumption DEF Settled, Alive, InSession, TypeOK, RunStarts, serverVars,
     taskVars, tokenVars, loopVars, runVars, Goto, InitializeSession
<1>23. ASSUME NEW r \in Slots, RunReports(r) PROVE Settled'
  BY <1>23, NoneAssumption DEF Settled, Alive, InSession, TypeOK, RunReports,
     serverVars, taskVars, tokenVars, loopVars, runVars, Goto
<1>24. ASSUME NEW r \in Slots, NEW ok \in BOOLEAN, RunFinishes(r, ok) PROVE Settled'
  BY <1>24, NoneAssumption DEF Settled, Alive, InSession, TypeOK, RunFinishes,
     serverVars, taskVars, tokenVars, loopVars, runVars, Goto
<1>25. ASSUME NEW r \in Slots, RunPosts(r) PROVE Settled'
  BY <1>25, NoneAssumption DEF Settled, Alive, InSession, TypeOK, RunPosts, serverVars,
     taskVars, tokenVars, loopVars, runVars, Goto
<1>26. ASSUME NEW r \in Slots, RunStores(r) PROVE Settled'
  BY <1>26, NoneAssumption DEF Settled, Alive, InSession, TypeOK, RunStores, serverVars,
     taskVars, tokenVars, loopVars, runVars, Goto
<1>27. ASSUME NEW r \in Slots, RunExits(r) PROVE Settled'
  BY <1>27, NoneAssumption DEF Settled, Alive, InSession, TypeOK, RunExits, serverVars,
     taskVars, tokenVars, loopVars, runVars, Return
<1>28. ASSUME DaemonRestart PROVE Settled'
  BY <1>28, NoneAssumption DEF Settled, Alive, InSession, TypeOK, DaemonRestart,
     serverVars, taskVars, tokenVars, loopVars, runVars
<1>29. ASSUME ClearTask PROVE Settled'
  BY <1>29 DEF Settled, Alive, InSession, ClearTask, taskVars, runVars
<1>30. ASSUME Spawn PROVE Settled'
  <2>1. \A x \in Slots : ~ Alive(x)
    BY <1>30 DEF Spawn, Single, Preparing
  <2>2. PICK r \in Slots : holder' = r /\ pc' = [pc EXCEPT ![r] = "setup"] /\ doing' = [doing EXCEPT ![r] = order]
    BY <1>30, SpawnFills
  <2>q. QED BY <1>30, <2>1, <2>2 DEF Settled, Alive, InSession, Spawn, TypeOK, runVars
<1>31. ASSUME SetCurrentTask PROVE Settled'
  BY <1>31 DEF Settled, Alive, InSession, SetCurrentTask, taskVars, runVars
<1>q. QED BY <1>1, <1>2, <1>3, <1>4, <1>5, <1>6, <1>7, <1>8, <1>9, <1>10, <1>11, <1>12,
             <1>13, <1>14, <1>15, <1>16, <1>17, <1>18, <1>19, <1>20, <1>21, <1>22, <1>23,
             <1>24, <1>25, <1>26, <1>27, <1>28, <1>29, <1>30, <1>31
          DEF Next, Cancel, ServerPoll, DaemonPoll, InitiateSession, Run

\* No step hands out, or starts, another session while a payload is owed.
LEMMA OwedStep ==
    ASSUME TypeOK, Single, Reporting, Rounds, Settled, Owed, [Next]_vars
    PROVE  Owed'
<1>1. CASE UNCHANGED vars
  BY <1>1 DEF Owed, Alive, vars
<1>2. ASSUME NEW s \in Sessions, CancelSession(s) PROVE Owed'
  BY <1>2, NoneAssumption DEF Owed, Alive, TypeOK, CancelSession, serverVars, taskVars,
     tokenVars,
     loopVars, runVars
<1>3. ASSUME NEW s \in Sessions, SetFlag(s) PROVE Owed'
  BY <1>3, NoneAssumption DEF Owed, Alive, TypeOK, SetFlag, serverVars, taskVars, tokenVars,
     loopVars, runVars
<1>4. ASSUME NEW s \in Sessions, CancelCheck(s) PROVE Owed'
  BY <1>4, NoneAssumption DEF Owed, Alive, TypeOK, CancelCheck, serverVars, taskVars,
     tokenVars,
     loopVars, runVars
<1>5. ASSUME NEW s \in Sessions, CancelSignal(s) PROVE Owed'
  BY <1>5, NoneAssumption DEF Owed, Alive, TypeOK, CancelSignal, serverVars, taskVars,
     tokenVars,
     loopVars, runVars
<1>6. ASSUME NEW s \in Sessions, CancelLost(s) PROVE Owed'
  BY <1>6, NoneAssumption DEF Owed, Alive, TypeOK, CancelLost, serverVars, taskVars,
     tokenVars,
     loopVars, runVars
<1>7. ASSUME NEW s \in Sessions, StallBegin(s) PROVE Owed'
  BY <1>7, NoneAssumption DEF Owed, Alive, TypeOK, StallBegin, serverVars, taskVars,
     tokenVars,
     loopVars, runVars
<1>8. ASSUME StallEnd PROVE Owed'
  <2>1. terminal # NoReport => terminal[1] \in Sessions
    BY DEF TypeOK
  <2>2. \A s \in Sessions : server'[s] \in Live => server[s] \in Live
    BY <1>8 DEF StallEnd, TypeOK, Live
  <2>3. UNCHANGED <<terminal, pc, doing, order>>
    BY <1>8 DEF StallEnd, loopVars, taskVars, tokenVars, runVars
  <2>q. QED BY <2>1, <2>2, <2>3 DEF Owed
<1>9. ASSUME PollStatus PROVE Owed'
  BY <1>9, NoneAssumption DEF Owed, Alive, TypeOK, PollStatus, serverVars, taskVars,
     tokenVars,
     loopVars, runVars, Running
<1>10. ASSUME PollServe PROVE Owed'
  BY <1>10, NoneAssumption DEF Owed, Alive, TypeOK, PollServe, serverVars, taskVars,
     tokenVars,
     loopVars, runVars, GetProgress
<1>11. ASSUME PollLost PROVE Owed'
  BY <1>11, NoneAssumption DEF Owed, Alive, TypeOK, PollLost, serverVars, taskVars,
     tokenVars,
     loopVars, runVars
<1>12. ASSUME PollReceive PROVE Owed'
  <2>1. terminal # NoReport => terminal[1] \in Sessions
    BY DEF TypeOK
  <2>2. UNCHANGED <<terminal, pc, doing, order>> /\ loop = "served" /\ order = None
    BY <1>12 DEF PollReceive, taskVars, runVars, Rounds, Preparing
  <2>3. CASE progress[2] = "Scanning"
    BY <2>2, <2>3 DEF Owed, Settled
  <2>4. CASE progress[2] # "Scanning"
    <3>1. progress # NoReport => progress[1] \in Sessions /\ progress[2] \in Outcomes
      BY <2>4 DEF TypeOK, Reports
    <3>2. \A s \in Sessions : server'[s] \in Live => server[s] \in Live
      BY <1>12, <3>1 DEF PollReceive, UpdateSession, TypeOK, Live
    <3>q. QED BY <2>1, <2>2, <3>2 DEF Owed
  <2>q. QED BY <2>3, <2>4
<1>13. ASSUME PollWork PROVE Owed'
  <2>1. terminal # NoReport => terminal[1] \in Sessions
    BY DEF TypeOK
  <2>2. UNCHANGED <<terminal, pc, doing>>
    BY <1>13 DEF PollWork, taskVars, tokenVars, runVars
  <2>3. CASE ready
    <3>1. \A r \in Slots : pc[r] # "setup"
      BY <1>13, <2>3 DEF PollWork, Rounds, Alive
    <3>2. \A s \in Sessions : server'[s] \in Live => order' \in {None, s}
      BY <1>13, <2>3 DEF PollWork, PickWork, HasActive, TypeOK
    <3>q. QED BY <2>1, <2>2, <3>1, <3>2 DEF Owed
  <2>4. CASE ~ ready
    BY <1>13, <2>2, <2>4 DEF PollWork, Owed
  <2>q. QED BY <2>3, <2>4
<1>14. ASSUME InitiateServe PROVE Owed'
  BY <1>14 DEF Owed, Alive, InitiateServe, serverVars, taskVars, runVars
<1>15. ASSUME InitiateLost PROVE Owed'
  BY <1>15, NoneAssumption DEF Owed, Alive, TypeOK, InitiateLost, serverVars, taskVars,
     tokenVars,
     loopVars, runVars
<1>16. ASSUME RequestWork PROVE Owed'
  BY <1>16, NoneAssumption DEF Owed, Alive, TypeOK, RequestWork, serverVars, taskVars,
     tokenVars,
     loopVars, runVars, Running
<1>17. ASSUME AnswerWork PROVE Owed'
  <2>1. terminal # NoReport => terminal[1] \in Sessions
    BY DEF TypeOK
  <2>2. UNCHANGED <<terminal, pc, doing>>
    BY <1>17 DEF AnswerWork, taskVars, tokenVars, runVars
  <2>3. CASE ready
    <3>1. \A r \in Slots : pc[r] # "setup"
      BY <1>17, <2>3 DEF AnswerWork, Single, Preparing, Alive
    <3>2. \A s \in Sessions : server'[s] \in Live => order' \in {None, s}
      BY <1>17, <2>3 DEF AnswerWork, PickWork, HasActive, TypeOK
    <3>q. QED BY <2>1, <2>2, <3>1, <3>2 DEF Owed
  <2>4. CASE ~ ready
    BY <1>17, <2>2, <2>4 DEF AnswerWork, Owed
  <2>q. QED BY <2>3, <2>4
<1>18. ASSUME AnswerLost PROVE Owed'
  BY <1>18, NoneAssumption DEF Owed, Alive, TypeOK, AnswerLost, serverVars, taskVars,
     tokenVars,
     loopVars, runVars
<1>19. ASSUME FollowOrders PROVE Owed'
  BY <1>19 DEF Owed, Alive, FollowOrders, serverVars, taskVars, runVars
<1>20. ASSUME NEW r \in Slots, RunAborts(r) PROVE Owed'
  BY <1>20, NoneAssumption DEF Owed, Alive, TypeOK, RunAborts, serverVars, taskVars,
     tokenVars,
     loopVars, runVars, Return
<1>21. ASSUME NEW r \in Slots, RunSetupFails(r) PROVE Owed'
  BY <1>21, NoneAssumption DEF Owed, Alive, TypeOK, RunSetupFails, serverVars, taskVars,
     tokenVars,
     loopVars, runVars, Goto, InitializeSession
<1>22. ASSUME NEW r \in Slots, RunStarts(r) PROVE Owed'
  BY <1>22, NoneAssumption DEF Owed, Alive, TypeOK, RunStarts, serverVars, taskVars,
     tokenVars,
     loopVars, runVars, Goto, InitializeSession
<1>23. ASSUME NEW r \in Slots, RunReports(r) PROVE Owed'
  <2>1. terminal = NoReport
    BY <1>23 DEF RunReports, Settled
  <2>q. QED BY <1>23, <2>1 DEF RunReports, Owed, runVars
<1>24. ASSUME NEW r \in Slots, NEW ok \in BOOLEAN, RunFinishes(r, ok) PROVE Owed'
  BY <1>24, NoneAssumption DEF Owed, Alive, TypeOK, RunFinishes, serverVars, taskVars,
     tokenVars,
     loopVars, runVars, Goto
<1>25. ASSUME NEW r \in Slots, RunPosts(r) PROVE Owed'
  <2>1. terminal = NoReport
    BY <1>25 DEF RunPosts, Settled
  <2>q. QED BY <1>25, <2>1 DEF RunPosts, Owed, runVars
<1>26. ASSUME NEW r \in Slots, RunStores(r) PROVE Owed'
  <2>1. terminal'[1] = doing[r] /\ UNCHANGED <<doing, order>>
    BY <1>26 DEF RunStores, Reporting, Working, Goto, loopVars
  <2>2. \A x \in Slots : pc'[x] # "setup"
    BY <1>26 DEF RunStores, Goto, Single, Preparing, Alive, TypeOK
  <2>3. order # None => order = doing[r]
    BY <1>26 DEF RunStores, Rounds, Alive
  <2>q. QED BY <2>1, <2>2, <2>3 DEF Owed
<1>27. ASSUME NEW r \in Slots, RunExits(r) PROVE Owed'
  BY <1>27, NoneAssumption DEF Owed, Alive, TypeOK, RunExits, serverVars, taskVars,
     tokenVars,
     loopVars, runVars, Return
<1>28. ASSUME DaemonRestart PROVE Owed'
  BY <1>28, NoneAssumption DEF Owed, Alive, TypeOK, DaemonRestart, serverVars, taskVars,
     tokenVars,
     loopVars, runVars
<1>29. ASSUME ClearTask PROVE Owed'
  BY <1>29 DEF Owed, Alive, ClearTask, serverVars, taskVars, runVars
<1>30. ASSUME Spawn PROVE Owed'
  <2>1. \A x \in Slots : ~ Alive(x)
    BY <1>30 DEF Spawn, Single, Preparing
  <2>2. PICK r \in Slots : holder' = r /\ pc' = [pc EXCEPT ![r] = "setup"] /\ doing' = [doing EXCEPT ![r] = order]
    BY <1>30, SpawnFills
  <2>3. UNCHANGED <<terminal, server, order>>
    BY <1>30 DEF Spawn, serverVars, runVars
  <2>4. ASSUME NEW x \in Slots, pc'[x] = "setup" PROVE doing'[x] = order
    BY <2>1, <2>2, <2>4 DEF Alive, TypeOK
  <2>5. order # None
    BY <1>30 DEF Spawn, Reporting, Sending, Preparing
  <2>q. QED BY <2>3, <2>4, <2>5 DEF Owed
<1>31. ASSUME SetCurrentTask PROVE Owed'
  BY <1>31 DEF Owed, Alive, SetCurrentTask, serverVars, taskVars, runVars
<1>q. QED BY <1>1, <1>2, <1>3, <1>4, <1>5, <1>6, <1>7, <1>8, <1>9, <1>10, <1>11, <1>12,
             <1>13, <1>14, <1>15, <1>16, <1>17, <1>18, <1>19, <1>20, <1>21, <1>22, <1>23,
             <1>24, <1>25, <1>26, <1>27, <1>28, <1>29, <1>30, <1>31
          DEF Next, Cancel, ServerPoll, DaemonPoll, InitiateSession, Run

\* The payload's part of the invariant holds in every reachable state.
LEMMA PayloadInvariance == Spec => []Payload
<1>1. Init => Payload
  BY NoneAssumption DEF Init, Payload, Rounds, Settled, Owed
<1>2. IInv /\ Payload /\ [Next]_vars => Payload'
  BY RoundsStep, SettledStep, OwedStep DEF IInv, Payload, Reporting
<1>q. QED BY <1>1, <1>2, Invariance, PTL DEF Spec

\* The steps that can lose the payload: the start of a task (initialize_session
\* clears it unread), and a restart.
LEMMA PayloadStep ==
    ASSUME TypeOK, Payload, [Next]_vars,
           terminal # NoReport, terminal' = NoReport, session' # session
    PROVE  session' = terminal[1] \/ server[terminal[1]] \notin Live
<1>1. session = None
  BY DEF Payload, Settled
<1>2. CASE \E r \in Slots : RunSetupFails(r) \/ RunStarts(r)
  BY <1>2 DEF RunSetupFails, RunStarts, InitializeSession, Payload, Owed
<1>3. CASE UNCHANGED session
  BY <1>3
<1>4. CASE session' = None
  BY <1>1, <1>4
<1>5. CASE UNCHANGED vars
  BY <1>5 DEF vars
<1>6. CASE \E s \in Sessions : Cancel(s) \/ StallBegin(s)
  BY <1>6, <1>3 DEF Cancel, CancelSession, SetFlag, CancelCheck, CancelSignal, CancelLost,
     StallBegin,
     runVars
<1>7. CASE StallEnd
  BY <1>7, <1>3 DEF StallEnd, runVars
<1>8. CASE ServerPoll
  BY <1>8, <1>3 DEF ServerPoll, PollStatus, PollServe, PollLost, PollReceive, PollWork,
     InitiateServe, InitiateLost, runVars
<1>9. CASE DaemonPoll \/ InitiateSession
  BY <1>9, <1>3 DEF InitiateSession, ClearTask, Spawn, SetCurrentTask, DaemonPoll,
     RequestWork, AnswerWork, AnswerLost, FollowOrders, runVars
<1>10. ASSUME NEW r \in Slots, Run(r)
       PROVE  session' = terminal[1] \/ server[terminal[1]] \notin Live
  <2>1. CASE RunSetupFails(r) \/ RunStarts(r)
    BY <1>2, <2>1
  <2>2. CASE RunStores(r)
    BY <1>4, <2>2 DEF RunStores
  <2>3. CASE RunAborts(r) \/ RunReports(r) \/ RunFinishes(r, TRUE) \/ RunFinishes(r, FALSE)
             \/ RunPosts(r) \/ RunExits(r)
    BY <1>3, <2>3 DEF RunAborts, RunReports, RunFinishes, RunPosts, RunExits, runVars
  <2>q. QED BY <1>10, <2>1, <2>2, <2>3 DEF Run
<1>11. CASE DaemonRestart
  BY <1>4, <1>11 DEF DaemonRestart
<1>q. QED BY <1>5, <1>6, <1>7, <1>8, <1>9, <1>10, <1>11 DEF Next

\* The outcome kept for the next poll is never cleared by another session's
\* start while the server still waits for it (PayloadKept), although
\* initialize_session clears it without looking: with lost answers, retried
\* hand-overs, stale readiness and restarts, a daemon that owes a payload is
\* handed no other session.
THEOREM PayloadNotLost == Spec => PayloadKept
<1>1. ASSUME IInv, Payload, [Next]_vars
      PROVE  [(terminal # NoReport /\ terminal' = NoReport /\ session' # session)
              => \/ session' = terminal[1]
                 \/ server[terminal[1]] \notin Live]_vars
  BY <1>1, PayloadStep DEF IInv
<1>q. QED BY Invariance, PayloadInvariance, <1>1, PTL DEF Spec, PayloadKept

=============================================================================
