-------------------------- MODULE RootAuthorityProofs --------------------------
(***************************************************************************)
(* That nobody is served by roots the client has taken away, for every set *)
(* of calls and roots and every history of the client's.                   *)
(***************************************************************************)
EXTENDS RootAuthority, TLAPS

\* Epochs are given out in order, and what was given out is not newer than the
\* authority's.
Epochs ==
    /\ pending <= authority.epoch
    /\ \A c \in Call : task[c].epoch <= authority.epoch

\* What a handler knows, from how far its call is.
Handlers ==
    /\ known <= declared /\ \A v \in notices : v <= declared
    /\ seen => known >= 1
    /\ pending # 0 => seen
    /\ \A c \in Call :
         /\ pc[c] \in {"off", "waiting", "turn"} => task[c] = Idle
         /\ pc[c] = "installing" => task[c].got # 0
         /\ pc[c] \notin Answer \cup {"off", "waiting", "turn"} => known >= 1

\* The answer of the client's that a handler has for the refresh in progress is
\* no older than the newest change the server was told of.
AnswersFresh ==
    \A c \in Call : task[c].got # 0 =>
        /\ task[c].got <= declared
        /\ Current(task[c].epoch) => task[c].got >= known

\* The root of a read is in the view of its generation, and that of a mutation
\* in the view while it holds it; only calls whose roots were refreshed do.
Targets ==
    \A c \in Call :
        /\ c \in guard => pc[c] \in {"ready", "resolved", "loaded", "committing"} \cup Answer
        /\ pc[c] = "reading" =>
             /\ task[c].gen <= authority.generation
             /\ task[c].gen = authority.generation /\ authority.view # None =>
                  task[c].target \in authority.view
        /\ c \in guard /\ pc[c] \in {"ready", "resolved", "loaded", "committing"} =>
             task[c].target \in authority.view

\* What was served once stays in the history, and there an identifier names one
\* root.
Histories ==
    /\ Distinct(history)
    /\ authority.view # None => authority.view \subseteq history
    /\ \A c \in Call : task[c].target # None => task[c].target \in history

\* What RootsOf makes of a version: a set of roots, in which no identifier is
\* given twice.
LEMMA RootsOfType ==
  ASSUME NEW v \in 0 .. Versions
  PROVE  /\ RootsOf(v) \in SUBSET Root /\ RootsOf(v) # None
         /\ Distinct(RootsOf(v))
  BY RootAssumption, ClientAssumption, NoneAssumption DEF RootsOf

\* What a handler knows after it forgot everything, has an epoch, an answer or a
\* target.
LEMMA KnowledgeTyped ==
  ASSUME TypeOK
  PROVE  /\ Idle \in Knowledge
         /\ \A c \in Call : [task EXCEPT ![c] = Idle] \in [Call -> Knowledge]
         /\ \A c \in Call, e \in Nat : [task EXCEPT ![c].epoch = e] \in [Call -> Knowledge]
         /\ \A c \in Call, v \in 0 .. Versions :
              [task EXCEPT ![c].got = v] \in [Call -> Knowledge]
         /\ \A c \in Call, r \in Root : [task EXCEPT ![c].target = r] \in [Call -> Knowledge]
         /\ \A c \in Call, r \in Root, g \in Nat :
              [task EXCEPT ![c].target = r, ![c].gen = g] \in [Call -> Knowledge]
  <1>1. Idle \in Knowledge
    BY ClientAssumption DEF Idle, Knowledge
  <1>2. task \in [Call -> Knowledge]
    BY DEF TypeOK
  <1>. QED BY <1>1, <1>2 DEF Knowledge

\* The same of what becomes of the authority.
LEMMA AuthorityTyped ==
  ASSUME TypeOK
  PROVE  /\ [authority EXCEPT !.state = "refreshing", !.epoch = @ + 1] \in Authority
         /\ Disabled \in Authority
         /\ \A v \in 0 .. Versions : Applied(RootsOf(v)) \in Authority
  <1>1. authority \in Authority
    BY DEF TypeOK
  <1>2. [authority EXCEPT !.state = "refreshing", !.epoch = @ + 1] \in Authority
    <2>1. authority.epoch + 1 \in Nat
      BY <1>1 DEF Authority
    <2>. QED BY <1>1, <2>1 DEF Authority
  <1>3. Disabled \in Authority
    BY <1>1 DEF Authority, Disabled
  <1>4. ASSUME NEW v \in 0 .. Versions PROVE Applied(RootsOf(v)) \in Authority
    <2>1. RootsOf(v) \in SUBSET Root
      BY RootsOfType
    <2>2. (IF RootsOf(v) = authority.view THEN authority.generation
                                          ELSE authority.generation + 1) \in Nat
      BY <1>1 DEF Authority
    <2>. QED BY <1>1, <2>1, <2>2 DEF Authority, Applied
  <1>. QED BY <1>2, <1>3, <1>4

\* A refresh that begins, and what its notification tells.
LEMMA RefreshTyped ==
  ASSUME TypeOK, BeginRefresh, NEW v \in 1 .. Versions, Know(v)
  PROVE  /\ guard = {} /\ authority' \in Authority /\ authority'.state = "refreshing"
         /\ authority.epoch + 1 \in Nat /\ known' \in 0 .. Versions
  <1>1. authority' \in Authority
    BY AuthorityTyped DEF BeginRefresh
  <1>2. authority.epoch + 1 \in Nat
    BY DEF TypeOK, Authority
  <1>3. known' \in 0 .. Versions
    BY DEF TypeOK, Know
  <1>4. guard = {} /\ authority'.state = "refreshing"
    BY DEF BeginRefresh, TypeOK, Authority
  <1>. QED BY <1>1, <1>2, <1>3, <1>4

\* Whatever a call is about next.
LEMMA PhaseTyped ==
  ASSUME TypeOK, NEW c \in Call
  PROVE  \A phase \in Phase : [pc EXCEPT ![c] = phase] \in [Call -> Phase]
  BY DEF TypeOK

\* Every step keeps the types.
LEMMA TypesKept ==
  ASSUME TypeOK, [Next]_vars
  PROVE  TypeOK'
  <1>0. UNCHANGED vars \/ Next
    OBVIOUS
  <1>1. CASE ChangeRoots
    BY <1>1, CallAssumption, NoneAssumption, ClientAssumption DEF TypeOK, Phase, Answer,
      ChangeRoots, sync, clocks, call
  <1>2. CASE OnInitialized
    <2>1. CASE MarkPending /\ Know(1)
      <3>1. 1 \in 1 .. Versions /\ BeginRefresh
        BY <2>1, ClientAssumption DEF MarkPending
      <3>. QED
        BY <1>2, <2>1, <3>1, RefreshTyped DEF TypeOK, OnInitialized, MarkPending, clocks, call
    <2>2. CASE UNCHANGED <<authority, seen, pending, known>>
      BY <1>2, <2>2 DEF TypeOK, OnInitialized, clocks, call
    <2>. QED BY <1>2, <2>1, <2>2 DEF OnInitialized
  <1>3. ASSUME NEW v \in notices, OnRootsListChanged(v) PROVE TypeOK'
    <2>1. v \in 1 .. Versions /\ BeginRefresh /\ Know(v)
      BY <1>3 DEF TypeOK, OnRootsListChanged, MarkPending
    <2>. QED
      BY <1>3, <2>1, RefreshTyped DEF TypeOK, OnRootsListChanged, MarkPending, clocks, call
  <1>4. ASSUME NEW epoch \in timers, Deadline(epoch) PROVE TypeOK'
    BY <1>4, CallAssumption, NoneAssumption, ClientAssumption DEF TypeOK, Phase, Answer,
      Deadline, client, sync, call
  <1>5. ASSUME NEW epoch \in timers, TimeOut(epoch) PROVE TypeOK'
    BY <1>5, CallAssumption, NoneAssumption, ClientAssumption, AuthorityTyped DEF
      TypeOK, Phase, Answer, TimeOut, Disable, Disabled, Current, client, sync, call,
      Authority
  <1>6. ASSUME NEW c \in Call, Cancel(c) PROVE TypeOK'
    BY <1>6, CallAssumption, NoneAssumption, ClientAssumption DEF TypeOK, Phase, Answer,
      Cancel, client, sync, clocks
  <1>7. ASSUME NEW c \in Call, Begin(c) PROVE TypeOK'
    BY <1>7, CallAssumption, NoneAssumption, ClientAssumption DEF TypeOK, Phase, Answer,
      Begin, Goto, client, sync, clocks
  <1>8. ASSUME NEW c \in Call, Reject(c) PROVE TypeOK'
    BY <1>8, CallAssumption, NoneAssumption, ClientAssumption, KnowledgeTyped DEF
      TypeOK, Phase, Answer, Reject, Conclude, Goto, Idle, client, sync, clocks
  <1>9. ASSUME NEW c \in Call, ClientAnswers(c) PROVE TypeOK'
    <2>1. declared \in 0 .. Versions /\ task' = [task EXCEPT ![c].got = declared]
      BY <1>9, ClientAssumption DEF TypeOK, ClientAnswers
    <2>2. task' \in [Call -> Knowledge]
      BY <2>1, KnowledgeTyped
    <2>. QED BY <1>9, <2>2 DEF TypeOK, ClientAnswers, client, sync, clocks
  <1>10. ASSUME NEW c \in Call, TakeTurn(c) PROVE TypeOK'
    BY <1>10, CallAssumption, NoneAssumption, ClientAssumption DEF TypeOK, Phase,
      Answer, TakeTurn, Goto, client, clocks
  <1>11. ASSUME NEW c \in Call, TakePending(c) PROVE TypeOK'
    <2>1. "ready" \in Phase /\ "asking" \in Phase
      BY DEF Phase
    <2>2. CASE ~seen /\ BeginRefresh /\ Know(1) /\ Acquire(c, authority.epoch + 1) /\ UNCHANGED turn
      <3>1. 1 \in 1 .. Versions
        BY ClientAssumption
      <3>2. authority' \in Authority /\ authority'.state = "refreshing" /\ known' \in 0 .. Versions
            /\ guard = {} /\ authority.epoch + 1 \in Nat
        BY <2>2, <3>1, RefreshTyped
      <3>3. task' \in [Call -> Knowledge] /\ timers' \subseteq Nat /\ pc' \in [Call -> Phase]
        BY <2>1, <2>2, <3>2, KnowledgeTyped, PhaseTyped DEF TypeOK, Acquire, Goto
      <3>. QED BY <1>11, <2>2, <3>2, <3>3 DEF TypeOK, TakePending
    <2>3. CASE Acquire(c, pending) /\ UNCHANGED <<authority, known, turn>>
      <3>1. task' \in [Call -> Knowledge] /\ timers' \subseteq Nat /\ pc' \in [Call -> Phase]
        BY <2>1, <2>3, KnowledgeTyped, PhaseTyped DEF TypeOK, Acquire, Goto
      <3>. QED BY <1>11, <2>3, <3>1 DEF TypeOK, TakePending
    <2>4. CASE /\ Goto(c, "ready") /\ turn' = None
               /\ UNCHANGED <<authority, known, task, timers>>
      BY <1>11, <2>1, <2>4, PhaseTyped DEF TypeOK, TakePending, Goto
    <2>. QED BY <1>11, <2>2, <2>3, <2>4 DEF TakePending
  <1>12. ASSUME NEW c \in Call, Receive(c) PROVE TypeOK'
    BY <1>12, CallAssumption, NoneAssumption, ClientAssumption DEF TypeOK, Phase,
      Answer, Receive, Goto, client, sync, clocks
  <1>13. ASSUME NEW c \in Call, AcquisitionFails(c) PROVE TypeOK'
    BY <1>13, CallAssumption, NoneAssumption, ClientAssumption, KnowledgeTyped,
      AuthorityTyped DEF TypeOK, Phase, Answer, AcquisitionFails, Disable, Disabled,
      Current, NextTurn, Goto, Idle, client, sync, Authority, Knowledge
  <1>14. ASSUME NEW c \in Call, Install(c) PROVE TypeOK'
    <2>1. CASE UNCHANGED <<authority, history, failed>>
      BY <1>14, CallAssumption, NoneAssumption, ClientAssumption, KnowledgeTyped,
        AuthorityTyped, RootsOfType, <2>1 DEF TypeOK, Phase, Answer, Install,
        MayInstall, Current, Disabled, Applied, NextTurn, Goto, Idle, client, sync,
        Authority, Knowledge
    <2>2. CASE authority' = Disabled /\ failed' = task[c].epoch /\ UNCHANGED history
      BY <1>14, CallAssumption, NoneAssumption, ClientAssumption, KnowledgeTyped,
        AuthorityTyped, RootsOfType, <2>2 DEF TypeOK, Phase, Answer, Install,
        MayInstall, Current, Disabled, Applied, NextTurn, Goto, Idle, client, sync,
        Authority, Knowledge
    <2>3. CASE /\ MayInstall(task[c].epoch) /\ ~Conflicts(RootsOf(task[c].got))
               /\ authority' = Applied(RootsOf(task[c].got))
               /\ history' = history \cup RootsOf(task[c].got) /\ UNCHANGED failed
      BY <1>14, CallAssumption, NoneAssumption, ClientAssumption, KnowledgeTyped,
        AuthorityTyped, RootsOfType, <2>3 DEF TypeOK, Phase, Answer, Install,
        MayInstall, Current, Disabled, Applied, NextTurn, Goto, Idle, client, sync,
        Authority, Knowledge
    <2>. QED BY <1>14, <2>1, <2>2, <2>3 DEF Install
  <1>15. ASSUME NEW c \in Call, Withdraw(c) PROVE TypeOK'
    BY <1>15, CallAssumption, NoneAssumption, ClientAssumption, AuthorityTyped DEF
      TypeOK, Phase, Answer, Withdraw, Disable, Disabled, Current, Goto, client, sync,
      clocks, Authority
  <1>16. ASSUME NEW c \in Call, LeavePending(c) PROVE TypeOK'
    BY <1>16, CallAssumption, NoneAssumption, ClientAssumption, KnowledgeTyped,
      AuthorityTyped DEF TypeOK, Phase, Answer, LeavePending, MarkPending, BeginRefresh,
      Conclude, Goto, Idle, client, clocks, Authority
  <1>17. ASSUME NEW c \in Call, GiveUp(c) PROVE TypeOK'
    BY <1>17, CallAssumption, NoneAssumption, ClientAssumption, KnowledgeTyped DEF
      TypeOK, Phase, Answer, GiveUp, Conclude, Goto, Idle, client, sync, clocks
  <1>18. ASSUME NEW c \in Call, Elsewhere(c) PROVE TypeOK'
    BY <1>18, CallAssumption, NoneAssumption, ClientAssumption, KnowledgeTyped DEF
      TypeOK, Phase, Answer, Elsewhere, Conclude, Goto, Idle, client, sync, clocks
  <1>19. ASSUME NEW c \in Call, View(c) PROVE TypeOK'
    <2>1. CASE Conclude(c, "refused")
      BY <1>19, CallAssumption, NoneAssumption, ClientAssumption, KnowledgeTyped,
        AuthorityTyped, <2>1 DEF TypeOK, Phase, Answer, View, Conclude, Goto, Idle,
        client, sync, clocks, Authority
    <2>2. ASSUME NEW r \in authority.view, authority.state = "active", Goto(c, "reading"),
                   task' = [task EXCEPT ![c].target = r, ![c].gen = authority.generation]
            PROVE  TypeOK'
      BY <1>19, CallAssumption, NoneAssumption, ClientAssumption, KnowledgeTyped,
        AuthorityTyped, <2>2 DEF TypeOK, Phase, Answer, View, Conclude, Goto, Idle,
        client, sync, clocks, Authority
    <2>. QED BY <1>19, <2>1, <2>2 DEF View
  <1>20. ASSUME NEW c \in Call, Deliver(c) PROVE TypeOK'
    BY <1>20, CallAssumption, NoneAssumption, ClientAssumption, KnowledgeTyped DEF
      TypeOK, Phase, Answer, Deliver, Conclude, Goto, Idle, client, sync, clocks
  <1>21. ASSUME NEW c \in Call, EnterStage(c) PROVE TypeOK'
    <2>1. ASSUME authority.state = "active", guard' = guard \cup {c}, NEW r \in Named(c),
                   task' = [task EXCEPT ![c].target = r], UNCHANGED <<pc, cancelled>>
            PROVE  TypeOK'
      BY <1>21, CallAssumption, NoneAssumption, ClientAssumption, KnowledgeTyped, <2>1
        DEF TypeOK, Phase, Answer, EnterStage, Conclude, Goto, Idle, Uncancelled, Named,
        client, sync, clocks, Authority
    <2>2. CASE Conclude(c, "refused") /\ UNCHANGED guard
      BY <1>21, CallAssumption, NoneAssumption, ClientAssumption, KnowledgeTyped, <2>2
        DEF TypeOK, Phase, Answer, EnterStage, Conclude, Goto, Idle, Uncancelled, Named,
        client, sync, clocks, Authority
    <2>. QED BY <1>21, <2>1, <2>2 DEF EnterStage
  <1>22. ASSUME NEW c \in Call, ExitStage(c) PROVE TypeOK'
    <2>1. guard' \subseteq guard /\ Answer \subseteq Phase
          /\ {"resolved", "loaded", "served", "refused"} \subseteq Phase
      BY <1>22 DEF ExitStage, Phase, Answer
    <2>2. CASE UNCHANGED call
      BY <1>22, <2>1, <2>2 DEF TypeOK, ExitStage, client, sync, clocks, call
    <2>3. ASSUME NEW phase \in Phase, Goto(c, phase), UNCHANGED <<task, cancelled>>
          PROVE  TypeOK'
      BY <1>22, <2>1, <2>3, PhaseTyped DEF TypeOK, ExitStage, Goto, client, sync, clocks
    <2>4. ASSUME NEW phase \in Phase, Conclude(c, phase)
          PROVE  TypeOK'
      BY <1>22, <2>1, <2>4, PhaseTyped, KnowledgeTyped
      DEF TypeOK, ExitStage, Conclude, Goto, client, sync, clocks
    <2>. QED BY <1>22, <2>1, <2>2, <2>3, <2>4 DEF ExitStage
  <1>23. ASSUME NEW c \in Call, BeginCommit(c) PROVE TypeOK'
    <2>1. "committing" \in Phase /\ "refused" \in Phase
      BY DEF Phase, Answer
    <2>2. CASE Goto(c, "committing") /\ UNCHANGED <<task, cancelled>>
      BY <1>23, <2>1, <2>2, PhaseTyped DEF TypeOK, BeginCommit, Goto, client, sync, clocks
    <2>3. CASE Conclude(c, "refused")
      BY <1>23, <2>1, <2>3, PhaseTyped, KnowledgeTyped
      DEF TypeOK, BeginCommit, Conclude, Goto, client, sync, clocks
    <2>. QED BY <1>23, <2>2, <2>3 DEF BeginCommit
  <1>24. CASE UNCHANGED vars
    BY <1>24, CallAssumption, NoneAssumption, ClientAssumption DEF vars, client, sync,
      clocks, call, TypeOK, Phase, Answer
  <1>. QED BY <1>0, <1>1, <1>2, <1>3, <1>4, <1>5, <1>6, <1>7, <1>8, <1>9, <1>10, <1>11,
    <1>12, <1>13, <1>14, <1>15, <1>16, <1>17, <1>18, <1>19, <1>20, <1>21, <1>22, <1>23,
    <1>24 DEF Next, Clock, Refresh, Serve

\* Only a refresh that begins gives out an epoch.
LEMMA EpochsKept ==
  ASSUME TypeOK, Epochs, [Next]_vars
  PROVE  Epochs'
  <1>0. UNCHANGED vars \/ Next
    OBVIOUS
  <1>1. CASE ChangeRoots
    BY <1>1 DEF TypeOK, Epochs, Knowledge, Authority, ChangeRoots, sync, clocks, call
  <1>2. CASE OnInitialized
    <2>1. CASE MarkPending /\ Know(1) /\ ~seen
      BY <1>2, <2>1 DEF TypeOK, Epochs, Knowledge, Authority, OnInitialized,
        MarkPending, BeginRefresh, Know, clocks, call
    <2>2. CASE UNCHANGED <<authority, seen, pending, known>>
      BY <1>2, <2>2 DEF TypeOK, Epochs, Knowledge, Authority, OnInitialized,
        MarkPending, BeginRefresh, Know, clocks, call
    <2>. QED BY <1>2, <2>1, <2>2 DEF OnInitialized
  <1>3. ASSUME NEW v \in notices, OnRootsListChanged(v) PROVE Epochs'
    BY <1>3 DEF TypeOK, Epochs, Knowledge, Authority, OnRootsListChanged, MarkPending,
      BeginRefresh, Know, clocks, call
  <1>4. ASSUME NEW epoch \in timers, Deadline(epoch) PROVE Epochs'
    BY <1>4 DEF TypeOK, Epochs, Knowledge, Authority, Deadline, client, sync, call
  <1>5. ASSUME NEW epoch \in timers, TimeOut(epoch) PROVE Epochs'
    BY <1>5 DEF TypeOK, Epochs, Knowledge, Authority, TimeOut, Disable, Disabled,
      Current, client, sync, call
  <1>6. ASSUME NEW c \in Call, Cancel(c) PROVE Epochs'
    BY <1>6 DEF TypeOK, Epochs, Knowledge, Authority, Cancel, client, sync, clocks
  <1>7. ASSUME NEW c \in Call, Begin(c) PROVE Epochs'
    BY <1>7 DEF TypeOK, Epochs, Knowledge, Authority, Begin, Goto, client, sync, clocks
  <1>8. ASSUME NEW c \in Call, Reject(c) PROVE Epochs'
    BY <1>8 DEF TypeOK, Epochs, Knowledge, Authority, Reject, Conclude, Goto, Idle,
      client, sync, clocks
  <1>9. ASSUME NEW c \in Call, ClientAnswers(c) PROVE Epochs'
    BY <1>9 DEF TypeOK, Epochs, Knowledge, Authority, ClientAnswers, client, sync,
      clocks
  <1>10. ASSUME NEW c \in Call, TakeTurn(c) PROVE Epochs'
    BY <1>10 DEF TypeOK, Epochs, Knowledge, Authority, TakeTurn, Goto, client, clocks
  <1>11. ASSUME NEW c \in Call, TakePending(c) PROVE Epochs'
    <2>1. CASE ~seen /\ BeginRefresh /\ Know(1) /\ Acquire(c, authority.epoch + 1) /\ UNCHANGED turn
      BY <1>11, <2>1 DEF TypeOK, Epochs, Knowledge, Authority, TakePending,
        BeginRefresh, Know, Acquire, Goto
    <2>2. CASE Acquire(c, pending) /\ UNCHANGED <<authority, known, turn>> /\ pending # 0
      BY <1>11, <2>2 DEF TypeOK, Epochs, Knowledge, Authority, TakePending,
        BeginRefresh, Know, Acquire, Goto
    <2>3. CASE /\ seen /\ Goto(c, "ready") /\ turn' = None
               /\ UNCHANGED <<authority, known, task, timers>>
      BY <1>11, <2>3 DEF TypeOK, Epochs, Knowledge, Authority, TakePending,
        BeginRefresh, Know, Acquire, Goto
    <2>. QED BY <1>11, <2>1, <2>2, <2>3 DEF TakePending
  <1>12. ASSUME NEW c \in Call, Receive(c) PROVE Epochs'
    BY <1>12 DEF TypeOK, Epochs, Knowledge, Authority, Receive, Goto, client, sync,
      clocks
  <1>13. ASSUME NEW c \in Call, AcquisitionFails(c) PROVE Epochs'
    BY <1>13 DEF TypeOK, Epochs, Knowledge, Authority, AcquisitionFails, Disable,
      Disabled, Current, NextTurn, Goto, Idle, client, sync
  <1>14. ASSUME NEW c \in Call, Install(c) PROVE Epochs'
    <2>1. CASE UNCHANGED <<authority, history, failed>>
      BY <1>14, <2>1 DEF TypeOK, Epochs, Knowledge, Authority, Install, MayInstall,
        Current, Disabled, Applied, NextTurn, Goto, Idle, client, sync
    <2>2. CASE authority' = Disabled /\ failed' = task[c].epoch /\ UNCHANGED history
      BY <1>14, <2>2 DEF TypeOK, Epochs, Knowledge, Authority, Install, MayInstall,
        Current, Disabled, Applied, NextTurn, Goto, Idle, client, sync
    <2>3. CASE /\ MayInstall(task[c].epoch) /\ ~Conflicts(RootsOf(task[c].got))
               /\ authority' = Applied(RootsOf(task[c].got))
               /\ history' = history \cup RootsOf(task[c].got) /\ UNCHANGED failed
      BY <1>14, <2>3 DEF TypeOK, Epochs, Knowledge, Authority, Install, MayInstall,
        Current, Disabled, Applied, NextTurn, Goto, Idle, client, sync
    <2>. QED BY <1>14, <2>1, <2>2, <2>3 DEF Install
  <1>15. ASSUME NEW c \in Call, Withdraw(c) PROVE Epochs'
    BY <1>15 DEF TypeOK, Epochs, Knowledge, Authority, Withdraw, Disable, Disabled,
      Current, Goto, client, sync, clocks
  <1>16. ASSUME NEW c \in Call, LeavePending(c) PROVE Epochs'
    BY <1>16 DEF TypeOK, Epochs, Knowledge, Authority, LeavePending, MarkPending,
      BeginRefresh, Conclude, Goto, Idle, client, clocks
  <1>17. ASSUME NEW c \in Call, GiveUp(c) PROVE Epochs'
    BY <1>17 DEF TypeOK, Epochs, Knowledge, Authority, GiveUp, Conclude, Goto, Idle,
      client, sync, clocks
  <1>18. ASSUME NEW c \in Call, Elsewhere(c) PROVE Epochs'
    BY <1>18 DEF TypeOK, Epochs, Knowledge, Authority, Elsewhere, Conclude, Goto, Idle,
      client, sync, clocks
  <1>19. ASSUME NEW c \in Call, View(c) PROVE Epochs'
    <2>1. CASE Conclude(c, "refused")
      BY <1>19, <2>1 DEF TypeOK, Epochs, Knowledge, Authority, View, Conclude, Goto,
        Idle, client, sync, clocks
    <2>2. ASSUME NEW r \in authority.view, authority.state = "active", Goto(c, "reading"),
                   task' = [task EXCEPT ![c].target = r, ![c].gen = authority.generation]
            PROVE  Epochs'
      <3>1. /\ task'[c].target = r /\ task'[c].gen = authority.generation
            /\ task'[c].epoch = task[c].epoch /\ task'[c].got = task[c].got
            /\ \A e \in Call \ {c} : task'[e] = task[e]
        BY <2>2 DEF TypeOK, Knowledge
      <3>2. /\ pc'[c] = "reading" /\ \A e \in Call \ {c} : pc'[e] = pc[e]
            /\ c \notin guard /\ authority' = authority /\ guard' = guard /\ history' = history
            /\ declared' = declared /\ known' = known /\ pending' = pending
        BY <1>19, <2>2 DEF TypeOK, View, Goto, client, sync
      <3>. QED
        BY <2>2, <3>1, <3>2 DEF TypeOK, Epochs, Knowledge, Authority
    <2>. QED BY <1>19, <2>1, <2>2 DEF View
  <1>20. ASSUME NEW c \in Call, Deliver(c) PROVE Epochs'
    BY <1>20 DEF TypeOK, Epochs, Knowledge, Authority, Deliver, Conclude, Goto, Idle,
      client, sync, clocks
  <1>21. ASSUME NEW c \in Call, EnterStage(c) PROVE Epochs'
    <2>1. ASSUME authority.state = "active", guard' = guard \cup {c}, NEW r \in Named(c),
                   task' = [task EXCEPT ![c].target = r], UNCHANGED <<pc, cancelled>>
            PROVE  Epochs'
      BY <1>21, <2>1 DEF TypeOK, Epochs, Knowledge, Authority, EnterStage, Conclude,
        Goto, Idle, Uncancelled, Named, client, sync, clocks
    <2>2. CASE Conclude(c, "refused") /\ UNCHANGED guard
      BY <1>21, <2>2 DEF TypeOK, Epochs, Knowledge, Authority, EnterStage, Conclude,
        Goto, Idle, Uncancelled, Named, client, sync, clocks
    <2>. QED BY <1>21, <2>1, <2>2 DEF EnterStage
  <1>22. ASSUME NEW c \in Call, ExitStage(c) PROVE Epochs'
    BY <1>22 DEF TypeOK, Epochs, Knowledge, Authority, ExitStage, Conclude, Goto, Idle,
      Uncancelled, client, sync, clocks, call
  <1>23. ASSUME NEW c \in Call, BeginCommit(c) PROVE Epochs'
    BY <1>23 DEF TypeOK, Epochs, Knowledge, Authority, BeginCommit, Conclude, Goto,
      Idle, client, sync, clocks
  <1>24. CASE UNCHANGED vars
    BY <1>24 DEF vars, client, sync, clocks, call, TypeOK, Epochs, Knowledge, Authority
  <1>. QED BY <1>0, <1>1, <1>2, <1>3, <1>4, <1>5, <1>6, <1>7, <1>8, <1>9, <1>10, <1>11,
    <1>12, <1>13, <1>14, <1>15, <1>16, <1>17, <1>18, <1>19, <1>20, <1>21, <1>22, <1>23,
    <1>24 DEF Next, Clock, Refresh, Serve

\* A handler knows what its phase says.
LEMMA HandlersKept ==
  ASSUME TypeOK, Handlers, [Next]_vars
  PROVE  Handlers'
  <1>0. UNCHANGED vars \/ Next
    OBVIOUS
  <1>1. CASE ChangeRoots
    BY <1>1, ClientAssumption DEF TypeOK, Handlers, Answer, Idle, Knowledge, Authority,
      ChangeRoots, sync, clocks, call
  <1>2. CASE OnInitialized
    <2>1. CASE MarkPending /\ Know(1) /\ ~seen
      BY <1>2, ClientAssumption, <2>1 DEF TypeOK, Handlers, Answer, Idle, Knowledge,
        Authority, OnInitialized, MarkPending, BeginRefresh, Know, clocks, call
    <2>2. CASE UNCHANGED <<authority, seen, pending, known>>
      BY <1>2, ClientAssumption, <2>2 DEF TypeOK, Handlers, Answer, Idle, Knowledge,
        Authority, OnInitialized, MarkPending, BeginRefresh, Know, clocks, call
    <2>. QED BY <1>2, <2>1, <2>2 DEF OnInitialized
  <1>3. ASSUME NEW v \in notices, OnRootsListChanged(v) PROVE Handlers'
    BY <1>3, ClientAssumption DEF TypeOK, Handlers, Answer, Idle, Knowledge, Authority,
      OnRootsListChanged, MarkPending, BeginRefresh, Know, clocks, call
  <1>4. ASSUME NEW epoch \in timers, Deadline(epoch) PROVE Handlers'
    BY <1>4, ClientAssumption DEF TypeOK, Handlers, Answer, Idle, Knowledge, Authority,
      Deadline, client, sync, call
  <1>5. ASSUME NEW epoch \in timers, TimeOut(epoch) PROVE Handlers'
    BY <1>5, ClientAssumption DEF TypeOK, Handlers, Answer, Idle, Knowledge, Authority,
      TimeOut, Disable, Disabled, Current, client, sync, call
  <1>6. ASSUME NEW c \in Call, Cancel(c) PROVE Handlers'
    BY <1>6, ClientAssumption DEF TypeOK, Handlers, Answer, Idle, Knowledge, Authority,
      Cancel, client, sync, clocks
  <1>7. ASSUME NEW c \in Call, Begin(c) PROVE Handlers'
    BY <1>7, ClientAssumption DEF TypeOK, Handlers, Answer, Idle, Knowledge, Authority,
      Begin, Goto, client, sync, clocks
  <1>8. ASSUME NEW c \in Call, Reject(c) PROVE Handlers'
    BY <1>8, ClientAssumption DEF TypeOK, Handlers, Answer, Idle, Knowledge, Authority,
      Reject, Conclude, Goto, client, sync, clocks
  <1>9. ASSUME NEW c \in Call, ClientAnswers(c) PROVE Handlers'
    BY <1>9, ClientAssumption DEF TypeOK, Handlers, Answer, Idle, Knowledge, Authority,
      ClientAnswers, client, sync, clocks
  <1>10. ASSUME NEW c \in Call, TakeTurn(c) PROVE Handlers'
    BY <1>10, ClientAssumption DEF TypeOK, Handlers, Answer, Idle, Knowledge, Authority,
      TakeTurn, Goto, client, clocks
  <1>11. ASSUME NEW c \in Call, TakePending(c) PROVE Handlers'
    <2>1. CASE ~seen /\ BeginRefresh /\ Know(1) /\ Acquire(c, authority.epoch + 1) /\ UNCHANGED turn
      BY <1>11, ClientAssumption, <2>1 DEF TypeOK, Handlers, Answer, Idle, Knowledge,
        Authority, TakePending, BeginRefresh, Know, Acquire, Goto
    <2>2. CASE Acquire(c, pending) /\ UNCHANGED <<authority, known, turn>> /\ pending # 0
      BY <1>11, ClientAssumption, <2>2 DEF TypeOK, Handlers, Answer, Idle, Knowledge,
        Authority, TakePending, BeginRefresh, Know, Acquire, Goto
    <2>3. CASE /\ seen /\ Goto(c, "ready") /\ turn' = None
               /\ UNCHANGED <<authority, known, task, timers>>
      BY <1>11, ClientAssumption, <2>3 DEF TypeOK, Handlers, Answer, Idle, Knowledge,
        Authority, TakePending, BeginRefresh, Know, Acquire, Goto
    <2>. QED BY <1>11, <2>1, <2>2, <2>3 DEF TakePending
  <1>12. ASSUME NEW c \in Call, Receive(c) PROVE Handlers'
    BY <1>12, ClientAssumption DEF TypeOK, Handlers, Answer, Idle, Knowledge, Authority,
      Receive, Goto, client, sync, clocks
  <1>13. ASSUME NEW c \in Call, AcquisitionFails(c) PROVE Handlers'
    BY <1>13, ClientAssumption DEF TypeOK, Handlers, Answer, Idle, Knowledge, Authority,
      AcquisitionFails, Disable, Disabled, Current, NextTurn, Goto, client, sync
  <1>14. ASSUME NEW c \in Call, Install(c) PROVE Handlers'
    <2>1. CASE UNCHANGED <<authority, history, failed>>
      BY <1>14, ClientAssumption, <2>1 DEF TypeOK, Handlers, Answer, Idle, Knowledge,
        Authority, Install, MayInstall, Current, Disabled, Applied, NextTurn, Goto,
        client, sync
    <2>2. CASE authority' = Disabled /\ failed' = task[c].epoch /\ UNCHANGED history
      BY <1>14, ClientAssumption, <2>2 DEF TypeOK, Handlers, Answer, Idle, Knowledge,
        Authority, Install, MayInstall, Current, Disabled, Applied, NextTurn, Goto,
        client, sync
    <2>3. CASE /\ MayInstall(task[c].epoch) /\ ~Conflicts(RootsOf(task[c].got))
               /\ authority' = Applied(RootsOf(task[c].got))
               /\ history' = history \cup RootsOf(task[c].got) /\ UNCHANGED failed
      BY <1>14, ClientAssumption, <2>3 DEF TypeOK, Handlers, Answer, Idle, Knowledge,
        Authority, Install, MayInstall, Current, Disabled, Applied, NextTurn, Goto,
        client, sync
    <2>. QED BY <1>14, <2>1, <2>2, <2>3 DEF Install
  <1>15. ASSUME NEW c \in Call, Withdraw(c) PROVE Handlers'
    BY <1>15, ClientAssumption DEF TypeOK, Handlers, Answer, Idle, Knowledge, Authority,
      Withdraw, Disable, Disabled, Current, Goto, client, sync, clocks
  <1>16. ASSUME NEW c \in Call, LeavePending(c) PROVE Handlers'
    BY <1>16, ClientAssumption DEF TypeOK, Handlers, Answer, Idle, Knowledge, Authority,
      LeavePending, MarkPending, BeginRefresh, Conclude, Goto, client, clocks
  <1>17. ASSUME NEW c \in Call, GiveUp(c) PROVE Handlers'
    BY <1>17, ClientAssumption DEF TypeOK, Handlers, Answer, Idle, Knowledge, Authority,
      GiveUp, Conclude, Goto, client, sync, clocks
  <1>18. ASSUME NEW c \in Call, Elsewhere(c) PROVE Handlers'
    BY <1>18, ClientAssumption DEF TypeOK, Handlers, Answer, Idle, Knowledge, Authority,
      Elsewhere, Conclude, Goto, client, sync, clocks
  <1>19. ASSUME NEW c \in Call, View(c) PROVE Handlers'
    <2>1. CASE Conclude(c, "refused")
      BY <1>19, ClientAssumption, <2>1 DEF TypeOK, Handlers, Answer, Idle, Knowledge,
        Authority, View, Conclude, Goto, client, sync, clocks
    <2>2. ASSUME NEW r \in authority.view, authority.state = "active", Goto(c, "reading"),
                   task' = [task EXCEPT ![c].target = r, ![c].gen = authority.generation]
            PROVE  Handlers'
      BY <1>19, ClientAssumption, <2>2 DEF TypeOK, Handlers, Answer, Idle, Knowledge,
        Authority, View, Conclude, Goto, client, sync, clocks
    <2>. QED BY <1>19, <2>1, <2>2 DEF View
  <1>20. ASSUME NEW c \in Call, Deliver(c) PROVE Handlers'
    BY <1>20, ClientAssumption DEF TypeOK, Handlers, Answer, Idle, Knowledge, Authority,
      Deliver, Conclude, Goto, client, sync, clocks
  <1>21. ASSUME NEW c \in Call, EnterStage(c) PROVE Handlers'
    <2>1. ASSUME authority.state = "active", guard' = guard \cup {c}, NEW r \in Named(c),
                   task' = [task EXCEPT ![c].target = r], UNCHANGED <<pc, cancelled>>
            PROVE  Handlers'
      BY <1>21, ClientAssumption, <2>1 DEF TypeOK, Handlers, Answer, Idle, Knowledge,
        Authority, EnterStage, Conclude, Goto, Uncancelled, Named, client, sync, clocks
    <2>2. CASE Conclude(c, "refused") /\ UNCHANGED guard
      BY <1>21, ClientAssumption, <2>2 DEF TypeOK, Handlers, Answer, Idle, Knowledge,
        Authority, EnterStage, Conclude, Goto, Uncancelled, Named, client, sync, clocks
    <2>. QED BY <1>21, <2>1, <2>2 DEF EnterStage
  <1>22. ASSUME NEW c \in Call, ExitStage(c) PROVE Handlers'
    BY <1>22, ClientAssumption DEF TypeOK, Handlers, Answer, Idle, Knowledge, Authority,
      ExitStage, Conclude, Goto, Uncancelled, client, sync, clocks, call
  <1>23. ASSUME NEW c \in Call, BeginCommit(c) PROVE Handlers'
    BY <1>23, ClientAssumption DEF TypeOK, Handlers, Answer, Idle, Knowledge, Authority,
      BeginCommit, Conclude, Goto, client, sync, clocks
  <1>24. CASE UNCHANGED vars
    BY <1>24, ClientAssumption DEF vars, client, sync, clocks, call, TypeOK, Handlers,
      Answer, Idle, Knowledge, Authority
  <1>. QED BY <1>0, <1>1, <1>2, <1>3, <1>4, <1>5, <1>6, <1>7, <1>8, <1>9, <1>10, <1>11,
    <1>12, <1>13, <1>14, <1>15, <1>16, <1>17, <1>18, <1>19, <1>20, <1>21, <1>22, <1>23,
    <1>24 DEF Next, Clock, Refresh, Serve

\* A change the server is told of begins a refresh, for which no handler has an
\* answer yet.
LEMMA AnswersFreshKept ==
  ASSUME TypeOK, Epochs, Handlers, AnswersFresh, [Next]_vars
  PROVE  AnswersFresh'
  <1>0. UNCHANGED vars \/ Next
    OBVIOUS
  <1>1. CASE ChangeRoots
    BY <1>1 DEF TypeOK, Epochs, Handlers, AnswersFresh, Current, Idle, Knowledge,
      Authority, ChangeRoots, sync, clocks, call
  <1>2. CASE OnInitialized
    <2>1. CASE MarkPending /\ Know(1) /\ ~seen
      BY <1>2, <2>1 DEF TypeOK, Epochs, Handlers, AnswersFresh, Current, Idle,
        Knowledge, Authority, OnInitialized, MarkPending, BeginRefresh, Know, clocks,
        call
    <2>2. CASE UNCHANGED <<authority, seen, pending, known>>
      BY <1>2, <2>2 DEF TypeOK, Epochs, Handlers, AnswersFresh, Current, Idle,
        Knowledge, Authority, OnInitialized, MarkPending, BeginRefresh, Know, clocks,
        call
    <2>. QED BY <1>2, <2>1, <2>2 DEF OnInitialized
  <1>3. ASSUME NEW v \in notices, OnRootsListChanged(v) PROVE AnswersFresh'
    BY <1>3 DEF TypeOK, Epochs, Handlers, AnswersFresh, Current, Idle, Knowledge,
      Authority, OnRootsListChanged, MarkPending, BeginRefresh, Know, clocks, call
  <1>4. ASSUME NEW epoch \in timers, Deadline(epoch) PROVE AnswersFresh'
    BY <1>4 DEF TypeOK, Epochs, Handlers, AnswersFresh, Current, Idle, Knowledge,
      Authority, Deadline, client, sync, call
  <1>5. ASSUME NEW epoch \in timers, TimeOut(epoch) PROVE AnswersFresh'
    BY <1>5 DEF TypeOK, Epochs, Handlers, AnswersFresh, Current, Idle, Knowledge,
      Authority, TimeOut, Disable, Disabled, client, sync, call
  <1>6. ASSUME NEW c \in Call, Cancel(c) PROVE AnswersFresh'
    BY <1>6 DEF TypeOK, Epochs, Handlers, AnswersFresh, Current, Idle, Knowledge,
      Authority, Cancel, client, sync, clocks
  <1>7. ASSUME NEW c \in Call, Begin(c) PROVE AnswersFresh'
    BY <1>7 DEF TypeOK, Epochs, Handlers, AnswersFresh, Current, Idle, Knowledge,
      Authority, Begin, Goto, client, sync, clocks
  <1>8. ASSUME NEW c \in Call, Reject(c) PROVE AnswersFresh'
    BY <1>8 DEF TypeOK, Epochs, Handlers, AnswersFresh, Current, Idle, Knowledge,
      Authority, Reject, Conclude, Goto, client, sync, clocks
  <1>9. ASSUME NEW c \in Call, ClientAnswers(c) PROVE AnswersFresh'
    BY <1>9 DEF TypeOK, Epochs, Handlers, AnswersFresh, Current, Idle, Knowledge,
      Authority, ClientAnswers, client, sync, clocks
  <1>10. ASSUME NEW c \in Call, TakeTurn(c) PROVE AnswersFresh'
    BY <1>10 DEF TypeOK, Epochs, Handlers, AnswersFresh, Current, Idle, Knowledge,
      Authority, TakeTurn, Goto, client, clocks
  <1>11. ASSUME NEW c \in Call, TakePending(c) PROVE AnswersFresh'
    <2>1. CASE ~seen /\ BeginRefresh /\ Know(1) /\ Acquire(c, authority.epoch + 1) /\ UNCHANGED turn
      BY <1>11, <2>1 DEF TypeOK, Epochs, Handlers, AnswersFresh, Current, Idle,
        Knowledge, Authority, TakePending, BeginRefresh, Know, Acquire, Goto
    <2>2. CASE Acquire(c, pending) /\ UNCHANGED <<authority, known, turn>> /\ pending # 0
      BY <1>11, <2>2 DEF TypeOK, Epochs, Handlers, AnswersFresh, Current, Idle,
        Knowledge, Authority, TakePending, BeginRefresh, Know, Acquire, Goto
    <2>3. CASE /\ seen /\ Goto(c, "ready") /\ turn' = None
               /\ UNCHANGED <<authority, known, task, timers>>
      BY <1>11, <2>3 DEF TypeOK, Epochs, Handlers, AnswersFresh, Current, Idle,
        Knowledge, Authority, TakePending, BeginRefresh, Know, Acquire, Goto
    <2>. QED BY <1>11, <2>1, <2>2, <2>3 DEF TakePending
  <1>12. ASSUME NEW c \in Call, Receive(c) PROVE AnswersFresh'
    BY <1>12 DEF TypeOK, Epochs, Handlers, AnswersFresh, Current, Idle, Knowledge,
      Authority, Receive, Goto, client, sync, clocks
  <1>13. ASSUME NEW c \in Call, AcquisitionFails(c) PROVE AnswersFresh'
    BY <1>13 DEF TypeOK, Epochs, Handlers, AnswersFresh, Current, Idle, Knowledge,
      Authority, AcquisitionFails, Disable, Disabled, NextTurn, Goto, client, sync
  <1>14. ASSUME NEW c \in Call, Install(c) PROVE AnswersFresh'
    <2>1. CASE UNCHANGED <<authority, history, failed>>
      BY <1>14, <2>1 DEF TypeOK, Epochs, Handlers, AnswersFresh, Current, Idle,
        Knowledge, Authority, Install, MayInstall, Disabled, Applied, NextTurn, Goto,
        client, sync
    <2>2. CASE authority' = Disabled /\ failed' = task[c].epoch /\ UNCHANGED history
      BY <1>14, <2>2 DEF TypeOK, Epochs, Handlers, AnswersFresh, Current, Idle,
        Knowledge, Authority, Install, MayInstall, Disabled, Applied, NextTurn, Goto,
        client, sync
    <2>3. CASE /\ MayInstall(task[c].epoch) /\ ~Conflicts(RootsOf(task[c].got))
               /\ authority' = Applied(RootsOf(task[c].got))
               /\ history' = history \cup RootsOf(task[c].got) /\ UNCHANGED failed
      BY <1>14, <2>3 DEF TypeOK, Epochs, Handlers, AnswersFresh, Current, Idle,
        Knowledge, Authority, Install, MayInstall, Disabled, Applied, NextTurn, Goto,
        client, sync
    <2>. QED BY <1>14, <2>1, <2>2, <2>3 DEF Install
  <1>15. ASSUME NEW c \in Call, Withdraw(c) PROVE AnswersFresh'
    BY <1>15 DEF TypeOK, Epochs, Handlers, AnswersFresh, Current, Idle, Knowledge,
      Authority, Withdraw, Disable, Disabled, Goto, client, sync, clocks
  <1>16. ASSUME NEW c \in Call, LeavePending(c) PROVE AnswersFresh'
    BY <1>16 DEF TypeOK, Epochs, Handlers, AnswersFresh, Current, Idle, Knowledge,
      Authority, LeavePending, MarkPending, BeginRefresh, Conclude, Goto, client, clocks
  <1>17. ASSUME NEW c \in Call, GiveUp(c) PROVE AnswersFresh'
    BY <1>17 DEF TypeOK, Epochs, Handlers, AnswersFresh, Current, Idle, Knowledge,
      Authority, GiveUp, Conclude, Goto, client, sync, clocks
  <1>18. ASSUME NEW c \in Call, Elsewhere(c) PROVE AnswersFresh'
    BY <1>18 DEF TypeOK, Epochs, Handlers, AnswersFresh, Current, Idle, Knowledge,
      Authority, Elsewhere, Conclude, Goto, client, sync, clocks
  <1>19. ASSUME NEW c \in Call, View(c) PROVE AnswersFresh'
    <2>1. CASE Conclude(c, "refused")
      BY <1>19, <2>1 DEF TypeOK, Epochs, Handlers, AnswersFresh, Current, Idle,
        Knowledge, Authority, View, Conclude, Goto, client, sync, clocks
    <2>2. ASSUME NEW r \in authority.view, authority.state = "active", Goto(c, "reading"),
                   task' = [task EXCEPT ![c].target = r, ![c].gen = authority.generation]
            PROVE  AnswersFresh'
      <3>1. /\ task'[c].target = r /\ task'[c].gen = authority.generation
            /\ task'[c].epoch = task[c].epoch /\ task'[c].got = task[c].got
            /\ \A e \in Call \ {c} : task'[e] = task[e]
        BY <2>2 DEF TypeOK, Knowledge
      <3>2. /\ pc'[c] = "reading" /\ \A e \in Call \ {c} : pc'[e] = pc[e]
            /\ c \notin guard /\ authority' = authority /\ guard' = guard /\ history' = history
            /\ declared' = declared /\ known' = known /\ pending' = pending
        BY <1>19, <2>2 DEF TypeOK, View, Goto, client, sync
      <3>. QED
        BY <2>2, <3>1, <3>2 DEF TypeOK, Epochs, Handlers, AnswersFresh, Current, Idle,
          Knowledge, Authority
    <2>. QED BY <1>19, <2>1, <2>2 DEF View
  <1>20. ASSUME NEW c \in Call, Deliver(c) PROVE AnswersFresh'
    BY <1>20 DEF TypeOK, Epochs, Handlers, AnswersFresh, Current, Idle, Knowledge,
      Authority, Deliver, Conclude, Goto, client, sync, clocks
  <1>21. ASSUME NEW c \in Call, EnterStage(c) PROVE AnswersFresh'
    <2>1. ASSUME authority.state = "active", guard' = guard \cup {c}, NEW r \in Named(c),
                   task' = [task EXCEPT ![c].target = r], UNCHANGED <<pc, cancelled>>
            PROVE  AnswersFresh'
      BY <1>21, <2>1 DEF TypeOK, Epochs, Handlers, AnswersFresh, Current, Idle,
        Knowledge, Authority, EnterStage, Conclude, Goto, Uncancelled, Named, client,
        sync, clocks
    <2>2. CASE Conclude(c, "refused") /\ UNCHANGED guard
      BY <1>21, <2>2 DEF TypeOK, Epochs, Handlers, AnswersFresh, Current, Idle,
        Knowledge, Authority, EnterStage, Conclude, Goto, Uncancelled, Named, client,
        sync, clocks
    <2>. QED BY <1>21, <2>1, <2>2 DEF EnterStage
  <1>22. ASSUME NEW c \in Call, ExitStage(c) PROVE AnswersFresh'
    BY <1>22 DEF TypeOK, Epochs, Handlers, AnswersFresh, Current, Idle, Knowledge,
      Authority, ExitStage, Conclude, Goto, Uncancelled, client, sync, clocks, call
  <1>23. ASSUME NEW c \in Call, BeginCommit(c) PROVE AnswersFresh'
    BY <1>23 DEF TypeOK, Epochs, Handlers, AnswersFresh, Current, Idle, Knowledge,
      Authority, BeginCommit, Conclude, Goto, client, sync, clocks
  <1>24. CASE UNCHANGED vars
    BY <1>24 DEF vars, client, sync, clocks, call, TypeOK, Epochs, Handlers,
      AnswersFresh, Current, Idle, Knowledge, Authority
  <1>. QED BY <1>0, <1>1, <1>2, <1>3, <1>4, <1>5, <1>6, <1>7, <1>8, <1>9, <1>10, <1>11,
    <1>12, <1>13, <1>14, <1>15, <1>16, <1>17, <1>18, <1>19, <1>20, <1>21, <1>22, <1>23,
    <1>24 DEF Next, Clock, Refresh, Serve

\* What is put in force is an answer for the refresh in progress.
LEMMA FreshKept ==
  ASSUME TypeOK, Epochs, Handlers, AnswersFresh, AuthorityFresh, [Next]_vars
  PROVE  AuthorityFresh'
  <1>0. UNCHANGED vars \/ Next
    OBVIOUS
  <1>1. CASE ChangeRoots
    BY <1>1 DEF TypeOK, Handlers, AnswersFresh, AuthorityFresh, Knowledge, Authority,
      ChangeRoots, sync, clocks, call
  <1>2. CASE OnInitialized
    <2>1. CASE MarkPending /\ Know(1) /\ ~seen
      BY <1>2, <2>1 DEF TypeOK, Handlers, AnswersFresh, AuthorityFresh, Knowledge,
        Authority, OnInitialized, MarkPending, BeginRefresh, Know, clocks, call
    <2>2. CASE UNCHANGED <<authority, seen, pending, known>>
      BY <1>2, <2>2 DEF TypeOK, Handlers, AnswersFresh, AuthorityFresh, Knowledge,
        Authority, OnInitialized, MarkPending, BeginRefresh, Know, clocks, call
    <2>. QED BY <1>2, <2>1, <2>2 DEF OnInitialized
  <1>3. ASSUME NEW v \in notices, OnRootsListChanged(v) PROVE AuthorityFresh'
    BY <1>3 DEF TypeOK, Handlers, AnswersFresh, AuthorityFresh, Knowledge, Authority,
      OnRootsListChanged, MarkPending, BeginRefresh, Know, clocks, call
  <1>4. ASSUME NEW epoch \in timers, Deadline(epoch) PROVE AuthorityFresh'
    BY <1>4 DEF TypeOK, Handlers, AnswersFresh, AuthorityFresh, Knowledge, Authority,
      Deadline, client, sync, call
  <1>5. ASSUME NEW epoch \in timers, TimeOut(epoch) PROVE AuthorityFresh'
    BY <1>5 DEF TypeOK, Handlers, AnswersFresh, AuthorityFresh, Knowledge, Authority,
      TimeOut, Disable, Disabled, Current, client, sync, call
  <1>6. ASSUME NEW c \in Call, Cancel(c) PROVE AuthorityFresh'
    BY <1>6 DEF TypeOK, Handlers, AnswersFresh, AuthorityFresh, Knowledge, Authority,
      Cancel, client, sync, clocks
  <1>7. ASSUME NEW c \in Call, Begin(c) PROVE AuthorityFresh'
    BY <1>7 DEF TypeOK, Handlers, AnswersFresh, AuthorityFresh, Knowledge, Authority,
      Begin, Goto, client, sync, clocks
  <1>8. ASSUME NEW c \in Call, Reject(c) PROVE AuthorityFresh'
    BY <1>8 DEF TypeOK, Handlers, AnswersFresh, AuthorityFresh, Knowledge, Authority,
      Reject, Conclude, Goto, Idle, client, sync, clocks
  <1>9. ASSUME NEW c \in Call, ClientAnswers(c) PROVE AuthorityFresh'
    BY <1>9 DEF TypeOK, Handlers, AnswersFresh, AuthorityFresh, Knowledge, Authority,
      ClientAnswers, client, sync, clocks
  <1>10. ASSUME NEW c \in Call, TakeTurn(c) PROVE AuthorityFresh'
    BY <1>10 DEF TypeOK, Handlers, AnswersFresh, AuthorityFresh, Knowledge, Authority,
      TakeTurn, Goto, client, clocks
  <1>11. ASSUME NEW c \in Call, TakePending(c) PROVE AuthorityFresh'
    <2>1. CASE ~seen /\ BeginRefresh /\ Know(1) /\ Acquire(c, authority.epoch + 1) /\ UNCHANGED turn
      BY <1>11, <2>1 DEF TypeOK, Handlers, AnswersFresh, AuthorityFresh, Knowledge,
        Authority, TakePending, BeginRefresh, Know, Acquire, Goto
    <2>2. CASE Acquire(c, pending) /\ UNCHANGED <<authority, known, turn>> /\ pending # 0
      BY <1>11, <2>2 DEF TypeOK, Handlers, AnswersFresh, AuthorityFresh, Knowledge,
        Authority, TakePending, BeginRefresh, Know, Acquire, Goto
    <2>3. CASE /\ seen /\ Goto(c, "ready") /\ turn' = None
               /\ UNCHANGED <<authority, known, task, timers>>
      BY <1>11, <2>3 DEF TypeOK, Handlers, AnswersFresh, AuthorityFresh, Knowledge,
        Authority, TakePending, BeginRefresh, Know, Acquire, Goto
    <2>. QED BY <1>11, <2>1, <2>2, <2>3 DEF TakePending
  <1>12. ASSUME NEW c \in Call, Receive(c) PROVE AuthorityFresh'
    BY <1>12 DEF TypeOK, Handlers, AnswersFresh, AuthorityFresh, Knowledge, Authority,
      Receive, Goto, client, sync, clocks
  <1>13. ASSUME NEW c \in Call, AcquisitionFails(c) PROVE AuthorityFresh'
    BY <1>13 DEF TypeOK, Handlers, AnswersFresh, AuthorityFresh, Knowledge, Authority,
      AcquisitionFails, Disable, Disabled, Current, NextTurn, Goto, Idle, client, sync
  <1>14. ASSUME NEW c \in Call, Install(c) PROVE AuthorityFresh'
    <2>1. CASE UNCHANGED <<authority, history, failed>>
      BY <1>14, <2>1 DEF TypeOK, Handlers, AnswersFresh, AuthorityFresh, Knowledge,
        Authority, Install, MayInstall, Current, Disabled, Applied, NextTurn, Goto,
        Idle, client, sync
    <2>2. CASE authority' = Disabled /\ failed' = task[c].epoch /\ UNCHANGED history
      BY <1>14, <2>2 DEF TypeOK, Handlers, AnswersFresh, AuthorityFresh, Knowledge,
        Authority, Install, MayInstall, Current, Disabled, Applied, NextTurn, Goto,
        Idle, client, sync
    <2>3. CASE /\ MayInstall(task[c].epoch) /\ ~Conflicts(RootsOf(task[c].got))
               /\ authority' = Applied(RootsOf(task[c].got))
               /\ history' = history \cup RootsOf(task[c].got) /\ UNCHANGED failed
      BY <1>14, <2>3 DEF TypeOK, Handlers, AnswersFresh, AuthorityFresh, Knowledge,
        Authority, Install, MayInstall, Current, Disabled, Applied, NextTurn, Goto,
        Idle, client, sync
    <2>. QED BY <1>14, <2>1, <2>2, <2>3 DEF Install
  <1>15. ASSUME NEW c \in Call, Withdraw(c) PROVE AuthorityFresh'
    BY <1>15 DEF TypeOK, Handlers, AnswersFresh, AuthorityFresh, Knowledge, Authority,
      Withdraw, Disable, Disabled, Current, Goto, client, sync, clocks
  <1>16. ASSUME NEW c \in Call, LeavePending(c) PROVE AuthorityFresh'
    BY <1>16 DEF TypeOK, Handlers, AnswersFresh, AuthorityFresh, Knowledge, Authority,
      LeavePending, MarkPending, BeginRefresh, Conclude, Goto, Idle, client, clocks
  <1>17. ASSUME NEW c \in Call, GiveUp(c) PROVE AuthorityFresh'
    BY <1>17 DEF TypeOK, Handlers, AnswersFresh, AuthorityFresh, Knowledge, Authority,
      GiveUp, Conclude, Goto, Idle, client, sync, clocks
  <1>18. ASSUME NEW c \in Call, Elsewhere(c) PROVE AuthorityFresh'
    BY <1>18 DEF TypeOK, Handlers, AnswersFresh, AuthorityFresh, Knowledge, Authority,
      Elsewhere, Conclude, Goto, Idle, client, sync, clocks
  <1>19. ASSUME NEW c \in Call, View(c) PROVE AuthorityFresh'
    <2>1. CASE Conclude(c, "refused")
      BY <1>19, <2>1 DEF TypeOK, Handlers, AnswersFresh, AuthorityFresh, Knowledge,
        Authority, View, Conclude, Goto, Idle, client, sync, clocks
    <2>2. ASSUME NEW r \in authority.view, authority.state = "active", Goto(c, "reading"),
                   task' = [task EXCEPT ![c].target = r, ![c].gen = authority.generation]
            PROVE  AuthorityFresh'
      BY <1>19, <2>2 DEF TypeOK, Handlers, AnswersFresh, AuthorityFresh, Knowledge,
        Authority, View, Conclude, Goto, Idle, client, sync, clocks
    <2>. QED BY <1>19, <2>1, <2>2 DEF View
  <1>20. ASSUME NEW c \in Call, Deliver(c) PROVE AuthorityFresh'
    BY <1>20 DEF TypeOK, Handlers, AnswersFresh, AuthorityFresh, Knowledge, Authority,
      Deliver, Conclude, Goto, Idle, client, sync, clocks
  <1>21. ASSUME NEW c \in Call, EnterStage(c) PROVE AuthorityFresh'
    <2>1. ASSUME authority.state = "active", guard' = guard \cup {c}, NEW r \in Named(c),
                   task' = [task EXCEPT ![c].target = r], UNCHANGED <<pc, cancelled>>
            PROVE  AuthorityFresh'
      BY <1>21, <2>1 DEF TypeOK, Handlers, AnswersFresh, AuthorityFresh, Knowledge,
        Authority, EnterStage, Conclude, Goto, Idle, Uncancelled, Named, client, sync,
        clocks
    <2>2. CASE Conclude(c, "refused") /\ UNCHANGED guard
      BY <1>21, <2>2 DEF TypeOK, Handlers, AnswersFresh, AuthorityFresh, Knowledge,
        Authority, EnterStage, Conclude, Goto, Idle, Uncancelled, Named, client, sync,
        clocks
    <2>. QED BY <1>21, <2>1, <2>2 DEF EnterStage
  <1>22. ASSUME NEW c \in Call, ExitStage(c) PROVE AuthorityFresh'
    BY <1>22 DEF TypeOK, Handlers, AnswersFresh, AuthorityFresh, Knowledge, Authority,
      ExitStage, Conclude, Goto, Idle, Uncancelled, client, sync, clocks, call
  <1>23. ASSUME NEW c \in Call, BeginCommit(c) PROVE AuthorityFresh'
    BY <1>23 DEF TypeOK, Handlers, AnswersFresh, AuthorityFresh, Knowledge, Authority,
      BeginCommit, Conclude, Goto, Idle, client, sync, clocks
  <1>24. CASE UNCHANGED vars
    BY <1>24 DEF vars, client, sync, clocks, call, TypeOK, Handlers, AnswersFresh,
      AuthorityFresh, Knowledge, Authority
  <1>. QED BY <1>0, <1>1, <1>2, <1>3, <1>4, <1>5, <1>6, <1>7, <1>8, <1>9, <1>10, <1>11,
    <1>12, <1>13, <1>14, <1>15, <1>16, <1>17, <1>18, <1>19, <1>20, <1>21, <1>22, <1>23,
    <1>24 DEF Next, Clock, Refresh, Serve

\* A view that replaces another has a generation of its own, and waits for the
\* mutations.
LEMMA TargetsKept ==
  ASSUME TypeOK, Targets, [Next]_vars
  PROVE  Targets'
  <1>0. UNCHANGED vars \/ Next
    OBVIOUS
  <1>1. CASE ChangeRoots
    BY <1>1 DEF TypeOK, Targets, Answer, Knowledge, Authority, ChangeRoots, sync,
      clocks, call
  <1>2. CASE OnInitialized
    <2>1. CASE MarkPending /\ Know(1) /\ ~seen
      BY <1>2, <2>1 DEF TypeOK, Targets, Answer, Knowledge, Authority, OnInitialized,
        MarkPending, BeginRefresh, Know, clocks, call
    <2>2. CASE UNCHANGED <<authority, seen, pending, known>>
      BY <1>2, <2>2 DEF TypeOK, Targets, Answer, Knowledge, Authority, OnInitialized,
        MarkPending, BeginRefresh, Know, clocks, call
    <2>. QED BY <1>2, <2>1, <2>2 DEF OnInitialized
  <1>3. ASSUME NEW v \in notices, OnRootsListChanged(v) PROVE Targets'
    BY <1>3 DEF TypeOK, Targets, Answer, Knowledge, Authority, OnRootsListChanged,
      MarkPending, BeginRefresh, Know, clocks, call
  <1>4. ASSUME NEW epoch \in timers, Deadline(epoch) PROVE Targets'
    BY <1>4 DEF TypeOK, Targets, Answer, Knowledge, Authority, Deadline, client, sync,
      call
  <1>5. ASSUME NEW epoch \in timers, TimeOut(epoch) PROVE Targets'
    BY <1>5 DEF TypeOK, Targets, Answer, Knowledge, Authority, TimeOut, Disable,
      Disabled, Current, client, sync, call
  <1>6. ASSUME NEW c \in Call, Cancel(c) PROVE Targets'
    BY <1>6 DEF TypeOK, Targets, Answer, Knowledge, Authority, Cancel, client, sync,
      clocks
  <1>7. ASSUME NEW c \in Call, Begin(c) PROVE Targets'
    BY <1>7 DEF TypeOK, Targets, Answer, Knowledge, Authority, Begin, Goto, client,
      sync, clocks
  <1>8. ASSUME NEW c \in Call, Reject(c) PROVE Targets'
    BY <1>8 DEF TypeOK, Targets, Answer, Knowledge, Authority, Reject, Conclude, Goto,
      Idle, client, sync, clocks
  <1>9. ASSUME NEW c \in Call, ClientAnswers(c) PROVE Targets'
    BY <1>9 DEF TypeOK, Targets, Answer, Knowledge, Authority, ClientAnswers, client,
      sync, clocks
  <1>10. ASSUME NEW c \in Call, TakeTurn(c) PROVE Targets'
    BY <1>10 DEF TypeOK, Targets, Answer, Knowledge, Authority, TakeTurn, Goto, client,
      clocks
  <1>11. ASSUME NEW c \in Call, TakePending(c) PROVE Targets'
    <2>1. CASE ~seen /\ BeginRefresh /\ Know(1) /\ Acquire(c, authority.epoch + 1) /\ UNCHANGED turn
      BY <1>11, <2>1 DEF TypeOK, Targets, Answer, Knowledge, Authority, TakePending,
        BeginRefresh, Know, Acquire, Goto
    <2>2. CASE Acquire(c, pending) /\ UNCHANGED <<authority, known, turn>> /\ pending # 0
      BY <1>11, <2>2 DEF TypeOK, Targets, Answer, Knowledge, Authority, TakePending,
        BeginRefresh, Know, Acquire, Goto
    <2>3. CASE /\ seen /\ Goto(c, "ready") /\ turn' = None
               /\ UNCHANGED <<authority, known, task, timers>>
      BY <1>11, <2>3 DEF TypeOK, Targets, Answer, Knowledge, Authority, TakePending,
        BeginRefresh, Know, Acquire, Goto
    <2>. QED BY <1>11, <2>1, <2>2, <2>3 DEF TakePending
  <1>12. ASSUME NEW c \in Call, Receive(c) PROVE Targets'
    BY <1>12 DEF TypeOK, Targets, Answer, Knowledge, Authority, Receive, Goto, client,
      sync, clocks
  <1>13. ASSUME NEW c \in Call, AcquisitionFails(c) PROVE Targets'
    BY <1>13 DEF TypeOK, Targets, Answer, Knowledge, Authority, AcquisitionFails,
      Disable, Disabled, Current, NextTurn, Goto, Idle, client, sync
  <1>14. ASSUME NEW c \in Call, Install(c) PROVE Targets'
    <2>1. CASE UNCHANGED <<authority, history, failed>>
      BY <1>14, RootsOfType, <2>1 DEF TypeOK, Targets, Answer, Knowledge, Authority,
        Install, MayInstall, Current, Disabled, Applied, NextTurn, Goto, Idle, client,
        sync
    <2>2. CASE authority' = Disabled /\ failed' = task[c].epoch /\ UNCHANGED history
      BY <1>14, RootsOfType, <2>2 DEF TypeOK, Targets, Answer, Knowledge, Authority,
        Install, MayInstall, Current, Disabled, Applied, NextTurn, Goto, Idle, client,
        sync
    <2>3. CASE /\ MayInstall(task[c].epoch) /\ ~Conflicts(RootsOf(task[c].got))
               /\ authority' = Applied(RootsOf(task[c].got))
               /\ history' = history \cup RootsOf(task[c].got) /\ UNCHANGED failed
      BY <1>14, RootsOfType, <2>3 DEF TypeOK, Targets, Answer, Knowledge, Authority,
        Install, MayInstall, Current, Disabled, Applied, NextTurn, Goto, Idle, client,
        sync
    <2>. QED BY <1>14, <2>1, <2>2, <2>3 DEF Install
  <1>15. ASSUME NEW c \in Call, Withdraw(c) PROVE Targets'
    BY <1>15 DEF TypeOK, Targets, Answer, Knowledge, Authority, Withdraw, Disable,
      Disabled, Current, Goto, client, sync, clocks
  <1>16. ASSUME NEW c \in Call, LeavePending(c) PROVE Targets'
    BY <1>16 DEF TypeOK, Targets, Answer, Knowledge, Authority, LeavePending,
      MarkPending, BeginRefresh, Conclude, Goto, Idle, client, clocks
  <1>17. ASSUME NEW c \in Call, GiveUp(c) PROVE Targets'
    BY <1>17 DEF TypeOK, Targets, Answer, Knowledge, Authority, GiveUp, Conclude, Goto,
      Idle, client, sync, clocks
  <1>18. ASSUME NEW c \in Call, Elsewhere(c) PROVE Targets'
    BY <1>18 DEF TypeOK, Targets, Answer, Knowledge, Authority, Elsewhere, Conclude,
      Goto, Idle, client, sync, clocks
  <1>19. ASSUME NEW c \in Call, View(c) PROVE Targets'
    <2>1. CASE Conclude(c, "refused")
      BY <1>19, <2>1 DEF TypeOK, Targets, Answer, Knowledge, Authority, View, Conclude,
        Goto, Idle, client, sync, clocks
    <2>2. ASSUME NEW r \in authority.view, authority.state = "active", Goto(c, "reading"),
                   task' = [task EXCEPT ![c].target = r, ![c].gen = authority.generation]
            PROVE  Targets'
      <3>1. /\ task'[c].target = r /\ task'[c].gen = authority.generation
            /\ task'[c].epoch = task[c].epoch /\ task'[c].got = task[c].got
            /\ \A e \in Call \ {c} : task'[e] = task[e]
        BY <2>2 DEF TypeOK, Knowledge
      <3>2. /\ pc'[c] = "reading" /\ \A e \in Call \ {c} : pc'[e] = pc[e]
            /\ c \notin guard /\ authority' = authority /\ guard' = guard /\ history' = history
            /\ declared' = declared /\ known' = known /\ pending' = pending
        BY <1>19, <2>2 DEF TypeOK, View, Goto, client, sync
      <3>. QED
        BY <2>2, <3>1, <3>2 DEF TypeOK, Targets, Answer, Knowledge, Authority
    <2>. QED BY <1>19, <2>1, <2>2 DEF View
  <1>20. ASSUME NEW c \in Call, Deliver(c) PROVE Targets'
    BY <1>20 DEF TypeOK, Targets, Answer, Knowledge, Authority, Deliver, Conclude, Goto,
      Idle, client, sync, clocks
  <1>21. ASSUME NEW c \in Call, EnterStage(c) PROVE Targets'
    <2>1. ASSUME authority.state = "active", guard' = guard \cup {c}, NEW r \in Named(c),
                   task' = [task EXCEPT ![c].target = r], UNCHANGED <<pc, cancelled>>
            PROVE  Targets'
      BY <1>21, <2>1 DEF TypeOK, Targets, Answer, Knowledge, Authority, EnterStage,
        Conclude, Goto, Idle, Uncancelled, Named, client, sync, clocks
    <2>2. CASE Conclude(c, "refused") /\ UNCHANGED guard
      BY <1>21, <2>2 DEF TypeOK, Targets, Answer, Knowledge, Authority, EnterStage,
        Conclude, Goto, Idle, Uncancelled, Named, client, sync, clocks
    <2>. QED BY <1>21, <2>1, <2>2 DEF EnterStage
  <1>22. ASSUME NEW c \in Call, ExitStage(c) PROVE Targets'
    BY <1>22 DEF TypeOK, Targets, Answer, Knowledge, Authority, ExitStage, Conclude,
      Goto, Idle, Uncancelled, client, sync, clocks, call
  <1>23. ASSUME NEW c \in Call, BeginCommit(c) PROVE Targets'
    BY <1>23 DEF TypeOK, Targets, Answer, Knowledge, Authority, BeginCommit, Conclude,
      Goto, Idle, client, sync, clocks
  <1>24. CASE UNCHANGED vars
    BY <1>24 DEF vars, client, sync, clocks, call, TypeOK, Targets, Answer, Knowledge,
      Authority
  <1>. QED BY <1>0, <1>1, <1>2, <1>3, <1>4, <1>5, <1>6, <1>7, <1>8, <1>9, <1>10, <1>11,
    <1>12, <1>13, <1>14, <1>15, <1>16, <1>17, <1>18, <1>19, <1>20, <1>21, <1>22, <1>23,
    <1>24 DEF Next, Clock, Refresh, Serve

\* Roots enter the history as they are put in force, and never leave it.
LEMMA HistoriesKept ==
  ASSUME TypeOK, Histories, [Next]_vars
  PROVE  Histories'
  <1>0. UNCHANGED vars \/ Next
    OBVIOUS
  <1>1. CASE ChangeRoots
    BY <1>1, NoneAssumption DEF TypeOK, Histories, Conflicts, Distinct, Knowledge,
      Authority, ChangeRoots, sync, clocks, call
  <1>2. CASE OnInitialized
    <2>1. CASE MarkPending /\ Know(1) /\ ~seen
      BY <1>2, NoneAssumption, <2>1 DEF TypeOK, Histories, Conflicts, Distinct,
        Knowledge, Authority, OnInitialized, MarkPending, BeginRefresh, Know, clocks,
        call
    <2>2. CASE UNCHANGED <<authority, seen, pending, known>>
      BY <1>2, NoneAssumption, <2>2 DEF TypeOK, Histories, Conflicts, Distinct,
        Knowledge, Authority, OnInitialized, MarkPending, BeginRefresh, Know, clocks,
        call
    <2>. QED BY <1>2, <2>1, <2>2 DEF OnInitialized
  <1>3. ASSUME NEW v \in notices, OnRootsListChanged(v) PROVE Histories'
    BY <1>3, NoneAssumption DEF TypeOK, Histories, Conflicts, Distinct, Knowledge,
      Authority, OnRootsListChanged, MarkPending, BeginRefresh, Know, clocks, call
  <1>4. ASSUME NEW epoch \in timers, Deadline(epoch) PROVE Histories'
    BY <1>4, NoneAssumption DEF TypeOK, Histories, Conflicts, Distinct, Knowledge,
      Authority, Deadline, client, sync, call
  <1>5. ASSUME NEW epoch \in timers, TimeOut(epoch) PROVE Histories'
    BY <1>5, NoneAssumption DEF TypeOK, Histories, Conflicts, Distinct, Knowledge,
      Authority, TimeOut, Disable, Disabled, Current, client, sync, call
  <1>6. ASSUME NEW c \in Call, Cancel(c) PROVE Histories'
    BY <1>6, NoneAssumption DEF TypeOK, Histories, Conflicts, Distinct, Knowledge,
      Authority, Cancel, client, sync, clocks
  <1>7. ASSUME NEW c \in Call, Begin(c) PROVE Histories'
    BY <1>7, NoneAssumption DEF TypeOK, Histories, Conflicts, Distinct, Knowledge,
      Authority, Begin, Goto, client, sync, clocks
  <1>8. ASSUME NEW c \in Call, Reject(c) PROVE Histories'
    BY <1>8, NoneAssumption DEF TypeOK, Histories, Conflicts, Distinct, Knowledge,
      Authority, Reject, Conclude, Goto, Idle, client, sync, clocks
  <1>9. ASSUME NEW c \in Call, ClientAnswers(c) PROVE Histories'
    BY <1>9, NoneAssumption DEF TypeOK, Histories, Conflicts, Distinct, Knowledge,
      Authority, ClientAnswers, client, sync, clocks
  <1>10. ASSUME NEW c \in Call, TakeTurn(c) PROVE Histories'
    BY <1>10, NoneAssumption DEF TypeOK, Histories, Conflicts, Distinct, Knowledge,
      Authority, TakeTurn, Goto, client, clocks
  <1>11. ASSUME NEW c \in Call, TakePending(c) PROVE Histories'
    <2>1. CASE ~seen /\ BeginRefresh /\ Know(1) /\ Acquire(c, authority.epoch + 1) /\ UNCHANGED turn
      BY <1>11, NoneAssumption, <2>1 DEF TypeOK, Histories, Conflicts, Distinct,
        Knowledge, Authority, TakePending, BeginRefresh, Know, Acquire, Goto
    <2>2. CASE Acquire(c, pending) /\ UNCHANGED <<authority, known, turn>> /\ pending # 0
      BY <1>11, NoneAssumption, <2>2 DEF TypeOK, Histories, Conflicts, Distinct,
        Knowledge, Authority, TakePending, BeginRefresh, Know, Acquire, Goto
    <2>3. CASE /\ seen /\ Goto(c, "ready") /\ turn' = None
               /\ UNCHANGED <<authority, known, task, timers>>
      BY <1>11, NoneAssumption, <2>3 DEF TypeOK, Histories, Conflicts, Distinct,
        Knowledge, Authority, TakePending, BeginRefresh, Know, Acquire, Goto
    <2>. QED BY <1>11, <2>1, <2>2, <2>3 DEF TakePending
  <1>12. ASSUME NEW c \in Call, Receive(c) PROVE Histories'
    BY <1>12, NoneAssumption DEF TypeOK, Histories, Conflicts, Distinct, Knowledge,
      Authority, Receive, Goto, client, sync, clocks
  <1>13. ASSUME NEW c \in Call, AcquisitionFails(c) PROVE Histories'
    BY <1>13, NoneAssumption DEF TypeOK, Histories, Conflicts, Distinct, Knowledge,
      Authority, AcquisitionFails, Disable, Disabled, Current, NextTurn, Goto, Idle,
      client, sync
  <1>14. ASSUME NEW c \in Call, Install(c) PROVE Histories'
    <2>1. CASE UNCHANGED <<authority, history, failed>>
      BY <1>14, NoneAssumption, RootsOfType, <2>1 DEF TypeOK, Histories, Conflicts,
        Distinct, Knowledge, Authority, Install, MayInstall, Current, Disabled, Applied,
        NextTurn, Goto, Idle, client, sync
    <2>2. CASE authority' = Disabled /\ failed' = task[c].epoch /\ UNCHANGED history
      BY <1>14, NoneAssumption, RootsOfType, <2>2 DEF TypeOK, Histories, Conflicts,
        Distinct, Knowledge, Authority, Install, MayInstall, Current, Disabled, Applied,
        NextTurn, Goto, Idle, client, sync
    <2>3. CASE /\ MayInstall(task[c].epoch) /\ ~Conflicts(RootsOf(task[c].got))
               /\ authority' = Applied(RootsOf(task[c].got))
               /\ history' = history \cup RootsOf(task[c].got) /\ UNCHANGED failed
      BY <1>14, NoneAssumption, RootsOfType, <2>3 DEF TypeOK, Histories, Conflicts,
        Distinct, Knowledge, Authority, Install, MayInstall, Current, Disabled, Applied,
        NextTurn, Goto, Idle, client, sync
    <2>. QED BY <1>14, <2>1, <2>2, <2>3 DEF Install
  <1>15. ASSUME NEW c \in Call, Withdraw(c) PROVE Histories'
    BY <1>15, NoneAssumption DEF TypeOK, Histories, Conflicts, Distinct, Knowledge,
      Authority, Withdraw, Disable, Disabled, Current, Goto, client, sync, clocks
  <1>16. ASSUME NEW c \in Call, LeavePending(c) PROVE Histories'
    BY <1>16, NoneAssumption DEF TypeOK, Histories, Conflicts, Distinct, Knowledge,
      Authority, LeavePending, MarkPending, BeginRefresh, Conclude, Goto, Idle, client,
      clocks
  <1>17. ASSUME NEW c \in Call, GiveUp(c) PROVE Histories'
    BY <1>17, NoneAssumption DEF TypeOK, Histories, Conflicts, Distinct, Knowledge,
      Authority, GiveUp, Conclude, Goto, Idle, client, sync, clocks
  <1>18. ASSUME NEW c \in Call, Elsewhere(c) PROVE Histories'
    BY <1>18, NoneAssumption DEF TypeOK, Histories, Conflicts, Distinct, Knowledge,
      Authority, Elsewhere, Conclude, Goto, Idle, client, sync, clocks
  <1>19. ASSUME NEW c \in Call, View(c) PROVE Histories'
    <2>1. CASE Conclude(c, "refused")
      BY <1>19, NoneAssumption, <2>1 DEF TypeOK, Histories, Conflicts, Distinct,
        Knowledge, Authority, View, Conclude, Goto, Idle, client, sync, clocks
    <2>2. ASSUME NEW r \in authority.view, authority.state = "active", Goto(c, "reading"),
                   task' = [task EXCEPT ![c].target = r, ![c].gen = authority.generation]
            PROVE  Histories'
      <3>1. /\ task'[c].target = r /\ task'[c].gen = authority.generation
            /\ task'[c].epoch = task[c].epoch /\ task'[c].got = task[c].got
            /\ \A e \in Call \ {c} : task'[e] = task[e]
        BY <2>2 DEF TypeOK, Knowledge
      <3>2. /\ pc'[c] = "reading" /\ \A e \in Call \ {c} : pc'[e] = pc[e]
            /\ c \notin guard /\ authority' = authority /\ guard' = guard /\ history' = history
            /\ declared' = declared /\ known' = known /\ pending' = pending
        BY <1>19, <2>2 DEF TypeOK, View, Goto, client, sync
      <3>. QED
        BY NoneAssumption, <2>2, <3>1, <3>2 DEF TypeOK, Histories, Conflicts, Distinct,
          Knowledge, Authority
    <2>. QED BY <1>19, <2>1, <2>2 DEF View
  <1>20. ASSUME NEW c \in Call, Deliver(c) PROVE Histories'
    BY <1>20, NoneAssumption DEF TypeOK, Histories, Conflicts, Distinct, Knowledge,
      Authority, Deliver, Conclude, Goto, Idle, client, sync, clocks
  <1>21. ASSUME NEW c \in Call, EnterStage(c) PROVE Histories'
    <2>1. ASSUME authority.state = "active", guard' = guard \cup {c}, NEW r \in Named(c),
                   task' = [task EXCEPT ![c].target = r], UNCHANGED <<pc, cancelled>>
            PROVE  Histories'
      BY <1>21, NoneAssumption, <2>1 DEF TypeOK, Histories, Conflicts, Distinct,
        Knowledge, Authority, EnterStage, Conclude, Goto, Idle, Uncancelled, Named,
        client, sync, clocks
    <2>2. CASE Conclude(c, "refused") /\ UNCHANGED guard
      BY <1>21, NoneAssumption, <2>2 DEF TypeOK, Histories, Conflicts, Distinct,
        Knowledge, Authority, EnterStage, Conclude, Goto, Idle, Uncancelled, Named,
        client, sync, clocks
    <2>. QED BY <1>21, <2>1, <2>2 DEF EnterStage
  <1>22. ASSUME NEW c \in Call, ExitStage(c) PROVE Histories'
    BY <1>22, NoneAssumption DEF TypeOK, Histories, Conflicts, Distinct, Knowledge,
      Authority, ExitStage, Conclude, Goto, Idle, Uncancelled, client, sync, clocks,
      call
  <1>23. ASSUME NEW c \in Call, BeginCommit(c) PROVE Histories'
    BY <1>23, NoneAssumption DEF TypeOK, Histories, Conflicts, Distinct, Knowledge,
      Authority, BeginCommit, Conclude, Goto, Idle, client, sync, clocks
  <1>24. CASE UNCHANGED vars
    BY <1>24, NoneAssumption DEF vars, client, sync, clocks, call, TypeOK, Histories,
      Conflicts, Distinct, Knowledge, Authority
  <1>. QED BY <1>0, <1>1, <1>2, <1>3, <1>4, <1>5, <1>6, <1>7, <1>8, <1>9, <1>10, <1>11,
    <1>12, <1>13, <1>14, <1>15, <1>16, <1>17, <1>18, <1>19, <1>20, <1>21, <1>22, <1>23,
    <1>24 DEF Next, Clock, Refresh, Serve

\* Whoever begins a refresh leaves it pending or starts its clock.
LEMMA CausesKept ==
  ASSUME TypeOK, UnavailableForCause, [Next]_vars
  PROVE  UnavailableForCause'
  <1>0. UNCHANGED vars \/ Next
    OBVIOUS
  <1>1. CASE ChangeRoots
    BY <1>1 DEF TypeOK, UnavailableForCause, Answer, Knowledge, Authority, ChangeRoots,
      sync, clocks, call
  <1>2. CASE OnInitialized
    BY <1>2 DEF TypeOK, UnavailableForCause, Answer, Knowledge, Authority,
      OnInitialized, MarkPending, BeginRefresh, Know, clocks, call
  <1>3. ASSUME NEW v \in notices, OnRootsListChanged(v) PROVE UnavailableForCause'
    BY <1>3 DEF TypeOK, UnavailableForCause, Answer, Knowledge, Authority,
      OnRootsListChanged, MarkPending, BeginRefresh, Know, clocks, call
  <1>4. ASSUME NEW epoch \in timers, Deadline(epoch) PROVE UnavailableForCause'
    BY <1>4 DEF TypeOK, UnavailableForCause, Answer, Knowledge, Authority, Deadline,
      client, sync, call
  <1>5. ASSUME NEW epoch \in timers, TimeOut(epoch) PROVE UnavailableForCause'
    BY <1>5 DEF TypeOK, UnavailableForCause, Answer, Knowledge, Authority, TimeOut,
      Disable, Disabled, Current, client, sync, call
  <1>6. ASSUME NEW c \in Call, Cancel(c) PROVE UnavailableForCause'
    BY <1>6 DEF TypeOK, UnavailableForCause, Answer, Knowledge, Authority, Cancel,
      client, sync, clocks
  <1>7. ASSUME NEW c \in Call, Begin(c) PROVE UnavailableForCause'
    BY <1>7 DEF TypeOK, UnavailableForCause, Answer, Knowledge, Authority, Begin, Goto,
      client, sync, clocks
  <1>8. ASSUME NEW c \in Call, Reject(c) PROVE UnavailableForCause'
    BY <1>8 DEF TypeOK, UnavailableForCause, Answer, Knowledge, Authority, Reject,
      Conclude, Goto, Idle, client, sync, clocks
  <1>9. ASSUME NEW c \in Call, ClientAnswers(c) PROVE UnavailableForCause'
    BY <1>9 DEF TypeOK, UnavailableForCause, Answer, Knowledge, Authority,
      ClientAnswers, client, sync, clocks
  <1>10. ASSUME NEW c \in Call, TakeTurn(c) PROVE UnavailableForCause'
    BY <1>10 DEF TypeOK, UnavailableForCause, Answer, Knowledge, Authority, TakeTurn,
      Goto, client, clocks
  <1>11. ASSUME NEW c \in Call, TakePending(c) PROVE UnavailableForCause'
    BY <1>11 DEF TypeOK, UnavailableForCause, Answer, Knowledge, Authority, TakePending,
      BeginRefresh, Know, Acquire, Goto
  <1>12. ASSUME NEW c \in Call, Receive(c) PROVE UnavailableForCause'
    BY <1>12 DEF TypeOK, UnavailableForCause, Answer, Knowledge, Authority, Receive,
      Goto, client, sync, clocks
  <1>13. ASSUME NEW c \in Call, AcquisitionFails(c) PROVE UnavailableForCause'
    BY <1>13 DEF TypeOK, UnavailableForCause, Answer, Knowledge, Authority,
      AcquisitionFails, Disable, Disabled, Current, NextTurn, Goto, Idle, client, sync
  <1>14. ASSUME NEW c \in Call, Install(c) PROVE UnavailableForCause'
    BY <1>14 DEF TypeOK, UnavailableForCause, Answer, Knowledge, Authority, Install,
      MayInstall, Current, Disabled, Applied, NextTurn, Goto, Idle, client, sync
  <1>15. ASSUME NEW c \in Call, Withdraw(c) PROVE UnavailableForCause'
    BY <1>15 DEF TypeOK, UnavailableForCause, Answer, Knowledge, Authority, Withdraw,
      Disable, Disabled, Current, Goto, client, sync, clocks
  <1>16. ASSUME NEW c \in Call, LeavePending(c) PROVE UnavailableForCause'
    BY <1>16 DEF TypeOK, UnavailableForCause, Answer, Knowledge, Authority,
      LeavePending, MarkPending, BeginRefresh, Conclude, Goto, Idle, client, clocks
  <1>17. ASSUME NEW c \in Call, GiveUp(c) PROVE UnavailableForCause'
    BY <1>17 DEF TypeOK, UnavailableForCause, Answer, Knowledge, Authority, GiveUp,
      Conclude, Goto, Idle, client, sync, clocks
  <1>18. ASSUME NEW c \in Call, Elsewhere(c) PROVE UnavailableForCause'
    BY <1>18 DEF TypeOK, UnavailableForCause, Answer, Knowledge, Authority, Elsewhere,
      Conclude, Goto, Idle, client, sync, clocks
  <1>19. ASSUME NEW c \in Call, View(c) PROVE UnavailableForCause'
    BY <1>19 DEF TypeOK, UnavailableForCause, Answer, Knowledge, Authority, View,
      Conclude, Goto, Idle, client, sync, clocks
  <1>20. ASSUME NEW c \in Call, Deliver(c) PROVE UnavailableForCause'
    BY <1>20 DEF TypeOK, UnavailableForCause, Answer, Knowledge, Authority, Deliver,
      Conclude, Goto, Idle, client, sync, clocks
  <1>21. ASSUME NEW c \in Call, EnterStage(c) PROVE UnavailableForCause'
    BY <1>21 DEF TypeOK, UnavailableForCause, Answer, Knowledge, Authority, EnterStage,
      Conclude, Goto, Idle, Uncancelled, Named, client, sync, clocks
  <1>22. ASSUME NEW c \in Call, ExitStage(c) PROVE UnavailableForCause'
    BY <1>22 DEF TypeOK, UnavailableForCause, Answer, Knowledge, Authority, ExitStage,
      Conclude, Goto, Idle, Uncancelled, client, sync, clocks, call
  <1>23. ASSUME NEW c \in Call, BeginCommit(c) PROVE UnavailableForCause'
    BY <1>23 DEF TypeOK, UnavailableForCause, Answer, Knowledge, Authority, BeginCommit,
      Conclude, Goto, Idle, client, sync, clocks
  <1>24. CASE UNCHANGED vars
    BY <1>24 DEF vars, client, sync, clocks, call, TypeOK, UnavailableForCause, Answer,
      Knowledge, Authority
  <1>. QED BY <1>0, <1>1, <1>2, <1>3, <1>4, <1>5, <1>6, <1>7, <1>8, <1>9, <1>10, <1>11,
    <1>12, <1>13, <1>14, <1>15, <1>16, <1>17, <1>18, <1>19, <1>20, <1>21, <1>22, <1>23,
    <1>24 DEF Next, Clock, Refresh, Serve

\* Served are a read whose root is in the current view, and a mutation at the
\* end of its commit.
LEMMA ServedNow ==
  ASSUME TypeOK, Handlers, AuthorityFresh, Targets, Next,
         NEW c \in Call, pc'[c] = "served", pc[c] # "served"
  PROVE  \E v \in 1 .. declared : v >= known /\ task[c].target \in RootsOf(v)
  <1>1. (pc[c] = "reading" /\ Valid(c)) \/ (c \in guard /\ pc[c] = "committing")
    <2>1. ASSUME NEW d \in Call, Begin(d) \/ TakeTurn(d) \/ Receive(d) \/ Withdraw(d)
          PROVE  FALSE
      BY <2>1 DEF TypeOK, Begin, TakeTurn, Receive, Withdraw, Goto
    <2>2. ASSUME NEW d \in Call,
                 TakePending(d) \/ AcquisitionFails(d) \/ Install(d) \/ BeginCommit(d)
          PROVE  FALSE
      BY <2>2 DEF TypeOK, TakePending, Acquire, AcquisitionFails, Install, NextTurn, BeginCommit,
                  Conclude, Goto
    <2>3. ASSUME NEW d \in Call, Reject(d) \/ LeavePending(d) \/ GiveUp(d) \/ Elsewhere(d)
          PROVE  FALSE
      BY <2>3 DEF TypeOK, Reject, LeavePending, GiveUp, Elsewhere, Conclude, Goto
    <2>4. ASSUME NEW d \in Call, View(d) \/ EnterStage(d)
          PROVE  FALSE
      BY <2>4 DEF TypeOK, View, EnterStage, Conclude, Goto
    <2>5. ASSUME NEW d \in Call, Deliver(d) \/ ExitStage(d)
          PROVE  (pc[c] = "reading" /\ Valid(c)) \/ (c \in guard /\ pc[c] = "committing")
      <3>1. d = c
        BY <2>5 DEF TypeOK, Deliver, ExitStage, Conclude, Goto, call
      <3>2. CASE Deliver(d)
        <4>1. Valid(d) /\ pc[d] = "reading"
          BY <3>1, <3>2 DEF TypeOK, Deliver, Conclude, Goto
        <4>. QED BY <3>1, <4>1 DEF Valid
      <3>3. CASE ExitStage(d)
        BY <3>1, <3>3 DEF TypeOK, ExitStage, Conclude, Goto, call
      <3>. QED BY <2>5, <3>2, <3>3
    <2>6. ASSUME NEW d \in Call, Cancel(d) \/ ClientAnswers(d)
          PROVE  FALSE
      BY <2>6 DEF Cancel, ClientAnswers
    <2>7. ASSUME ChangeRoots \/ OnInitialized \/ (\E v \in notices : OnRootsListChanged(v)) \/ Clock
          PROVE  FALSE
      BY <2>7 DEF ChangeRoots, OnInitialized, OnRootsListChanged, Clock, Deadline, TimeOut, call
    <2>. QED BY <2>1, <2>2, <2>3, <2>4, <2>5, <2>6, <2>7 DEF Next, Refresh, Serve
  <1>2. known >= 1
    BY <1>1 DEF Handlers, Answer
  <1>3. authority.state = "active" /\ task[c].target \in authority.view
    BY <1>1 DEF TypeOK, Targets, Valid
  <1>4. PICK v \in known .. declared : authority.view = RootsOf(v)
    BY <1>3 DEF AuthorityFresh
  <1>. QED BY <1>2, <1>3, <1>4 DEF TypeOK

Inv == /\ TypeOK /\ Epochs /\ Handlers /\ AnswersFresh /\ AuthorityFresh
       /\ Targets /\ Histories /\ UnavailableForCause

\* The beginning: nobody has called, and the roots of the launch are served.
LEMMA Start == Init => Inv
  <1>. SUFFICES ASSUME Init PROVE Inv
    OBVIOUS
  <1>1. authority \in Authority /\ authority.view = Launch /\ Launch # None
    BY RootAssumption, NoneAssumption DEF Init, Authority
  <1>2. Idle \in Knowledge
    BY ClientAssumption DEF Idle, Knowledge
  <1>3. TypeOK
    <2>1. declared \in 1 .. Versions /\ known \in 0 .. Versions
      BY ClientAssumption DEF Init
    <2>2. task \in [Call -> Knowledge] /\ pc \in [Call -> Phase]
      BY <1>2 DEF Init, Phase
    <2>. QED BY <1>1, <2>1, <2>2, RootAssumption DEF Init, TypeOK
  <1>4. Epochs /\ Handlers /\ AnswersFresh
    BY ClientAssumption DEF Init, Epochs, Handlers, AnswersFresh, Idle
  <1>5. AuthorityFresh
    BY <1>1 DEF Init, AuthorityFresh, RootsOf
  <1>6. Targets /\ Histories
    BY <1>1, RootAssumption DEF Init, Targets, Histories, Idle
  <1>7. UnavailableForCause
    BY DEF Init, UnavailableForCause
  <1>. QED BY <1>3, <1>4, <1>5, <1>6, <1>7 DEF Inv

\* All of it is kept.
LEMMA Invariant == Spec => []Inv
  <1>1. Inv /\ [Next]_vars => Inv'
    BY TypesKept, EpochsKept, HandlersKept, AnswersFreshKept, FreshKept, TargetsKept,
       HistoriesKept, CausesKept DEF Inv
  <1>. QED BY Start, <1>1, PTL DEF Spec

\* Every variable keeps its shape, and a mutation has the authority only while
\* it is active.
THEOREM TypeCorrect == Spec => []TypeOK
  <1>1. Inv => TypeOK
    BY DEF Inv
  <1>. QED BY Invariant, <1>1, PTL

\* The server never serves by roots older than a change it was told of.
THEOREM ServesFreshRoots == Spec => []AuthorityFresh
  <1>1. Inv => AuthorityFresh
    BY DEF Inv
  <1>. QED BY Invariant, <1>1, PTL

\* The authority is not lost by a call that was cancelled.
THEOREM LosesNoAuthority == Spec => []UnavailableForCause
  <1>1. Inv => UnavailableForCause
    BY DEF Inv
  <1>. QED BY Invariant, <1>1, PTL

\* A root a call has in hand keeps its identifier to itself.
THEOREM KeepsIdentifiers == Spec => []ReferencesStable
  <1>1. Inv => ReferencesStable
    BY DEF Inv, TypeOK, Histories, ReferencesStable, Distinct
  <1>. QED BY Invariant, <1>1, PTL

\* The three together, for every client and every set of roots.
THEOREM HoldsAuthority == Spec => []AuthoritySound
  <1>1. AuthorityFresh /\ UnavailableForCause /\ ReferencesStable => AuthoritySound
    BY DEF AuthoritySound
  <1>. QED BY ServesFreshRoots, LosesNoAuthority, KeepsIdentifiers, <1>1, PTL

\* What is served lies in a root that is in force.
THEOREM ServesRootsInForce == Spec => ServedInForce
  <1>1. Inv /\ [Next]_vars =>
          [\A c \in Call : pc'[c] = "served" /\ pc[c] # "served" =>
             \E v \in 1 .. declared : v >= known /\ task[c].target \in RootsOf(v)]_vars
    BY ServedNow DEF Inv
  <1>. QED BY Invariant, <1>1, PTL DEF Spec, ServedInForce

=============================================================================
