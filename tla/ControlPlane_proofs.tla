------------------------ MODULE ControlPlane_proofs ------------------------
(***************************************************************************)
(* Proofs about ControlPlane for every value of its constants: its type    *)
(* invariant, the safety invariants its runs check, and that it implements *)
(* CoachSession.  IInv says, for each control point, which handler the     *)
(* thread is in, what it has announced, published and holds; the           *)
(* invariants follow from it, and none of them is inductive by itself.     *)
(***************************************************************************)
EXTENDS ControlPlane, TLAPS

BringUp == {"activate", "spawn", "open", "open_failed", "opened", "announce"}
Teardown == {"drop_capture", "join_worker", "clear"}
Recovery == {"reopen", "route"}

\* Which handler can be where, and the state announced there.
WhereInv ==
  /\ AtRest => task = "none" /\ state \in {"Idle", "Running", "Error"}
  /\ pc \in BringUp => task \in Recovery \union {"start"} /\ state = "Starting"
  /\ pc = "stopping" => task \in Recovery \union {"stop", "interrupted"} /\ state = "Running"
  /\ pc \in Teardown =>
       \/ task \in Recovery \union {"stop", "interrupted"} /\ state = "Stopping"
       \/ task = "reset" /\ state = "Error"
       \/ task = "fail" /\ state = "Running"
       \/ task = "quit" /\ state \in {"Idle", "Running", "Error"}
  /\ pc = "idle" =>
       \/ task \in {"stop", "interrupted"} /\ state = "Stopping"
       \/ task = "reset" /\ state = "Error"
  /\ pc = "signal_began" => task = "interrupted" /\ state = "Idle"
  /\ pc = "restart" => task \in Recovery /\ state = "Stopping"
  /\ pc \in {"fail_clear", "fail_announce"} =>
       \/ task \in Recovery \union {"start"} /\ state = "Starting"
       \/ task = "fail" /\ state = "Running"
  /\ pc = "fail_report" => task \in Recovery \union {"start", "fail"} /\ state = "Error"
  /\ pc = "down" => task = "quit"
  /\ pc \in BringUp => generation > 0

\* What the thread holds of the data path.
HasPath ==
  /\ capture = generation /\ capture # NoCapture /\ capture \in sinks
  /\ worker # "none" /\ devices
PathInv ==
  /\ AtRest /\ state = "Running" => HasPath
  /\ pc \in {"opened", "announce"} => HasPath
  /\ AtRest /\ state # "Running" => capture = NoCapture /\ worker = "none" /\ ~devices
  /\ pc \in {"idle", "signal_began", "restart", "activate", "fail_clear",
             "fail_announce", "fail_report", "down"}
       => capture = NoCapture /\ worker = "none" /\ ~devices
  /\ pc = "spawn" => capture = NoCapture /\ worker = "none" /\ devices
  /\ pc \in {"open", "open_failed"} => capture = NoCapture /\ worker # "none" /\ devices
  /\ pc = "stopping" => worker # "none"
  /\ pc = "drop_capture" => (capture # NoCapture => worker # "none")
  /\ pc \in {"join_worker", "clear"} => capture = NoCapture
  /\ pc = "clear" => worker = "none"
  /\ task = "reset" => worker = "none"
  /\ producer = "worker" <=> worker # "none"
  /\ producer = "gone" => task = "quit"

\* When audio_info() is Some.
InfoInv ==
  audio_info <=> \/ AtRest /\ state = "Running"
                 \/ pc = "announce"
                 \/ task = "fail" /\ pc \in Teardown \union {"fail_clear"}
                 \/ task = "quit" /\ pc \in Teardown /\ state = "Running"

\* A feature is published by a worker that was fed, and outlives it up to the
\* clearing of the publisher.
FeatureInv ==
  /\ features => (worker # "none" /\ pc \notin {"open", "open_failed"}) \/ pc = "clear"
  /\ features => task # "reset"

DeadlineInv ==
  /\ DeadlinesBelongToSession
  /\ task \in {"start", "stop", "reset", "route"} => route_debounce = NoDeadline
  /\ pc \in {"signal_began", "fail_announce", "fail_report"} => route_debounce = NoDeadline

RetryInv ==
  /\ AtRest /\ state = "Running" => retry_count = 0 /\ start_intent # NoIntent
  /\ task = "start" /\ pc \in BringUp => request # NoIntent
  /\ task \in Recovery /\ pc \in {"stopping", "restart"} \union Teardown \union BringUp
       => start_intent # NoIntent
  /\ task \in Recovery /\ pc \in {"stopping", "restart"} \union Teardown => retry_count = 0
  /\ task \in Recovery /\ pc \in BringUp => retry_count < RETRY_BUDGET

IInv ==
  TypeOK /\ WhereInv /\ PathInv /\ InfoInv /\ FeatureInv /\ DeadlineInv /\ RetryInv

-----------------------------------------------------------------------------
(* The shape of inputs.                                                     *)

\* What a command carries, by its kind.
LEMMA InputShape ==
  ASSUME NEW i \in Inputs
  PROVE  /\ i.kind = "Start" => i.arg \in DevicePolicy
         /\ i.kind = "Configure" => i.arg \in Scale
BY DEF Inputs, DevicePolicy

\* What the head and the sinks send is an input.
LEMMA SentShape ==
  /\ \A p \in DevicePolicy : Input("Start", p, 0) \in Inputs
  /\ \A s \in Scale : Input("Configure", s, 0) \in Inputs
  /\ \A k \in {"Stop", "Query", "PermissionRequest", "Quit"} : Input(k, "-", 0) \in Inputs
  /\ \A g \in Nat : Input("PermissionResolved", "-", g) \in Inputs
  /\ \A g \in Nat, e \in LifecycleEvent : Input("Lifecycle", e, g) \in Inputs
BY DEF Inputs, Input

\* Receiving takes an input and leaves a mailbox of inputs.
LEMMA TakeShape ==
  ASSUME inbox \in Seq(Inputs), inbox # <<>>
  PROVE  /\ Head(inbox) \in Inputs
         /\ Tail(inbox) \in Seq(Inputs)
OBVIOUS

-----------------------------------------------------------------------------
(* Type correctness.                                                       *)

\* No step of the thread, the worker, the head, the OS or the clock leaves the types.
LEMMA TypeStep ==
  ASSUME TypeOK, [Next]_vars
  PROVE  TypeOK'
<1> USE RetryBudgetAssumption, DeadlineAssumption, HeadAssumption, InputShape, SentShape,
        TakeShape
    DEF TypeOK, os, session, deadlines, datapath, publishers, Event, NoEvent,
        NoIntent, NoDeadline, NoCapture, ControlPoint, Handler, SessionState,
        DevicePolicy, AudioInitStatus
<1>1. CASE AcceptStart
  BY <1>1 DEF AcceptStart, Receive, Transition, ClearDeadlines, Goto
<1>2. CASE IgnoreStart
  BY <1>2 DEF IgnoreStart, Receive, Ignore, Goto
<1>3. CASE StopLive
  <2>1. audio_info' \in BOOLEAN /\ features' \in BOOLEAN
    BY <1>3 DEF StopLive, Receive, ClearDeadlines, Goto
  <2>2. node_ports' \in BOOLEAN /\ devices' \in BOOLEAN
    BY <1>3 DEF StopLive, Receive, ClearDeadlines, Goto
  <2> QED
    BY <1>3, <2>1, <2>2 DEF StopLive, Receive, ClearDeadlines, Goto
<1>4. CASE StopError
  BY <1>4 DEF StopError, Receive, ClearDeadlines, Goto
<1>5. CASE IgnoreStop
  BY <1>5 DEF IgnoreStop, Receive, Ignore, Goto
<1>6. CASE Configure
  BY <1>6 DEF Configure, Receive, Goto
<1>7. CASE AnnounceMusic
  BY <1>7 DEF AnnounceMusic, Goto
<1>8. CASE AnswerQuery
  BY <1>8 DEF AnswerQuery, Receive, Ignore, Goto
<1>9. CASE RequestPermission
  BY <1>9 DEF RequestPermission, Receive, Goto
<1>10. CASE PermissionResolved
  BY <1>10 DEF PermissionResolved, Receive, Ignore, Goto
<1>11. CASE StaleLifecycle
  BY <1>11 DEF StaleLifecycle, Receive, Ignore, Goto
<1>12. CASE Interrupted
  <2>1. audio_info' \in BOOLEAN /\ features' \in BOOLEAN
    BY <1>12 DEF Interrupted, ReceiveLifecycle, Receive, Ignore, Goto
  <2>2. node_ports' \in BOOLEAN /\ devices' \in BOOLEAN
    BY <1>12 DEF Interrupted, ReceiveLifecycle, Receive, Ignore, Goto
  <2>3. inbox' \in Seq(Inputs) /\ pc' \in ControlPoint /\ task' \in Handler /\ event' \in Event
    BY <1>12 DEF Interrupted, ReceiveLifecycle, Receive, Ignore, Goto
  <2>4. generation' \in Nat /\ route_debounce' \in Nat \union {NoDeadline}
    BY <1>12 DEF Interrupted, ReceiveLifecycle, Receive, Ignore, Goto
  <2> QED
    BY <1>12, <2>1, <2>2, <2>3, <2>4 DEF Interrupted, ReceiveLifecycle, Receive,
       Ignore, Goto
<1>13. CASE InterruptionEnded
  BY <1>13 DEF InterruptionEnded, ReceiveLifecycle, Receive, Goto
<1>14. CASE RouteChanged
  <2>1. audio_info' \in BOOLEAN /\ features' \in BOOLEAN
    BY <1>14 DEF RouteChanged, ReceiveLifecycle, Receive, Ignore, Goto
  <2>2. node_ports' \in BOOLEAN /\ devices' \in BOOLEAN
    BY <1>14 DEF RouteChanged, ReceiveLifecycle, Receive, Ignore, Goto
  <2>3. inbox' \in Seq(Inputs) /\ pc' \in ControlPoint /\ task' \in Handler /\ event' \in Event
    BY <1>14 DEF RouteChanged, ReceiveLifecycle, Receive, Ignore, Goto
  <2>4. generation' \in Nat /\ route_debounce' \in Nat \union {NoDeadline}
    BY <1>14 DEF RouteChanged, ReceiveLifecycle, Receive, Ignore, Goto
  <2> QED
    BY <1>14, <2>1, <2>2, <2>3, <2>4 DEF RouteChanged, ReceiveLifecycle, Receive,
       Ignore, Goto
<1>15. CASE DefaultDeviceLost
  <2>1. audio_info' \in BOOLEAN /\ features' \in BOOLEAN
    BY <1>15 DEF DefaultDeviceLost, ReceiveLifecycle, Receive, Ignore, Goto,
       CanReconcile, BeginReconcile
  <2>2. node_ports' \in BOOLEAN /\ devices' \in BOOLEAN
    BY <1>15 DEF DefaultDeviceLost, ReceiveLifecycle, Receive, Ignore, Goto,
       CanReconcile, BeginReconcile
  <2>3. inbox' \in Seq(Inputs) /\ pc' \in ControlPoint /\ task' \in Handler /\ event' \in Event
    BY <1>15 DEF DefaultDeviceLost, ReceiveLifecycle, Receive, Ignore, Goto,
       CanReconcile, BeginReconcile
  <2>4. generation' \in Nat /\ route_debounce' \in Nat \union {NoDeadline}
    BY <1>15 DEF DefaultDeviceLost, ReceiveLifecycle, Receive, Ignore, Goto,
       CanReconcile, BeginReconcile
  <2> QED
    BY <1>15, <2>1, <2>2, <2>3, <2>4 DEF DefaultDeviceLost, ReceiveLifecycle,
       Receive, Ignore, Goto, CanReconcile, BeginReconcile
<1>16. CASE FailLifecycle
  <2>1. audio_info' \in BOOLEAN /\ features' \in BOOLEAN
    BY <1>16 DEF FailLifecycle, ReceiveLifecycle, Receive, Ignore, Goto
  <2>2. node_ports' \in BOOLEAN /\ devices' \in BOOLEAN
    BY <1>16 DEF FailLifecycle, ReceiveLifecycle, Receive, Ignore, Goto
  <2>3. inbox' \in Seq(Inputs) /\ pc' \in ControlPoint /\ task' \in Handler /\ event' \in Event
    BY <1>16 DEF FailLifecycle, ReceiveLifecycle, Receive, Ignore, Goto
  <2>4. generation' \in Nat /\ route_debounce' \in Nat \union {NoDeadline}
    BY <1>16 DEF FailLifecycle, ReceiveLifecycle, Receive, Ignore, Goto
  <2> QED
    BY <1>16, <2>1, <2>2, <2>3, <2>4 DEF FailLifecycle, ReceiveLifecycle, Receive,
       Ignore, Goto
<1>17. CASE ServiceDeadlines
  <2>1. audio_info' \in BOOLEAN /\ features' \in BOOLEAN
    BY <1>17 DEF ServiceDeadlines, CanReconcile, BeginReconcile, Goto
  <2>2. node_ports' \in BOOLEAN /\ devices' \in BOOLEAN
    BY <1>17 DEF ServiceDeadlines, CanReconcile, BeginReconcile, Goto
  <2> QED
    BY <1>17, <2>1, <2>2 DEF ServiceDeadlines, CanReconcile, BeginReconcile, Goto
<1>18. CASE Activate
  BY <1>18 DEF Activate
<1>19. CASE ActivateFails
  BY <1>19 DEF ActivateFails, AttemptFailed
<1>20. CASE Spawn
  BY <1>20 DEF Spawn
<1>21. CASE SpawnFails
  <2>1. audio_info' \in BOOLEAN /\ features' \in BOOLEAN
    BY <1>21 DEF SpawnFails, AttemptFailed
  <2>2. node_ports' \in BOOLEAN /\ devices' \in BOOLEAN
    BY <1>21 DEF SpawnFails, AttemptFailed
  <2> QED
    BY <1>21, <2>1, <2>2 DEF SpawnFails, AttemptFailed
<1>22. CASE OpenSucceeds
  BY <1>22 DEF OpenSucceeds
<1>23. CASE OpenFails
  BY <1>23 DEF OpenFails
<1>24. CASE AbandonAttempt
  <2>1. audio_info' \in BOOLEAN /\ features' \in BOOLEAN
    BY <1>24 DEF AbandonAttempt, AttemptFailed
  <2>2. node_ports' \in BOOLEAN /\ devices' \in BOOLEAN
    BY <1>24 DEF AbandonAttempt, AttemptFailed
  <2> QED
    BY <1>24, <2>1, <2>2 DEF AbandonAttempt, AttemptFailed
<1>25. CASE PublishInfo
  BY <1>25 DEF PublishInfo
<1>26. CASE AnnounceRunning
  BY <1>26 DEF AnnounceRunning, Transition, Return, Goto
<1>27. CASE AnnounceStopping
  BY <1>27 DEF AnnounceStopping, Transition
<1>28. CASE DropCapture
  BY <1>28 DEF DropCapture
<1>29. CASE JoinWorker
  BY <1>29 DEF JoinWorker
<1>30. CASE ClearPublishers
  <2>1. audio_info' \in BOOLEAN /\ features' \in BOOLEAN
    BY <1>30 DEF ClearPublishers
  <2>2. node_ports' \in BOOLEAN /\ devices' \in BOOLEAN
    BY <1>30 DEF ClearPublishers
  <2> QED
    BY <1>30, <2>1, <2>2 DEF ClearPublishers
<1>31. CASE AnnounceIdle
  BY <1>31 DEF AnnounceIdle, Transition, Return, Goto
<1>32. CASE SignalBegan
  BY <1>32 DEF SignalBegan, Return, Goto
<1>33. CASE Restart
  BY <1>33 DEF Restart, Transition
<1>34. CASE FailClear
  <2>1. audio_info' \in BOOLEAN /\ features' \in BOOLEAN
    BY <1>34 DEF FailClear, ClearDeadlines
  <2>2. node_ports' \in BOOLEAN /\ devices' \in BOOLEAN
    BY <1>34 DEF FailClear, ClearDeadlines
  <2> QED
    BY <1>34, <2>1, <2>2 DEF FailClear, ClearDeadlines
<1>35. CASE AnnounceError
  BY <1>35 DEF AnnounceError, Transition
<1>36. CASE ReportError
  BY <1>36 DEF ReportError, Return, Goto
<1>37. CASE ReceiveQuit
  BY <1>37 DEF ReceiveQuit, Receive, Goto
<1>38. CASE GoDown
  BY <1>38 DEF GoDown, ClearDeadlines, Goto
<1>39. CASE WorkerBuilds
  <2>1. audio_info' \in BOOLEAN /\ features' \in BOOLEAN
    BY <1>39 DEF WorkerBuilds
  <2>2. node_ports' \in BOOLEAN /\ devices' \in BOOLEAN
    BY <1>39 DEF WorkerBuilds
  <2>3. worker' \in {"running", "exited"}
    BY <1>39 DEF WorkerBuilds
  <2> QED
    BY <1>39, <2>1, <2>2, <2>3 DEF WorkerBuilds
<1>40. CASE WorkerHop
  BY <1>40 DEF WorkerHop
<1>41. CASE WorkerExits
  BY <1>41 DEF WorkerExits
<1>42. CASE SendCommand
  BY <1>42 DEF SendCommand, HeadIsUp, CanSend, Post, Command
<1>43. CASE SendQuit
  BY <1>43 DEF SendQuit, HeadIsUp, CanSend, Post
<1>44. CASE LifecycleFires
  BY <1>44 DEF LifecycleFires, CanSend, Post
<1>45. CASE PermissionFires
  BY <1>45 DEF PermissionFires, CanSend, Post
<1>46. CASE PermissionChanges
  BY <1>46 DEF PermissionChanges
<1>47. CASE Tick
  BY <1>47 DEF Tick
<1>48. CASE UNCHANGED vars
  BY <1>48 DEF vars
<1> QED
  BY <1>1, <1>2, <1>3, <1>4, <1>5, <1>6, <1>7, <1>8, <1>9, <1>10, <1>11, <1>12,
     <1>13, <1>14, <1>15, <1>16, <1>17, <1>18, <1>19, <1>20, <1>21, <1>22, <1>23,
     <1>24, <1>25, <1>26, <1>27, <1>28, <1>29, <1>30, <1>31, <1>32, <1>33, <1>34,
     <1>35, <1>36, <1>37, <1>38, <1>39, <1>40, <1>41, <1>42, <1>43, <1>44, <1>45,
     <1>46, <1>47, <1>48 DEF Next, ControlStep, Environment

-----------------------------------------------------------------------------
(* The inductive invariant.                                                *)

\* The thread starts between two handlers, in Idle, holding nothing.
LEMMA IInvInit == Init => IInv
<1> SUFFICES ASSUME Init PROVE IInv
  OBVIOUS
<1> USE DEF Init, NoIntent, NoDeadline, NoCapture, NoEvent
<1>a. inbox \in Seq(Inputs)
  OBVIOUS
<1>b. audio_info \in BOOLEAN /\ features \in BOOLEAN
  OBVIOUS
<1>c. node_ports \in BOOLEAN /\ devices \in BOOLEAN
  OBVIOUS
<1>1. TypeOK
  BY <1>a, <1>b, <1>c DEF TypeOK, Event, ControlPoint, Handler, SessionState, DevicePolicy, AudioInitStatus
<1>2. WhereInv /\ InfoInv
  BY DEF WhereInv, InfoInv, AtRest, BringUp, Teardown, Recovery
<1>3. PathInv /\ FeatureInv
  BY DEF PathInv, HasPath, FeatureInv, AtRest
<1>4. DeadlineInv /\ RetryInv
  BY DEF DeadlineInv, DeadlinesBelongToSession, RetryInv, AtRest, BringUp, Teardown, Recovery
<1> QED
  BY <1>1, <1>2, <1>3, <1>4 DEF IInv

\* Every step keeps the inductive invariant.
LEMMA IInvStep ==
  ASSUME IInv, [Next]_vars
  PROVE  IInv'
<1>0. TypeOK'
  BY TypeStep DEF IInv
<1> USE <1>0, RetryBudgetAssumption, DeadlineAssumption
    DEF IInv, TypeOK, os, session, deadlines, datapath, publishers, Event, NoEvent,
        NoIntent, NoDeadline, NoCapture, ControlPoint, Handler, SessionState,
        DevicePolicy, AudioInitStatus, AtRest, BringUp, Teardown, Recovery, WhereInv,
        PathInv, HasPath, InfoInv, FeatureInv, DeadlineInv, DeadlinesBelongToSession,
        RetryInv
<1>1. CASE AcceptStart
  <2>1. Head(inbox).arg # "None"
    BY <1>1, InputShape DEF AcceptStart, Receive
  <2>2. RetryInv'
    BY <1>1, <2>1 DEF AcceptStart, Receive, Transition, ClearDeadlines, Goto
  <2> QED
    BY <1>1, <2>2 DEF AcceptStart, Receive, Transition, ClearDeadlines, Goto
<1>2. CASE IgnoreStart
  BY <1>2 DEF IgnoreStart, Receive, Ignore, Goto
<1>3. CASE StopLive
  BY <1>3 DEF StopLive, Receive, ClearDeadlines, Goto
<1>4. CASE StopError
  BY <1>4 DEF StopError, Receive, ClearDeadlines, Goto
<1>5. CASE IgnoreStop
  BY <1>5 DEF IgnoreStop, Receive, Ignore, Goto
<1>6. CASE Configure
  BY <1>6 DEF Configure, Receive, Goto
<1>7. CASE AnnounceMusic
  BY <1>7 DEF AnnounceMusic, Goto
<1>8. CASE AnswerQuery
  BY <1>8 DEF AnswerQuery, Receive, Ignore, Goto
<1>9. CASE RequestPermission
  BY <1>9 DEF RequestPermission, Receive, Goto
<1>10. CASE PermissionResolved
  BY <1>10 DEF PermissionResolved, Receive, Ignore, Goto
<1>11. CASE StaleLifecycle
  BY <1>11 DEF StaleLifecycle, Receive, Ignore, Goto
<1>12. CASE Interrupted
  BY <1>12 DEF Interrupted, ReceiveLifecycle, Receive, Ignore, Goto
<1>13. CASE InterruptionEnded
  BY <1>13 DEF InterruptionEnded, ReceiveLifecycle, Receive, Goto
<1>14. CASE RouteChanged
  BY <1>14 DEF RouteChanged, ReceiveLifecycle, Receive, Ignore, Goto
<1>15. CASE DefaultDeviceLost
  BY <1>15 DEF DefaultDeviceLost, ReceiveLifecycle, Receive, Ignore, Goto,
     CanReconcile, BeginReconcile
<1>16. CASE FailLifecycle
  BY <1>16 DEF FailLifecycle, ReceiveLifecycle, Receive, Ignore, Goto
<1>17. CASE ServiceDeadlines
  BY <1>17 DEF ServiceDeadlines, CanReconcile, BeginReconcile, Goto
<1>18. CASE Activate
  BY <1>18 DEF Activate
<1>19. CASE ActivateFails
  BY <1>19 DEF ActivateFails, AttemptFailed
<1>20. CASE Spawn
  BY <1>20 DEF Spawn
<1>21. CASE SpawnFails
  BY <1>21 DEF SpawnFails, AttemptFailed
<1>22. CASE OpenSucceeds
  BY <1>22 DEF OpenSucceeds
<1>23. CASE OpenFails
  BY <1>23 DEF OpenFails
<1>24. CASE AbandonAttempt
  BY <1>24 DEF AbandonAttempt, AttemptFailed
<1>25. CASE PublishInfo
  BY <1>25 DEF PublishInfo
<1>26. CASE AnnounceRunning
  BY <1>26 DEF AnnounceRunning, Transition, Return, Goto
<1>27. CASE AnnounceStopping
  BY <1>27 DEF AnnounceStopping, Transition
<1>28. CASE DropCapture
  BY <1>28 DEF DropCapture
<1>29. CASE JoinWorker
  BY <1>29 DEF JoinWorker
<1>30. CASE ClearPublishers
  BY <1>30 DEF ClearPublishers
<1>31. CASE AnnounceIdle
  BY <1>31 DEF AnnounceIdle, Transition, Return, Goto
<1>32. CASE SignalBegan
  BY <1>32 DEF SignalBegan, Return, Goto
<1>33. CASE Restart
  BY <1>33 DEF Restart, Transition
<1>34. CASE FailClear
  BY <1>34 DEF FailClear, ClearDeadlines
<1>35. CASE AnnounceError
  BY <1>35 DEF AnnounceError, Transition
<1>36. CASE ReportError
  BY <1>36 DEF ReportError, Return, Goto
<1>37. CASE ReceiveQuit
  BY <1>37 DEF ReceiveQuit, Receive, Goto
<1>38. CASE GoDown
  BY <1>38 DEF GoDown, ClearDeadlines, Goto
<1>39. CASE WorkerBuilds
  <2>1. worker' # "none" /\ UNCHANGED <<pc, task, state, audio_info>>
    BY <1>39 DEF WorkerBuilds
  <2>2. WhereInv' /\ InfoInv'
    BY <1>39 DEF WorkerBuilds
  <2>3. PathInv'
    BY <1>39, <2>1 DEF WorkerBuilds
  <2>4. FeatureInv'
    BY <1>39, <2>1 DEF WorkerBuilds
  <2>5. DeadlineInv' /\ RetryInv'
    BY <1>39 DEF WorkerBuilds
  <2> QED
    BY <1>0, <2>2, <2>3, <2>4, <2>5
<1>40. CASE WorkerHop
  BY <1>40 DEF WorkerHop
<1>41. CASE WorkerExits
  BY <1>41 DEF WorkerExits
<1>42. CASE SendCommand
  BY <1>42 DEF SendCommand, HeadIsUp, CanSend, Post, Command
<1>43. CASE SendQuit
  BY <1>43 DEF SendQuit, HeadIsUp, CanSend, Post
<1>44. CASE LifecycleFires
  BY <1>44 DEF LifecycleFires, CanSend, Post
<1>45. CASE PermissionFires
  BY <1>45 DEF PermissionFires, CanSend, Post
<1>46. CASE PermissionChanges
  BY <1>46 DEF PermissionChanges
<1>47. CASE Tick
  BY <1>47 DEF Tick
<1>48. CASE UNCHANGED vars
  BY <1>48 DEF vars
<1> QED
  BY <1>1, <1>2, <1>3, <1>4, <1>5, <1>6, <1>7, <1>8, <1>9, <1>10, <1>11, <1>12,
     <1>13, <1>14, <1>15, <1>16, <1>17, <1>18, <1>19, <1>20, <1>21, <1>22, <1>23,
     <1>24, <1>25, <1>26, <1>27, <1>28, <1>29, <1>30, <1>31, <1>32, <1>33, <1>34,
     <1>35, <1>36, <1>37, <1>38, <1>39, <1>40, <1>41, <1>42, <1>43, <1>44, <1>45,
     <1>46, <1>47, <1>48 DEF Next, ControlStep, Environment

\* The inductive invariant holds throughout, whatever the head, the OS and the
\* capture back end do.
THEOREM Inductive == Spec => []IInv
<1>1. Init => IInv
  BY IInvInit
<1>2. IInv /\ [Next]_vars => IInv'
  BY IInvStep
<1> QED
  BY <1>1, <1>2, PTL DEF Spec

\* Whatever the interleaving, every field and publisher keeps its type.
THEOREM TypeCorrect == Spec => []TypeOK
<1>1. IInv => TypeOK
  BY DEF TypeOK, IInv
<1> QED
  BY <1>1, Inductive, PTL

\* Whatever the interleaving, a session reported Running hears the stream it opened and holds its path.
THEOREM LiveStreamHeard == Spec => []LiveStreamIsHeard
<1>1. IInv => LiveStreamIsHeard
  BY DEF LiveStreamIsHeard, IInv, PathInv, HasPath
<1> QED
  BY <1>1, Inductive, PTL

\* Whatever the interleaving, a session reported Idle or Error holds nothing and publishes nothing live.
THEOREM NothingHeld == Spec => []NothingHeldWhenStopped
<1>1. IInv => NothingHeldWhenStopped
  BY DEF NothingHeldWhenStopped, NoDataPath, AtRest, IInv, WhereInv, PathInv,
     HasPath, InfoInv, FeatureInv, DeadlineInv, DeadlinesBelongToSession, TypeOK
<1> QED
  BY <1>1, Inductive, PTL

\* Whatever the interleaving, audio_info() is Some in Running, up to the two documented windows.
THEOREM InfoBrackets == Spec => []InfoBracketsRunning
<1>1. IInv => InfoBracketsRunning
  BY DEF InfoBracketsRunning, AtRest, BringUp, Teardown, Recovery, IInv, WhereInv,
     InfoInv, TypeOK, ControlPoint
<1> QED
  BY <1>1, Inductive, PTL

\* Whatever the interleaving, no feature is published in Idle or Error.
THEOREM FeaturesInSession == Spec => []FeaturesOnlyInSession
<1>1. IInv => FeaturesOnlyInSession
  BY DEF FeaturesOnlyInSession, AtRest, BringUp, Teardown, Recovery, IInv,
     WhereInv, PathInv, HasPath, FeatureInv, TypeOK, ControlPoint, SessionState
<1> QED
  BY <1>1, Inductive, PTL

\* Whatever the interleaving, the feature producer is never lost, so a restart always finds it.
THEOREM ProducerBack == Spec => []ProducerComesBack
<1>1. IInv => ProducerComesBack
  BY DEF ProducerComesBack, IInv, PathInv
<1> QED
  BY <1>1, Inductive, PTL

\* Whatever the interleaving, a stream never outlives its worker and is never opened twice.
THEOREM StreamDrained == Spec => []StreamHasWorker
<1>1. IInv => StreamHasWorker
  BY DEF StreamHasWorker, AtRest, BringUp, Teardown, Recovery, IInv, WhereInv,
     PathInv, HasPath, TypeOK, ControlPoint
<1> QED
  BY <1>1, Inductive, PTL

\* Whatever the interleaving, a deadline never outlives the session that set it.
THEOREM DeadlinesBelong == Spec => []DeadlinesBelongToSession
<1>1. IInv => DeadlinesBelongToSession
  BY DEF IInv, DeadlineInv
<1> QED
  BY <1>1, Inductive, PTL

\* Whatever the interleaving, a running session can be recovered, within the whole retry budget.
THEOREM RecoveryBudget == Spec => []RecoveryHasItsBudget
<1>1. IInv => RecoveryHasItsBudget
  BY DEF RecoveryHasItsBudget, IInv, RetryInv, BringUp, Recovery
<1> QED
  BY <1>1, Inductive, PTL

-----------------------------------------------------------------------------
(* Refinement.                                                             *)

\* The thread starts where the port says a session starts.
LEMMA RefineInit == Init => Contract!Init
BY DEF Init, Contract!Init

\* Which step of the port's contract each step of the thread is; most are not
\* visible at the port.
LEMMA RefineStep ==
  ASSUME IInv, [Next]_vars
  PROVE  [Contract!Next]_(Contract!vars)
<1> USE DEF IInv, TypeOK, os, session, deadlines, datapath, publishers, AtRest, BringUp,
            Teardown, Recovery, WhereInv, InfoInv, NoIntent
<1>1. AcceptStart => Contract!Start
  BY DEF AcceptStart, Receive, Transition, ClearDeadlines, Goto, Contract!Start,
     Contract!Take
<1>2. IgnoreStart => Contract!Drop
  BY DEF IgnoreStart, Receive, Ignore, Goto, Contract!Drop, Contract!Take
<1>3. StopLive => Contract!RetractInfo
  BY DEF StopLive, Receive, ClearDeadlines, Goto, Contract!RetractInfo,
     Contract!Take
<1>4. StopError => Contract!BeginReset
  BY DEF StopError, Receive, ClearDeadlines, Goto, Contract!BeginReset,
     Contract!Take
<1>5. IgnoreStop => Contract!Drop
  BY DEF IgnoreStop, Receive, Ignore, Goto, Contract!Drop, Contract!Take
<1>6. Configure => Contract!Drop
  BY DEF Configure, Receive, Goto, Contract!Drop, Contract!Take
<1>7. AnnounceMusic => UNCHANGED Contract!vars
  BY DEF AnnounceMusic, Goto, Contract!vars
<1>8. AnswerQuery => Contract!Drop
  BY DEF AnswerQuery, Receive, Ignore, Goto, Contract!Drop, Contract!Take
<1>9. RequestPermission => Contract!Drop
  BY DEF RequestPermission, Receive, Goto, Contract!Drop, Contract!Take
<1>10. PermissionResolved => Contract!Drop
  BY DEF PermissionResolved, Receive, Ignore, Goto, Contract!Drop, Contract!Take
<1>11. StaleLifecycle => Contract!Drop
  BY DEF StaleLifecycle, Receive, Ignore, Goto, Contract!Drop, Contract!Take
<1>12. Interrupted => Contract!RetractInfo \/ Contract!Drop
  BY DEF Interrupted, ReceiveLifecycle, Receive, Ignore, Goto,
     Contract!RetractInfo, Contract!Take, Contract!Drop
<1>13. InterruptionEnded => Contract!Drop
  BY DEF InterruptionEnded, ReceiveLifecycle, Receive, Goto, Contract!Drop,
     Contract!Take
<1>14. RouteChanged => Contract!Drop
  BY DEF RouteChanged, ReceiveLifecycle, Receive, Ignore, Goto, Contract!Drop,
     Contract!Take
<1>15. DefaultDeviceLost => Contract!RetractInfo \/ Contract!Drop
  BY DEF DefaultDeviceLost, ReceiveLifecycle, Receive, Ignore, Goto, CanReconcile,
     BeginReconcile, Contract!RetractInfo, Contract!Take, Contract!Drop
<1>16. FailLifecycle => Contract!Drop
  BY DEF FailLifecycle, ReceiveLifecycle, Receive, Ignore, Goto, Contract!Drop,
     Contract!Take
<1>17. ServiceDeadlines => Contract!RetractInfo \/ UNCHANGED Contract!vars
  BY DEF ServiceDeadlines, CanReconcile, BeginReconcile, Goto, Contract!vars,
     Contract!RetractInfo, Contract!Take
<1>18. Activate => UNCHANGED Contract!vars
  BY DEF Activate, Contract!vars
<1>19. ActivateFails => UNCHANGED Contract!vars
  BY DEF ActivateFails, AttemptFailed, Contract!vars
<1>20. Spawn => UNCHANGED Contract!vars
  BY DEF Spawn, Contract!vars
<1>21. SpawnFails => UNCHANGED Contract!vars
  BY DEF SpawnFails, AttemptFailed, Contract!vars
<1>22. OpenSucceeds => UNCHANGED Contract!vars
  BY DEF OpenSucceeds, Contract!vars
<1>23. OpenFails => UNCHANGED Contract!vars
  BY DEF OpenFails, Contract!vars
<1>24. AbandonAttempt => UNCHANGED Contract!vars
  BY DEF AbandonAttempt, AttemptFailed, Contract!vars
<1>25. PublishInfo => Contract!PublishInfo
  BY DEF PublishInfo, Contract!PublishInfo
<1>26. AnnounceRunning => Contract!Run
  BY DEF AnnounceRunning, Transition, Return, Goto, Contract!Run
<1>27. AnnounceStopping => Contract!Leave
  BY DEF AnnounceStopping, Transition, Contract!Leave
<1>28. DropCapture => UNCHANGED Contract!vars
  BY DEF DropCapture, Contract!vars
<1>29. JoinWorker => UNCHANGED Contract!vars
  BY DEF JoinWorker, Contract!vars
<1>30. ClearPublishers => UNCHANGED Contract!vars
  BY DEF ClearPublishers, Contract!vars
<1>31. AnnounceIdle => Contract!Settle \/ Contract!Reset
  BY DEF AnnounceIdle, Transition, Return, Goto, Contract!Settle, Contract!Reset
<1>32. SignalBegan => UNCHANGED Contract!vars
  BY DEF SignalBegan, Return, Goto, Contract!vars
<1>33. Restart => Contract!Settle
  BY DEF Restart, Transition, Contract!Settle
<1>34. FailClear => Contract!RetractInfo \/ UNCHANGED Contract!vars
  BY DEF FailClear, ClearDeadlines, Contract!vars, Contract!RetractInfo,
     Contract!Take
<1>35. AnnounceError => Contract!Fail
  BY DEF AnnounceError, Transition, Contract!Fail
<1>36. ReportError => UNCHANGED Contract!vars
  BY DEF ReportError, Return, Goto, Contract!vars
<1>37. ReceiveQuit => Contract!Drop
  BY DEF ReceiveQuit, Receive, Goto, Contract!Drop, Contract!Take
<1>38. GoDown => Contract!Shutdown
  BY DEF GoDown, ClearDeadlines, Goto, Contract!Shutdown
<1>39. WorkerBuilds => UNCHANGED Contract!vars
  BY DEF WorkerBuilds, Contract!vars
<1>40. WorkerHop => UNCHANGED Contract!vars
  BY DEF WorkerHop, Contract!vars
<1>41. WorkerExits => UNCHANGED Contract!vars
  BY DEF WorkerExits, Contract!vars
<1>42. SendCommand => Contract!Post
  BY DEF SendCommand, HeadIsUp, CanSend, Post, Command, Contract!Post
<1>43. SendQuit => Contract!Post
  BY DEF SendQuit, HeadIsUp, CanSend, Post, Contract!Post
<1>44. LifecycleFires => Contract!Post
  BY DEF LifecycleFires, CanSend, Post, Contract!Post
<1>45. PermissionFires => Contract!Post
  BY DEF PermissionFires, CanSend, Post, Contract!Post
<1>46. PermissionChanges => UNCHANGED Contract!vars
  BY DEF PermissionChanges, Contract!vars
<1>47. Tick => UNCHANGED Contract!vars
  BY DEF Tick, Contract!vars
<1>48. UNCHANGED vars => UNCHANGED Contract!vars
  BY DEF vars, Contract!vars
<1> QED
  BY <1>1, <1>2, <1>3, <1>4, <1>5, <1>6, <1>7, <1>8, <1>9, <1>10, <1>11, <1>12,
     <1>13, <1>14, <1>15, <1>16, <1>17, <1>18, <1>19, <1>20, <1>21, <1>22, <1>23,
     <1>24, <1>25, <1>26, <1>27, <1>28, <1>29, <1>30, <1>31, <1>32, <1>33, <1>34,
     <1>35, <1>36, <1>37, <1>38, <1>39, <1>40, <1>41, <1>42, <1>43, <1>44, <1>45,
     <1>46, <1>47, <1>48 DEF Next, ControlStep, Environment, Contract!Next

\* The control plane implements the contract of the AppCoach port.
THEOREM Refinement == Spec => CoachContract
<1>1. Init => Contract!Init
  BY RefineInit
<1>2. IInv /\ [Next]_vars => [Contract!Next]_(Contract!vars)
  BY RefineStep
<1> QED
  BY <1>1, <1>2, Inductive, PTL DEF Spec, CoachContract, Contract!Spec
=============================================================================
