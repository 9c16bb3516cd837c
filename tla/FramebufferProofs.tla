------------------------- MODULE FramebufferProofs -------------------------
(***************************************************************************)
(* Proofs about the two protocols between threads of the framebuffer       *)
(* driver, CustomMode and RefreshTimer.                                    *)
(*                                                                         *)
(* No wakeup on m_custom_switch is lost, for any number of tools, sizes    *)
(* and requests, whatever becomes of the handler of the events.  The       *)
(* switch gets the value a tool waits for in one step only, that of        *)
(* setAttribute, and the one who writes it is then on the way to wake.  A  *)
(* tool that asserts its wait afterwards looks again before it blocks.     *)
(*                                                                         *)
(* The refresh timer is never lost, with or without traces and for any     *)
(* number of switches and modes.                                           *)
(***************************************************************************)
EXTENDS CustomMode, RefreshTimer, TLAPS

IInv == TypeOK /\ NoLostWakeup

\* The state after start-up.
LEMMA InitInv == Init => IInv
<1> SUFFICES ASSUME Init PROVE IInv
  OBVIOUS
<1>1. TypeOK
  <2>1. requests \in 0..MaxRequests /\ customMode \in Sizes
    BY CustomModeAssumption DEF Init
  <2>2. pc \in [Tools -> ToolSteps]
    BY DEF Init, ToolSteps
  <2>3. /\ known \in BOOLEAN /\ armed \in BOOLEAN /\ changed \in BOOLEAN
        /\ version13 \in BOOLEAN /\ waiting \subseteq Tools /\ shown \in Sizes
    BY Zenon DEF Init
  <2>4. m_custom_switch \in 0..2 /\ ws \in {"idle", "mode", "release", "wake"}
    BY DEF Init
  <2>5. intr \in {"none", "off", "on"} /\ lost \in BOOLEAN
    BY Zenon DEF Init
  <2>6. changes \in 0..MaxChanges
    BY CustomModeAssumption DEF Init
  <2> QED  BY <2>1, <2>2, <2>3, <2>4, <2>5, <2>6, Zenon DEF TypeOK
<1>2. NoLostWakeup
  BY DEF Init, NoLostWakeup
<1> QED  BY <1>1, <1>2 DEF IInv

\* A tool's step from one place to the next.
LEMMA Moved ==
  ASSUME TypeOK, NEW t \in Tools, NEW from, NEW to \in ToolSteps, At(t, from, to)
  PROVE  /\ pc' \in [Tools -> ToolSteps] /\ pc[t] = from /\ pc'[t] = to
         /\ \A u \in Tools : u # t => pc'[u] = pc[u]
BY DEF At, TypeOK

\* The steps of a tool that neither write the switch nor change the queue, and do
\* not go to or come from a place where a wakeup is owed.
LEMMA PlainStep ==
  ASSUME IInv, NEW t \in Tools, NEW from, NEW to \in ToolSteps, At(t, from, to),
         from \notin {"recheck", "wake"},
         UNCHANGED << m_custom_switch, waiting, ws, version13 >>
  PROVE  NoLostWakeup'
<1>1. \A u \in Tools : pc[u] \in {"recheck", "wake"} => pc'[u] = pc[u]
  BY Moved DEF IInv
<1>2. waiting \subseteq Tools
  BY DEF IInv, TypeOK
<1> QED  BY <1>1, <1>2 DEF IInv, NoLostWakeup, Answer

\* The tools' own steps.
LEMMA ToolInv ==
  ASSUME IInv, NEW t \in Tools, Request(t) \/ Go(t)
  PROVE  IInv'
<1> TypeOK
  BY DEF IInv
<1> USE DEF table, handler, ToolSteps
<1>1. CASE Request(t)
  <2>1. At(t, "idle", "set") /\ "set" \in ToolSteps
    BY <1>1 DEF Request
  <2>2. TypeOK'
    BY <1>1, <2>1, Moved, CustomModeAssumption DEF Request, TypeOK
  <2> QED  BY <1>1, <2>1, <2>2, PlainStep DEF Request, IInv
<1>2. CASE StepSet1(t)
  <2>1. TypeOK'
    BY <1>2 DEF StepSet1, TypeOK, At
  <2>2. m_custom_switch' # Answer'
    BY <1>2 DEF StepSet1, Answer
  <2> QED  BY <2>1, <2>2 DEF NoLostWakeup, IInv
<1>3. CASE StepWake1(t)
  BY <1>3 DEF StepWake1, TypeOK, At, thread_wakeup, NoLostWakeup, IInv
<1>10. CASE WaitForHandler(t)
  <2>1. At(t, "emit", "call") /\ "call" \in ToolSteps
    BY <1>10 DEF WaitForHandler
  <2>2. TypeOK'
    BY <1>10, <2>1, Moved DEF WaitForHandler, TypeOK
  <2> QED  BY <1>10, <2>1, <2>2, PlainStep DEF WaitForHandler, IInv
<1>4. CASE EmitConnectChangedEvent(t)
  <2>1. At(t, "call", "check") /\ "check" \in ToolSteps
    BY <1>4 DEF EmitConnectChangedEvent
  <2>2. TypeOK'
    BY <1>4, <2>1, Moved DEF EmitConnectChangedEvent, TypeOK
  <2> QED  BY <1>4, <2>1, <2>2, PlainStep DEF EmitConnectChangedEvent, IInv
<1>5. CASE WaitCheck(t)
  <2>1. PICK to \in {"done", "assert"} : At(t, "check", to)
    BY <1>5 DEF WaitCheck
  <2>2. TypeOK'
    BY <1>5, <2>1, Moved DEF WaitCheck, TypeOK
  <2> QED  BY <1>5, <2>1, <2>2, PlainStep DEF WaitCheck, IInv
<1>6. CASE WaitAssert(t)
  <2>1. At(t, "assert", "recheck") /\ "recheck" \in ToolSteps
    BY <1>6 DEF WaitAssert
  <2>2. TypeOK'
    BY <1>6, <2>1, Moved DEF WaitAssert, TypeOK
  <2>3. /\ pc'[t] = "recheck" /\ pc[t] = "assert"
        /\ \A u \in Tools : u # t => pc'[u] = pc[u]
    BY <2>1, Moved
  <2>4. NoLostWakeup'
    BY <1>6, <2>3 DEF WaitAssert, NoLostWakeup, Answer, IInv, TypeOK
  <2> QED  BY <2>2, <2>4 DEF IInv
<1>7. CASE WaitRecheck(t)
  <2>1. At(t, "recheck", "block") /\ "block" \in ToolSteps
    BY <1>7 DEF WaitRecheck
  <2>2. TypeOK'
    BY <1>7, <2>1, Moved DEF WaitRecheck, TypeOK, thread_wakeup
  <2>3. NoLostWakeup'
    BY <1>7 DEF WaitRecheck, NoLostWakeup, Answer, thread_wakeup
  <2> QED  BY <2>2, <2>3 DEF IInv
<1>8. CASE WaitBlock(t)
  <2>1. At(t, "block", "check") /\ "check" \in ToolSteps
    BY <1>8 DEF WaitBlock
  <2>2. TypeOK'
    BY <1>8, <2>1, Moved DEF WaitBlock, TypeOK
  <2> QED  BY <1>8, <2>1, <2>2, PlainStep DEF WaitBlock, IInv
<1>9. CASE Return(t)
  <2>1. At(t, "done", "idle") /\ "idle" \in ToolSteps
    BY <1>9 DEF Return
  <2>2. armed' \in BOOLEAN
    BY <1>9, Zenon DEF Return
  <2>3. TypeOK'
    BY <1>9, <2>1, <2>2, Moved DEF Return, TypeOK
  <2> QED  BY <1>9, <2>1, <2>3, PlainStep DEF Return, IInv
<1> QED
  BY <1>1, <1>2, <1>3, <1>4, <1>5, <1>6, <1>7, <1>8, <1>9, <1>10 DEF Go

\* The WindowServer's steps and the delayed call.
LEMMA ServerInv ==
  ASSUME IInv,
         HandleEvent \/ setDisplayMode \/ setAttribute \/ StepWake \/ RestoreAllModes
  PROVE  IInv'
<1> USE DEF table, handler, IInv
<1>1. CASE HandleEvent
  BY <1>1 DEF HandleEvent, TypeOK, NoLostWakeup, Answer
<1>2. CASE setDisplayMode
  BY <1>2 DEF setDisplayMode, TypeOK, NoLostWakeup, Answer
<1>3. CASE setAttribute
  BY <1>3 DEF setAttribute, TypeOK, NoLostWakeup, Answer
<1>4. CASE StepWake
  BY <1>4 DEF StepWake, thread_wakeup, TypeOK, NoLostWakeup, Answer
<1>5. CASE RestoreAllModes
  BY <1>5 DEF RestoreAllModes, TypeOK, NoLostWakeup, Answer
<1> QED  BY <1>1, <1>2, <1>3, <1>4, <1>5

\* The calls on the handler of the events.
LEMMA HandlerInv ==
  ASSUME IInv, registerForInterruptType \/ setInterruptState \/ unregisterInterrupt
  PROVE  IInv'
<1>1. PICK to \in {"none", "off", "on"} : Handler(to)
  BY DEF registerForInterruptType, setInterruptState, unregisterInterrupt
<1>2. changes' \in 0..MaxChanges
  BY CustomModeAssumption
     DEF registerForInterruptType, setInterruptState, unregisterInterrupt, Change,
         IInv, TypeOK
<1> QED  BY <1>1, <1>2 DEF Handler, table, IInv, TypeOK, NoLostWakeup, Answer

\* Every step keeps the invariant.
LEMMA Inductive == IInv /\ [Next]_vars => IInv'
<1> SUFFICES ASSUME IInv, [Next]_vars PROVE IInv'
  OBVIOUS
<1>1. CASE UNCHANGED vars
  BY <1>1 DEF IInv, TypeOK, NoLostWakeup, Answer, vars, table, handler
<1> QED  BY <1>1, ToolInv, ServerInv, HandlerInv DEF Next

\* The shared variables and the places of the tools have their types.
THEOREM CustomModeTypes == Spec => []TypeOK
<1>1. IInv => TypeOK
  BY DEF IInv
<1> QED  BY <1>1, InitInv, Inductive, PTL DEF Spec

\* A tool that is queued while the switch has the value it waits for will be woken
\* by somebody who is already on the way: CustomSwitchStepWait asserts its wait,
\* looks again and only then blocks, and CustomSwitchStepSet writes before it wakes.
THEOREM CustomModeNoLostWakeup == Spec => []NoLostWakeup
<1>1. IInv => NoLostWakeup
  BY DEF IInv
<1> QED  BY <1>1, InitInv, Inductive, PTL DEF Spec

-----------------------------------------------------------------------------
\* TimerAlive counts on the thread that switches to cancel only what the flag has
\* made superfluous.
CancelsWhenOn == user = "cancel" => m_accel_updates

RefreshIInv == RefreshTypeOK /\ CancelsWhenOn /\ TimerAlive

\* The driver starts with the timer scheduled.
LEMMA RefreshInitIInv == RefreshInit => RefreshIInv
<1> SUFFICES ASSUME RefreshInit PROVE RefreshIInv
  OBVIOUS
<1>1. RefreshTypeOK
  <2>1. switches \in Nat /\ modes \in Nat
    BY DEF RefreshInit
  <2> QED
    BY <2>1, RefreshTimerAssumption, Zenon DEF RefreshInit, RefreshTypeOK
<1>2. CancelsWhenOn /\ TimerAlive
  BY RefreshTimerAssumption, Zenon DEF RefreshInit, CancelsWhenOn, TimerAlive
<1> QED
  BY <1>1, <1>2 DEF RefreshIInv

\* Every step keeps the types.
LEMMA NextTypeOK == RefreshTypeOK /\ [RefreshNext]_refreshVars => RefreshTypeOK'
<1> SUFFICES ASSUME RefreshTypeOK, [RefreshNext]_refreshVars PROVE RefreshTypeOK'
  OBVIOUS
<1> USE RefreshTimerAssumption
<1>1. CASE Draw \/ UNCHANGED refreshVars
  BY <1>1 DEF RefreshTypeOK, Draw, refreshVars, bounds
<1>2. CASE Timer
  BY <1>2 DEF RefreshTypeOK, Timer, TimerFires, TimerUpdates, TimerReads, TimerSchedules,
              scheduleRefreshTimer, UpdateFullscreen, bounds
<1>3. CASE ModeReads
  <2>1. modes' \in Nat
    BY <1>3 DEF RefreshTypeOK, ModeReads
  <2> QED
    BY <1>3, <2>1, Zenon DEF RefreshTypeOK, ModeReads
<1>4. CASE Mode
  BY <1>4 DEF RefreshTypeOK, Mode, ModeCancels, ModeSets, ModeRereads, ModeSchedules,
              scheduleRefreshTimer, cancelRefreshTimer, bounds
<1>5. CASE UserOn \/ UserOff
  <2>1. switches' \in Nat
    BY <1>5 DEF RefreshTypeOK, UserOn, UserOff
  <2> QED
    BY <1>5, <2>1, Zenon DEF RefreshTypeOK, UserOn, UserOff
<1>6. CASE User
  BY <1>6 DEF RefreshTypeOK, User, UserCancels, UserTracesOff, UserSchedules,
              UserTracesOn, scheduleRefreshTimer, cancelRefreshTimer,
              UpdateFullscreen, bounds
<1> QED
  BY <1>1, <1>2, <1>3, <1>4, <1>5, <1>6 DEF RefreshNext

\* The switch to a program and the cancel that follows are steps of one thread.
LEMMA NextCancelsWhenOn ==
  ASSUME RefreshTypeOK, CancelsWhenOn, [RefreshNext]_refreshVars
  PROVE  CancelsWhenOn'
<1>1. CASE Draw \/ Timer \/ ModeReads \/ Mode \/ UNCHANGED refreshVars
  BY <1>1 DEF CancelsWhenOn, Draw, Timer, TimerFires, TimerUpdates, TimerReads,
              TimerSchedules, ModeReads, Mode, ModeCancels, ModeSets, ModeRereads,
              ModeSchedules, refreshVars
<1>2. CASE UserOn \/ UserOff \/ User
  BY <1>2 DEF CancelsWhenOn, UserOn, UserOff, User, UserCancels, UserTracesOff,
              UserSchedules, UserTracesOn
<1> QED
  BY <1>1, <1>2 DEF RefreshNext

\* The timer that stops has read the flag; a cancel is followed by a schedule, or
\* comes when the flag is set.
LEMMA NextTimerAlive ==
  ASSUME RefreshTypeOK, CancelsWhenOn, TimerAlive, [RefreshNext]_refreshVars
  PROVE  TimerAlive'
<1>1. CASE Draw \/ UNCHANGED refreshVars
  BY <1>1 DEF TimerAlive, Draw, refreshVars, bounds
<1>2. CASE Timer
  BY <1>2 DEF RefreshTypeOK, TimerAlive, Timer, TimerFires, TimerUpdates, TimerReads,
              TimerSchedules, scheduleRefreshTimer, bounds
<1>3. CASE ModeReads
  BY <1>3, Zenon DEF TimerAlive, ModeReads
<1>4. CASE Mode
  BY <1>4 DEF RefreshTypeOK, TimerAlive, Mode, ModeCancels, ModeSets, ModeRereads,
              ModeSchedules, scheduleRefreshTimer, cancelRefreshTimer, bounds
<1>5. CASE UserOn \/ UserOff
  BY <1>5, Zenon DEF TimerAlive, UserOn, UserOff
<1>6. CASE User
  BY <1>6 DEF RefreshTypeOK, CancelsWhenOn, TimerAlive, User, UserCancels, UserTracesOff,
              UserSchedules, UserTracesOn, scheduleRefreshTimer, cancelRefreshTimer, bounds
<1> QED
  BY <1>1, <1>2, <1>3, <1>4, <1>5, <1>6 DEF RefreshNext

\* The conjunction is an invariant.
THEOREM RefreshInductive == RefreshSpec => []RefreshIInv
<1>1. RefreshInit => RefreshIInv
  BY RefreshInitIInv
<1>2. RefreshIInv /\ [RefreshNext]_refreshVars => RefreshIInv'
  BY NextTypeOK, NextCancelsWhenOn, NextTimerAlive DEF RefreshIInv
<1> QED
  BY <1>1, <1>2, PTL DEF RefreshSpec

\* The refresh timer is never lost between the three threads that cancel and
\* schedule it without a lock.
THEOREM TimerNeverLost == RefreshSpec => []TimerAlive
<1>1. RefreshIInv => TimerAlive
  BY DEF RefreshIInv
<1> QED
  BY <1>1, RefreshInductive, PTL
=============================================================================
