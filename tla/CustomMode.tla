----------------------------- MODULE CustomMode -----------------------------
(***************************************************************************)
(* Custom screen sizes (FB/CEsvga2.cpp).  A tool asks for a size through   *)
(* CustomMode; the driver tells the WindowServer that the display has      *)
(* changed, and the tool waits until the WindowServer has set the mode and *)
(* released the display.  Tools and WindowServer share m_custom_switch     *)
(* without a lock: a wait asserts itself, looks again and only then        *)
(* blocks, and a set writes before it wakes.                               *)
(*                                                                         *)
(* The event goes through a handler that IOFramebuffer registers, enables, *)
(* disables and unregisters at any time.  While it is disabled the driver  *)
(* drops the event, and nothing bounds the tool's wait.                    *)
(*                                                                         *)
(* Every access to m_custom_switch and to the queue of waiting threads is  *)
(* a step.  The table has one mode, the custom mode: RestoreAllModes finds *)
(* no mode of another size and m_custom_mode_switched stays false.         *)
(***************************************************************************)
EXTENDS Naturals

CONSTANTS Tools,        \* threads that call CustomMode
          Sizes,        \* screen sizes
          FirstSize,    \* the size in modeList[0]
          MaxRequests,  \* bound: requests of all tools
          MaxChanges    \* bound: calls that enable, disable or unregister the handler

ASSUME CustomModeAssumption ==
  FirstSize \in Sizes /\ MaxRequests \in Nat /\ MaxChanges \in Nat

VARIABLES m_custom_switch,
          customMode,   \* its size
          known,        \* m_display_mode is a mode of the table
          shown,        \* the size the device shows
          waiting,      \* threads queued on m_custom_switch
          armed,        \* the delayed call of RestoreAllModes
          changed,      \* a connect-changed event for the WindowServer
          pc,           \* the next step of each tool
          ws,           \* the next step of the WindowServer
          requests,
          version13,    \* the system is version 13 or later
          intr,         \* the handler: m_intr.proc and m_intr_enabled
          lost,         \* history: the last event was dropped
          changes

table   == << customMode, known, shown >>
handler == << intr, lost, changes >>
vars    == << m_custom_switch, table, waiting, armed, changed, pc, ws,
             requests, version13, handler >>

\* The value that ends a request.
Answer == IF version13 THEN 0 ELSE 2

ToolSteps ==
  {"idle", "set", "wake", "emit", "call", "check", "assert", "recheck", "block",
   "done"}

\* TryDetectCurrentDisplayMode finds no mode and answers 3, which is not in the
\* table, so the first mode the WindowServer sets is the first that is known.
Init ==
  /\ m_custom_switch = 0 /\ customMode = FirstSize /\ known = FALSE
  /\ shown \in Sizes
  /\ waiting = {} /\ armed = FALSE /\ changed = FALSE
  /\ pc = [t \in Tools |-> "idle"] /\ ws = "mode"
  /\ requests = 0 /\ version13 \in BOOLEAN
  /\ intr = "none" /\ lost = FALSE /\ changes = 0

-----------------------------------------------------------------------------
At(t, from, to) == pc[t] = from /\ pc' = [pc EXCEPT ![t] = to]

\* thread_wakeup takes every thread out of the queue.
thread_wakeup == waiting' = {}

Request(t) ==
  /\ known /\ requests < MaxRequests /\ requests' = requests + 1
  /\ At(t, "idle", "set")
  /\ customMode' \in Sizes
  /\ UNCHANGED << m_custom_switch, known, shown, waiting, armed, changed, ws,
                  version13, handler >>

\* CustomSwitchStepSet(1)
StepSet1(t) ==
  /\ At(t, "set", "wake") /\ m_custom_switch' = 1
  /\ UNCHANGED << table, waiting, armed, changed, ws, requests,
                  version13, handler >>

StepWake1(t) ==
  /\ At(t, "wake", "emit") /\ thread_wakeup
  /\ UNCHANGED << m_custom_switch, table, armed, changed, ws, requests,
                  version13, handler >>

\* The loop at the head of EmitConnectChangedEvent sleeps until there is a handler.
WaitForHandler(t) ==
  /\ intr # "none" /\ At(t, "emit", "call")
  /\ UNCHANGED << m_custom_switch, table, waiting, armed, changed, ws, requests,
                  version13, handler >>

\* The event is sent if the handler is enabled now, and otherwise dropped.
EmitConnectChangedEvent(t) ==
  /\ At(t, "call", "check")
  /\ \/ intr = "on" /\ changed' = TRUE /\ lost' = FALSE
     \/ intr # "on" /\ lost' = TRUE /\ UNCHANGED changed
  /\ UNCHANGED << m_custom_switch, table, waiting, armed, ws, requests, version13,
                  intr, changes >>

\* CustomSwitchStepWait(Answer)
WaitCheck(t) ==
  /\ \/ m_custom_switch = Answer /\ At(t, "check", "done")
     \/ m_custom_switch # Answer /\ At(t, "check", "assert")
  /\ UNCHANGED << m_custom_switch, table, waiting, armed, changed, ws, requests,
                  version13, handler >>

WaitAssert(t) ==
  /\ At(t, "assert", "recheck") /\ waiting' = waiting \cup {t}
  /\ UNCHANGED << m_custom_switch, table, armed, changed, ws, requests,
                  version13, handler >>

\* Mutant: the value is not looked at again.
WaitRecheckNot(t) ==
  /\ At(t, "recheck", "block") /\ UNCHANGED waiting
  /\ UNCHANGED << m_custom_switch, table, armed, changed, ws, requests,
                  version13, handler >>

WaitRecheck(t) ==
  /\ At(t, "recheck", "block")
  /\ IF m_custom_switch = Answer THEN thread_wakeup ELSE UNCHANGED waiting
  /\ UNCHANGED << m_custom_switch, table, armed, changed, ws, requests,
                  version13, handler >>

\* thread_block comes back when the thread is no longer queued.
WaitBlock(t) ==
  /\ t \notin waiting /\ At(t, "block", "check")
  /\ UNCHANGED << m_custom_switch, table, waiting, armed, changed, ws, requests,
                  version13, handler >>

\* Before version 13 the modes are to be restored two seconds later.
Return(t) ==
  /\ At(t, "done", "idle")
  /\ armed' = (armed \/ Answer = 2)
  /\ UNCHANGED << m_custom_switch, table, waiting, changed, ws, requests,
                  version13, handler >>

\* Whatever m_custom_switch is: the only mode has the custom size.
RestoreAllModes ==
  /\ armed /\ armed' = FALSE
  /\ UNCHANGED << m_custom_switch, table, waiting, changed, pc, ws, requests,
                  version13, handler >>

-----------------------------------------------------------------------------
\* The WindowServer takes the event and looks at the display.
HandleEvent ==
  /\ ws = "idle" /\ changed /\ changed' = FALSE /\ ws' = "mode"
  /\ UNCHANGED << m_custom_switch, table, waiting, armed, pc, requests,
                  version13, handler >>

\* Mutant: the mode is noted but not given to the device.
setDisplayModeNot ==
  /\ ws = "mode" /\ ws' = IF known THEN "release" ELSE "idle"
  /\ known' = TRUE /\ UNCHANGED << customMode, shown >>
  /\ UNCHANGED << m_custom_switch, waiting, armed, changed, pc, requests,
                  version13, handler >>

\* setDisplayMode(CUSTOM_MODE_ID); the first time it is part of the login.
setDisplayMode ==
  /\ ws = "mode" /\ ws' = IF known THEN "release" ELSE "idle"
  /\ known' = TRUE /\ shown' = customMode /\ UNCHANGED customMode
  /\ UNCHANGED << m_custom_switch, waiting, armed, changed, pc, requests,
                  version13, handler >>

\* Mutant: the answer is the step before version 13 in every version.
setAttributeWrong ==
  /\ ws \in {"release", "idle"}
  /\ IF m_custom_switch = 1 /\ known
     THEN m_custom_switch' = 2 /\ ws' = "wake"
     ELSE ws' = "idle" /\ UNCHANGED m_custom_switch
  /\ UNCHANGED << table, waiting, armed, changed, pc, requests,
                  version13, handler >>

\* setAttribute(kIOCapturedAttribute, 0), after the mode or for another program.
setAttribute ==
  /\ ws \in {"release", "idle"}
  /\ IF m_custom_switch = 1 /\ known
     THEN m_custom_switch' = Answer /\ ws' = "wake"
     ELSE ws' = "idle" /\ UNCHANGED m_custom_switch
  /\ UNCHANGED << table, waiting, armed, changed, pc, requests,
                  version13, handler >>

StepWake ==
  /\ ws = "wake" /\ thread_wakeup /\ ws' = "idle"
  /\ UNCHANGED << m_custom_switch, table, armed, changed, pc, requests,
                  version13, handler >>

-----------------------------------------------------------------------------
\* Calls of IOFramebuffer, which holds the handler.
Handler(to) ==
  /\ intr' = to
  /\ UNCHANGED << m_custom_switch, table, waiting, armed, changed, pc, ws, requests,
                  version13, lost >>

Change == changes < MaxChanges /\ changes' = changes + 1

registerForInterruptType == intr # "on" /\ Handler("on") /\ UNCHANGED changes

setInterruptState ==
  \E state \in {"on", "off"} :
    intr \notin {"none", state} /\ Change /\ Handler(state)

unregisterInterrupt == intr # "none" /\ Change /\ Handler("none")

-----------------------------------------------------------------------------
Go(t) ==
  \/ StepSet1(t) \/ StepWake1(t) \/ WaitForHandler(t) \/ EmitConnectChangedEvent(t)
  \/ WaitCheck(t) \/ WaitAssert(t) \/ WaitRecheck(t) \/ WaitBlock(t) \/ Return(t)

WindowServer ==
  HandleEvent \/ setDisplayMode \/ (ws = "release" /\ setAttribute) \/ StepWake

Next ==
  \/ \E t \in Tools : Request(t) \/ Go(t)
  \/ HandleEvent \/ setDisplayMode \/ setAttribute \/ StepWake
  \/ RestoreAllModes
  \/ registerForInterruptType \/ setInterruptState \/ unregisterInterrupt

\* Threads are scheduled, and the WindowServer handles its events.
Fairness == WF_vars(WindowServer) /\ \A t \in Tools : WF_vars(Go(t))

Spec == Init /\ [][Next]_vars /\ Fairness

-----------------------------------------------------------------------------
TypeOK ==
  /\ m_custom_switch \in 0..2 /\ customMode \in Sizes /\ known \in BOOLEAN
  /\ shown \in Sizes /\ waiting \subseteq Tools /\ armed \in BOOLEAN
  /\ changed \in BOOLEAN /\ pc \in [Tools -> ToolSteps]
  /\ ws \in {"idle", "mode", "release", "wake"}
  /\ requests \in 0..MaxRequests /\ version13 \in BOOLEAN
  /\ intr \in {"none", "off", "on"} /\ lost \in BOOLEAN /\ changes \in 0..MaxChanges

\* No wakeup is lost: a thread that is queued and blocked, or about to block, while
\* the switch has the value it waits for will be woken by somebody who is already
\* on the way (or by itself).
NoLostWakeup ==
  m_custom_switch = Answer =>
    \A t \in waiting :
      \/ pc[t] = "recheck" \/ ws = "wake"
      \/ \E u \in Tools : pc[u] = "wake"

\* The WindowServer does not hear of a request: the last event was dropped, or a
\* tool still waits for a handler.
Unheard == lost \/ (intr = "none" /\ \E t \in Tools : pc[t] = "emit")

\* A request comes back unless the WindowServer never hears of it: however the
\* steps of tools, WindowServer and handler mix, a tool waits for ever only when,
\* from some time on, the last event stays dropped or a handler stays missing.  No
\* answer of CustomSwitchStepSet goes by a tool.
RequestEnds ==
  []<>~Unheard => \A t \in Tools : pc[t] # "idle" ~> pc[t] = "idle"

\* The device ends up with the size asked for last, even when an answer was given
\* to the wrong request or an earlier event was dropped, unless the last event is
\* the one that was dropped.
ScreenSettles ==
  []<>~Unheard => []<>(requests = MaxRequests => shown = customMode)
=============================================================================
