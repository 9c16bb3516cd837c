---------------------------- MODULE RefreshTimer ----------------------------
(***************************************************************************)
(* How drawing in the framebuffer reaches the screen (FB/CEsvga2.cpp).     *)
(* The host traces writes to the framebuffer if it can; if not, a delayed  *)
(* call updates the whole screen again and again.  While a program updates *)
(* the screen through the accelerator, traces and timer are off.           *)
(*                                                                         *)
(* The timer, setDisplayMode and useAccelUpdates run in threads of their   *)
(* own and share m_accel_updates and the delayed call without a lock; only *)
(* the commands are put into the FIFO under m_iolock, which makes each of  *)
(* those blocks one step.  Calls of useAccelUpdates do not overlap (the    *)
(* accelerator lets one program switch), and the driver is not stopped.    *)
(*                                                                         *)
(* The names of the specification begin with Refresh since the proofs of   *)
(* this module and those of CustomMode are in one module that extends both.*)
(***************************************************************************)
EXTENDS Naturals

CONSTANTS MaxSwitches,  \* bound: calls of useAccelUpdates
          MaxModes      \* bound: calls of setDisplayMode

ASSUME RefreshTimerAssumption ==
  MaxSwitches \in Nat /\ MaxModes \in Nat

VARIABLES m_accel_updates,
          pending,      \* m_refresh_call is scheduled
          traces,       \* SVGA_REG_TRACES
          hidden,       \* something drawn has not reached the screen
          timer, mode, user,    \* the next step of each thread
          switches, modes,
          hasTraces     \* the device has SVGA_CAP_TRACES

bounds == << switches, modes, hasTraces >>
refreshVars == << m_accel_updates, pending, traces, hidden, timer, mode, user, bounds >>

\* scheduleRefreshTimer and cancelRefreshTimer; with traces there is no call.
scheduleRefreshTimer == pending' = ~hasTraces
cancelRefreshTimer   == pending' = FALSE

UpdateFullscreen == hidden' = FALSE

RefreshInit ==
  /\ hasTraces \in BOOLEAN
  /\ m_accel_updates = FALSE /\ pending = ~hasTraces /\ traces = hasTraces
  /\ hidden = FALSE
  /\ timer = "idle" /\ mode = "idle" /\ user = "idle"
  /\ switches = 0 /\ modes = 0

\* A program draws.
Draw ==
  /\ hidden' = (hidden \/ ~traces)
  /\ UNCHANGED << m_accel_updates, pending, traces, timer, mode, user, bounds >>

-----------------------------------------------------------------------------
\* refreshTimerAction
TimerFires ==
  /\ pending /\ timer = "idle"
  /\ pending' = FALSE /\ timer' = "update"
  /\ UNCHANGED << m_accel_updates, traces, hidden, mode, user, bounds >>

TimerUpdates ==
  /\ timer = "update" /\ UpdateFullscreen /\ timer' = "read"
  /\ UNCHANGED << m_accel_updates, pending, traces, mode, user, bounds >>

\* Mutant: the timer goes on whatever the flag says.
TimerReadsNot ==
  /\ timer = "read" /\ timer' = "schedule"
  /\ UNCHANGED << m_accel_updates, pending, traces, hidden, mode, user, bounds >>

TimerReads ==
  /\ timer = "read"
  /\ timer' = IF m_accel_updates THEN "idle" ELSE "schedule"
  /\ UNCHANGED << m_accel_updates, pending, traces, hidden, mode, user, bounds >>

TimerSchedules ==
  /\ timer = "schedule" /\ scheduleRefreshTimer /\ timer' = "idle"
  /\ UNCHANGED << m_accel_updates, traces, hidden, mode, user, bounds >>

-----------------------------------------------------------------------------
\* setDisplayMode
ModeReads ==
  /\ mode = "idle" /\ modes < MaxModes /\ modes' = modes + 1
  /\ mode' = IF m_accel_updates THEN "set" ELSE "cancel"
  /\ UNCHANGED << m_accel_updates, pending, traces, hidden, timer, user, switches,
                  hasTraces >>

ModeCancels ==
  /\ mode = "cancel" /\ cancelRefreshTimer /\ mode' = "set"
  /\ UNCHANGED << m_accel_updates, traces, hidden, timer, user, bounds >>

\* SetMode; what is on the screen has to be drawn again.
ModeSets ==
  /\ mode = "set" /\ hidden' = (hidden \/ ~traces) /\ mode' = "reread"
  /\ UNCHANGED << m_accel_updates, pending, traces, timer, user, bounds >>

ModeRereads ==
  /\ mode = "reread"
  /\ mode' = IF m_accel_updates THEN "idle" ELSE "schedule"
  /\ UNCHANGED << m_accel_updates, pending, traces, hidden, timer, user, bounds >>

ModeSchedules ==
  /\ mode = "schedule" /\ scheduleRefreshTimer /\ mode' = "idle"
  /\ UNCHANGED << m_accel_updates, traces, hidden, timer, user, bounds >>

-----------------------------------------------------------------------------
\* useAccelUpdates
UserOn ==
  /\ user = "idle" /\ ~m_accel_updates
  /\ switches < MaxSwitches /\ switches' = switches + 1
  /\ m_accel_updates' = TRUE /\ user' = "cancel"
  /\ UNCHANGED << pending, traces, hidden, timer, mode, modes, hasTraces >>

UserCancels ==
  /\ user = "cancel" /\ cancelRefreshTimer /\ user' = "tracesOff"
  /\ UNCHANGED << m_accel_updates, traces, hidden, timer, mode, bounds >>

UserTracesOff ==
  /\ user = "tracesOff" /\ traces' = FALSE /\ user' = "idle"
  /\ UNCHANGED << m_accel_updates, pending, hidden, timer, mode, bounds >>

\* Mutant: the flag is switched off and the timer forgotten.
UserOffNot ==
  /\ user = "idle" /\ m_accel_updates
  /\ switches < MaxSwitches /\ switches' = switches + 1
  /\ m_accel_updates' = FALSE /\ user' = "tracesOn"
  /\ UNCHANGED << pending, traces, hidden, timer, mode, modes, hasTraces >>

UserOff ==
  /\ user = "idle" /\ m_accel_updates
  /\ switches < MaxSwitches /\ switches' = switches + 1
  /\ m_accel_updates' = FALSE /\ user' = "schedule"
  /\ UNCHANGED << pending, traces, hidden, timer, mode, modes, hasTraces >>

UserSchedules ==
  /\ user = "schedule" /\ scheduleRefreshTimer /\ user' = "tracesOn"
  /\ UNCHANGED << m_accel_updates, traces, hidden, timer, mode, bounds >>

\* Mutant: the traces start without an update of what they have missed.
UserTracesOnOnly ==
  /\ user = "tracesOn" /\ user' = "idle"
  /\ traces' = hasTraces /\ UNCHANGED hidden
  /\ UNCHANGED << m_accel_updates, pending, timer, mode, bounds >>

UserTracesOn ==
  /\ user = "tracesOn" /\ user' = "idle"
  /\ traces' = hasTraces
  /\ IF hasTraces THEN UpdateFullscreen ELSE UNCHANGED hidden
  /\ UNCHANGED << m_accel_updates, pending, timer, mode, bounds >>

-----------------------------------------------------------------------------
Timer == TimerFires \/ TimerUpdates \/ TimerReads \/ TimerSchedules
Mode  == ModeCancels \/ ModeSets \/ ModeRereads \/ ModeSchedules
User  == UserCancels \/ UserTracesOff \/ UserSchedules \/ UserTracesOn

RefreshNext == Draw \/ Timer \/ ModeReads \/ Mode \/ UserOn \/ UserOff \/ User

\* A scheduled call is made and a call that has begun goes on.
RefreshFairness == WF_refreshVars(Timer) /\ WF_refreshVars(Mode) /\ WF_refreshVars(User)

RefreshSpec == RefreshInit /\ [][RefreshNext]_refreshVars /\ RefreshFairness

-----------------------------------------------------------------------------
RefreshTypeOK ==
  /\ m_accel_updates \in BOOLEAN /\ pending \in BOOLEAN /\ traces \in BOOLEAN
  /\ hidden \in BOOLEAN
  /\ timer \in {"idle", "update", "read", "schedule"}
  /\ mode \in {"idle", "cancel", "set", "reread", "schedule"}
  /\ user \in {"idle", "cancel", "tracesOff", "schedule", "tracesOn"}
  /\ switches \in Nat /\ modes \in Nat /\ hasTraces \in BOOLEAN

\* Without traces and without a program that updates the screen, the timer is
\* never lost: it is scheduled or running, or somebody is about to schedule it,
\* although three threads read the flag, cancel and schedule without a lock.
TimerAlive ==
  ~hasTraces /\ ~m_accel_updates =>
    \/ pending \/ timer # "idle"
    \/ user = "schedule" \/ mode \in {"set", "reread", "schedule"}

\* What is drawn reaches the screen, or a program has begun to take care of it.
DrawingShown == hidden ~> ~hidden \/ m_accel_updates

\* When a program updates the screen for good, the timer stops, even if it was
\* scheduled by a thread that had read the flag before the switch.
TimerStops == <>[]m_accel_updates => <>[](~pending /\ timer = "idle")
=============================================================================
