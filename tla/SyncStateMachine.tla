-------------------------- MODULE SyncStateMachine --------------------------
(* apps/web/.../store/sync/syncStateMachine.ts: the pure transition function   *)
(* of the board's sync FSM and the effects it returns with each transition,    *)
(* which useSyncOrchestrator.ts executes. A transition is named by the states  *)
(* s and t it leads from and to and by the message m that causes it.           *)
EXTENDS Naturals

CONSTANT MaxAttempts     \* MAX_RECONNECT_ATTEMPTS
ASSUME AttemptAssumption == MaxAttempts \in Nat \ {0}

SyncStates == {"IDLE", "CONNECTING", "HEALTHY", "GAP", "REPLAYING", "DESYNCED",
               "RECONNECTING"}
StoreStatuses == {"healthy", "gap_detected", "reconnecting", "desynced",  \* the FSM's
                  "synced", "catching_up", "offline"}                  \* reconciler's

\* RECONNECT_ATTEMPT carries the number of the attempt: the last one gives up.
AttemptMessage(n) ==
    IF n >= MaxAttempts THEN "RECONNECT_EXHAUSTED" ELSE "RECONNECT_ATTEMPT"

\* Variant: GAP has no rule for a closed socket.
TransitionGapIgnoresClose(s, m) ==
    CASE m = "DISCONNECT_REQUESTED" -> "IDLE"
      [] m = "CONNECT_REQUESTED" /\ s \in {"IDLE", "DESYNCED"} -> "CONNECTING"
      [] m = "WS_CONNECTED" /\ s \in {"CONNECTING", "RECONNECTING"} -> "HEALTHY"
      [] m = "WS_CLOSED" /\ s \in {"CONNECTING", "HEALTHY", "REPLAYING",
                                   "RECONNECTING"} -> "RECONNECTING"
      [] m = "GAP_DETECTED" /\ s \in {"HEALTHY", "GAP"} -> "GAP"
      [] m = "GAP_FILLED" /\ s = "GAP" -> "HEALTHY"
      [] m = "GAP_TIMEOUT" /\ s = "GAP" -> "REPLAYING"
      [] m = "RESYNC_REQUIRED" /\ s = "HEALTHY" -> "DESYNCED"
      [] m = "REPLAY_COMPLETE" /\ s \in {"REPLAYING", "DESYNCED"} -> "HEALTHY"
      [] m = "REPLAY_FAILED" /\ s = "REPLAYING" -> "DESYNCED"
      [] m = "RECONNECT_EXHAUSTED" /\ s = "RECONNECTING" -> "DESYNCED"
      [] OTHER -> s

\* transition(): a message with no rule leaves the state alone.
Transition(s, m) ==
    CASE m = "DISCONNECT_REQUESTED" -> "IDLE"
      [] m = "CONNECT_REQUESTED" /\ s \in {"IDLE", "DESYNCED"} -> "CONNECTING"
      [] m = "WS_CONNECTED" /\ s \in {"CONNECTING", "RECONNECTING"} -> "HEALTHY"
      [] m = "WS_CLOSED" /\ s \in {"CONNECTING", "HEALTHY", "GAP", "REPLAYING",
                                   "RECONNECTING"} -> "RECONNECTING"
      [] m = "GAP_DETECTED" /\ s \in {"HEALTHY", "GAP"} -> "GAP"
      [] m = "GAP_FILLED" /\ s = "GAP" -> "HEALTHY"
      [] m = "GAP_TIMEOUT" /\ s = "GAP" -> "REPLAYING"
      [] m = "RESYNC_REQUIRED" /\ s = "HEALTHY" -> "DESYNCED"
      [] m = "REPLAY_COMPLETE" /\ s \in {"REPLAYING", "DESYNCED"} -> "HEALTHY"
      [] m = "REPLAY_FAILED" /\ s = "REPLAYING" -> "DESYNCED"
      [] m = "RECONNECT_EXHAUSTED" /\ s = "RECONNECTING" -> "DESYNCED"
      [] OTHER -> s

\* START_GAP_TIMER and CANCEL_GAP_TIMER
GapTimerAfter(s, t, armed) == \/ s # "GAP" /\ t = "GAP"
                              \/ armed /\ ~(s = "GAP" /\ t # "GAP")

\* SCHEDULE_RECONNECT and CANCEL_RECONNECT: the attempt the timer is set for, 0
\* when there is none. n is the attempt a RECONNECT_ATTEMPT carries.
ReconnectAfter(s, m, t, timer, n) ==
    CASE s # "RECONNECTING" /\ t = "RECONNECTING" -> 1
      [] s = "RECONNECTING" /\ m = "RECONNECT_ATTEMPT" -> n + 1
      [] s \in {"CONNECTING", "RECONNECTING"} /\ t \notin {s, "RECONNECTING"} -> 0
      [] OTHER -> timer

\* UPDATE_STORE_STATUS
StatusAfter(s, t, status) ==
    CASE s # t /\ t = "HEALTHY" -> "healthy"
      [] s # t /\ t = "GAP" -> "gap_detected"
      [] s # t /\ t \in {"CONNECTING", "RECONNECTING"} -> "reconnecting"
      [] s # t /\ t = "DESYNCED" -> "desynced"
      [] OTHER -> status

\* START_REPLAY and TRIGGER_FULL_RESYNC
ResyncTriggered(s, t) == s # t /\ t \in {"REPLAYING", "DESYNCED"}
=============================================================================
