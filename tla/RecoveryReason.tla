--------------------------- MODULE RecoveryReason ---------------------------
(***************************************************************************)
(* What a recovery reason means: classifyRecoveryReason of                 *)
(* shared/service/RecoveryReasonClass.kt in AUTO resolver mode.  A reason  *)
(* is the prefix (and, for "_no_response", the suffix) the code matches.   *)
(* hasCurrent: a resolver is in use; alreadyFailed: it is condemned.       *)
(***************************************************************************)

BridgeFailures == {"bridge_failures_no_response", "bridge_failures_startup",
                   "bridge_failures_accumulated"}
FastPath       == {"traffic_no_response", "traffic_starved"} \cup BridgeFailures
FastRetry      == {"bridge_failures_accumulated", "bridge_failure_storm"}
Silence        == {"traffic_no_response", "bridge_failures_no_response"}
TrafficTrouble == {"traffic_no_response", "resolver_unreachable"}
BridgeTrouble  == BridgeFailures \cup {"bridge_failure_storm"}
NativeTrouble  == {"native_not_running", "native_not_ready"}

Reasons == FastPath \cup FastRetry \cup TrafficTrouble \cup NativeTrouble
               \cup {"network_changed"}

NativeNoProgress(reason, noProgress) == reason = "native_not_running" /\ noProgress

\* One more try on the current resolver before it is condemned.
RetryCurrentFirst(reason, hasCurrent, alreadyFailed) ==
    reason \in Silence /\ hasCurrent /\ ~alreadyFailed

\* reuseCurrentResolver
ReuseCurrent(reason, noProgress, hasCurrent, alreadyFailed) ==
    \/ NativeNoProgress(reason, noProgress)
    \/ reason \in FastRetry
    \/ RetryCurrentFirst(reason, hasCurrent, alreadyFailed)
    \/ reason \in FastPath \ (TrafficTrouble \cup BridgeTrouble)

\* Mutant of Rotate: every bridge trouble condemns the resolver.
RotateStorm(reason, noProgress, hasCurrent, alreadyFailed) ==
    /\ ~RetryCurrentFirst(reason, hasCurrent, alreadyFailed)
    /\ \/ reason = "native_not_running" /\ ~noProgress
       \/ reason \in TrafficTrouble \cup BridgeTrouble
       \/ reason = "native_not_ready"

\* rotateResolver: the current resolver is condemned.
Rotate(reason, noProgress, hasCurrent, alreadyFailed) ==
    /\ ~RetryCurrentFirst(reason, hasCurrent, alreadyFailed)
    /\ \/ reason = "native_not_running" /\ ~noProgress
       \/ reason \in TrafficTrouble
       \/ reason \in BridgeTrouble \ FastRetry
       \/ reason = "native_not_ready"

\* autoFastRecovery: take a resolver at once, without probing.
AutoFast(reason, hasCurrent) == hasCurrent /\ reason \in NativeTrouble
=============================================================================
