--------------------------- MODULE MCNotifications ---------------------------
EXTENDS Notifications

\* Two recoveries of one incident: what the event service and the "events
\* process" command leave when both found it open.  The opening was projected
\* and settled before the behaviour starts.
Recovery == [trigger |-> "recovered", severity |-> 3, incident |-> 1, kind |-> "container"]
MCTransitions == <<Recovery, Recovery>>

\* Two policies on one channel, which takes one message per window, with a
\* cooldown of two windows; the second also names a channel that is not configured.
Page == [enabled |-> TRUE, channels |-> <<"chat">>, transitions |-> {"opened", "recovered"},
         notify_recovery |-> TRUE, notify_acknowledgement |-> FALSE, notify_updates |-> FALSE,
         minimum_severity |-> 2, kinds |-> {}, cooldown_seconds |-> 2, window_seconds |-> 1, max_notifications |-> 1]
MCPolicies == <<Page, [Page EXCEPT !.channels = <<"gone", "chat">>, !.kinds = {"container"}]>>
MCChannels == [c \in {"chat"} |-> [enabled |-> TRUE, max_attempts |-> 2]]

\* One transition with a fault and a command, or both transitions without.
MCBudgets == {[transitions |-> 1, faults |-> 1, commands |-> 1],
              [transitions |-> 2, faults |-> 0, commands |-> 0]}

\* One transition, a fault, and a command of each operator.
TwoCommands == {[transitions |-> 1, faults |-> 1, commands |-> 2]}
=============================================================================
