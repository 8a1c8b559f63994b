------------------------------- MODULE Tools --------------------------------
(***************************************************************************)
(* What a tool reports to the executor, as a function of the arguments the *)
(* plan gave it and of what the outside world did with its request.  No    *)
(* built-in tool lets an exception out: bad arguments, timeouts and HTTP   *)
(* errors all come back as a result.                                       *)
(***************************************************************************)

Local == {"log_analysis", "email_draft", "database_query"}
Remote == {"webhook", "slack_notification", "pagerduty_incident"}
Registered == Local \cup Remote
Unregistered == "unregistered"  \* any name that register_tools does not know

(* What becomes of a call: the tool refuses the arguments and sends        *)
(* nothing; the answer is an object, or a body that is JSON but not an     *)
(* object, with a good status; a bad status; silence until the timeout; no *)
(* connection, or one that is lost.  A local tool answers or refuses.      *)
Replies(tool) ==
    IF tool \in Local THEN {"refused", "ok"}
    ELSE {"refused", "ok", "oddBody", "error", "timeout", "unreachable"}

(* How often the call took effect outside; without a good status nobody    *)
(* knows.                                                                  *)
Effects(tool, reply) ==
    IF tool \in Local \/ reply = "refused" THEN {0}
    ELSE IF reply \in {"ok", "oddBody"} THEN {1} ELSE {0, 1}

(* WebhookTool: what cannot be reached or does not answer counts as        *)
(* delivered ("demo mode").                                                *)
WebhookSucceeds(reply) == reply \notin {"refused", "error"}

SlackTrustingTimeouts(reply) == reply \in {"ok", "oddBody", "timeout"}  \* mutant
SlackSucceeds(reply) == reply \in {"ok", "oddBody"}

(* PagerDutyIncidentTool reads the body as an object; if it is not one,    *)
(* the AttributeError is reported as a failure although the event was      *)
(* accepted.                                                               *)
PagerDutySucceeds(reply) == reply = "ok"

(* ToolResult.success.                                                     *)
Succeeds(tool, reply) ==
    \/ tool = "webhook" /\ WebhookSucceeds(reply)
    \/ tool = "slack_notification" /\ SlackSucceeds(reply)
    \/ tool = "pagerduty_incident" /\ PagerDutySucceeds(reply)
    \/ tool \in Local /\ reply = "ok"
=============================================================================
