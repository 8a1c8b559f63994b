-------------------------- MODULE MCExternalCalls ---------------------------
EXTENDS ExternalCalls

SomeTools == {"slack_notification", "pagerduty_incident", Unregistered}
=============================================================================
