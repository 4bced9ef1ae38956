---------------------------- MODULE MCIncidentEngine ----------------------------
(* A small instance of WebhookServer for TLC: windows of one to three ticks, *)
(* so that events fall inside, at the edge of and outside each of them.      *)
EXTENDS WebhookServer, TLC

CONSTANTS e1, e2, f, g

Trigger(type, count, window, severities) ==
  [type |-> type, count |-> count, window |-> window, severities |-> severities]

\* A rule of each kind: the window of the first is longer than the deduplication
\* window, the second counts the responses of all fingerprints, the others fire at
\* once, and the last only after a deploy.
AllRules ==
  {Trigger("repeated_stacktrace", 2, 2, {}), Trigger("http_5xx_rate", 2, 1, {}),
   Trigger("uncaught_exception", 1, 0, {}), Trigger("alert_webhook", 1, 0, {"critical", "high"}),
   Trigger("deployment_regression", 1, 1, {})}

Fields(fp, type, severity, delay) ==
  [fp |-> fp, type |-> type, severity |-> severity, delay |-> delay]

Sent(route, authentic, items) ==
  [route |-> route, authentic |-> authentic, json |-> TRUE, items |-> items]

\* What reportError of the SDK sends, a report by hand of what is noise, batches of
\* which a part cannot be read or comes late, and requests that are refused.
SomeRequests ==
  {Sent("events", FALSE, <<Fields(f, "uncaught_exception", "error", 0)>>),
   Sent("incidents", FALSE, <<Fields(g, Absent, Absent, 0)>>),
   Sent("alertmanager", TRUE, <<Fields(f, Absent, "critical", 1), Malformed>>),
   Sent("otel", TRUE, <<Malformed, Fields(f, Absent, Absent, 0)>>),
   Sent("sentry", FALSE, <<Fields(f, Absent, "fatal", 0)>>)}

SeenByWrapper == {Fields(f, "http_5xx", "error", 0)}

=============================================================================
