---------------------------- MODULE RequestPolicy ----------------------------
(* resolve_request_policy (Cpp/src/internal/request_pipeline.cpp), for the  *)
(* operation classes that go through send() or send_web(); in milliseconds. *)
EXTENDS Naturals

OperationClass ==
    {"TrustedTimeSync", "OnlineKeyManifest", "UpdateCheck", "Heartbeat",
     "OperationAuthorization", "OperationGrantConsume", "Events", "Feedback",
     "EnrollmentTicket", "DeviceKeyRotation", "FirmwareIdentity", "DebugProtocol"}

Limits(timeout, retries, backoff, backoff_max, deadline) ==
    [timeout |-> timeout, retries |-> retries, backoff |-> backoff,
     backoff_max |-> backoff_max, deadline |-> deadline]

(* Mutant of ResolveRequestPolicy: a deadline of twice the timeout. *)
TightDeadlines ==
    [o \in OperationClass |-> Limits(10000, 2, 1000, 4000, 20000)]
(* resolve_request_policy *)
ResolveRequestPolicy ==
    [o \in OperationClass |->
        CASE o \in {"TrustedTimeSync", "OnlineKeyManifest"} -> Limits(10000, 2, 1000, 4000, 40000)
          [] o = "UpdateCheck" -> Limits(15000, 2, 1500, 6000, 60000)
          [] o = "Heartbeat" -> Limits(8000, 2, 1000, 4000, 30000)
          [] o = "OperationAuthorization" -> Limits(10000, 2, 1000, 4000, 36000)
          [] o = "Events" -> Limits(8000, 1, 1000, 2000, 20000)
          [] o \in {"OperationGrantConsume", "Feedback", "EnrollmentTicket",
                    "DeviceKeyRotation"} -> Limits(10000, 1, 1000, 2000, 24000)
          [] o \in {"FirmwareIdentity", "DebugProtocol"} -> Limits(8000, 1, 500, 1000, 20000)]
=============================================================================
