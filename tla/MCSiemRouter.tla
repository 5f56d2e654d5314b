---------------------------- MODULE MCSiemRouter ----------------------------
(* Instances of SiemRouter for TLC. *)
EXTENDS SiemRouter
TwoTransports == <<"splunk", "datadog">>
=============================================================================
