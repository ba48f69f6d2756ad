---------------------------- MODULE MCTelemetry ----------------------------
(***************************************************************************)
(* Small instances of Telemetry for TLC.                                   *)
(***************************************************************************)
EXTENDS Telemetry

\* Retention's timeout is fixed in the code and may exceed its interval.
MCEvery == [resource |-> 2, project |-> 2, retention |-> 2]
MCLimit == [resource |-> 1, project |-> 1, retention |-> 3]
MCTogether == {{"project"}, {"resource"}, {"retention"}}

DiscoveryAlone == {{"project"}}
=============================================================================
