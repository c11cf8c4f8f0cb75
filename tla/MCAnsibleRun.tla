---------------------------- MODULE MCAnsibleRun ----------------------------
(* AnsibleRun on a playbook of two hosts.                                   *)
EXTENDS AnsibleRun

MCHosts == <<"h1", "h2">>
=============================================================================
