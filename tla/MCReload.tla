------------------------------- MODULE MCReload -------------------------------
(* Instance of Reload for TLC. *)
EXTENDS Reload

\* An Ingress with certificates, a Service, a Secret.
MCFootprint == {Component, {"cluster_conf"}, {"tls_conf"}}

=============================================================================
