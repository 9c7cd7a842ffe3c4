-------------------------- MODULE MCIngressReconciler --------------------------
(* Instance of IngressReconciler for TLC. *)
EXTENDS IngressReconciler

Written(claim, form, annotated, note) ==
    [claim |-> claim, form |-> form, annotated |-> annotated, note |-> note]

\* Complete objects by annotation and by class, one of them with the note of another
\* cluster and one without any annotation; each of the odd forms; another controller's.
MCManifest ==
    {Written("annotation", "plain", TRUE, "none"),
     Written("class", "plain", TRUE, Fine),
     Written("class", "plain", FALSE, "none"),
     Written("annotation", "hostOnly", TRUE, "none"),
     Written("annotation", "untyped", TRUE, "none"),
     Written("annotation", "resource", TRUE, "none"),
     Written("other", "plain", TRUE, "none")}

=============================================================================
