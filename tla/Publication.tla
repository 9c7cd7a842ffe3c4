----------------------------- MODULE Publication ------------------------------
(***************************************************************************)
(* What the reload of BFE promises, apart from files, versions and         *)
(* requests: BFE serves, component by component, a configuration that the  *)
(* builder held as a whole at the moment of delivery, and it gets a        *)
(* component only after everything the builder holds of those before it.   *)
(* Reload implements this specification.                                   *)
(***************************************************************************)

CONSTANTS
    Component,
    Before,              \* pairs of components, the first delivered first
    Content,             \* what a component can hold
    Fresh                \* what each component holds when the process starts

VARIABLES
    want,                \* what the builder holds
    have                 \* what BFE serves

TypeOK ==
    /\ want \in [Component -> Content]
    /\ have \in [Component -> Content]

Init ==
    /\ want = Fresh
    /\ have \in [Component -> Content]

\* Reconcilers change several components in one step, under the mutex.
Change ==
    /\ want' \in [Component -> Content]
    /\ UNCHANGED have

Deliver(c) ==
    /\ \A b \in Component : <<b, c>> \in Before => have[b] = want[b]
    /\ have' = [have EXCEPT ![c] = want[c]]
    /\ UNCHANGED want

\* BFE and the controller end together and start from what is on disk.
Restart ==
    /\ want' = Fresh
    /\ have' \in [Component -> Content]

Next == Change \/ Restart \/ \E c \in Component : Deliver(c)

Spec == Init /\ [][Next]_<<want, have>>

=============================================================================
