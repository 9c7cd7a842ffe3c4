---------------------------- MODULE SlotOwnership -----------------------------
(***************************************************************************)
(* What the rule cache promises to Ingresses that compete, apart from      *)
(* rules, paths walked one by one, indexes and files: a slot (a host, a    *)
(* path and a condition) has one holder, an Ingress gets all the slots it  *)
(* asks for or none, and only an elder one takes a slot away.              *)
(* ServerDataConfig implements this specification.                         *)
(***************************************************************************)
EXTENDS Integers

CONSTANTS
    Claimant,            \* Ingresses
    Asked(_, _),         \* the slots a claimant asks for with a wish
    Since(_)             \* the age of a wish that asks for something

VARIABLES
    wish,                \* what each claimant wants
    held,                \* who holds which slot, and since when it exists
    granted              \* claimants told that they have what they asked for

Init ==
    /\ \A i \in Claimant : Asked(i, wish[i]) = {}
    /\ held = {}
    /\ granted = {}

Others(i) == {c \in held : c.owner # i}

\* Holders that make way when i asks for the slots W: the strictly younger ones.
Displaced(i, W) == {c \in Others(i) : c.slot \in W /\ Since(wish[i]) < c.since}

\* Users decide what is asked for; who asks for something else stays as old as it is.
Ask(i) ==
    /\ \A j \in Claimant \ {i} : wish'[j] = wish[j]
    /\ Asked(i, wish[i]) # {} /\ Asked(i, wish'[i]) # {} => Since(wish'[i]) = Since(wish[i])
    /\ UNCHANGED <<held, granted>>

\* No elder stands in the way.  A holder of the same age keeps its slot.
Grant(i) ==
    LET slots == Asked(i, wish[i])
        kept == Others(i) \ Displaced(i, slots)
        free == {s \in slots : \A c \in kept : c.slot # s}
    IN  /\ UNCHANGED wish
        /\ slots # {}
        /\ \A c \in Others(i) : c.slot \in slots => ~(c.since < Since(wish[i]))
        /\ held' = kept \cup {[slot |-> s, owner |-> i, since |-> Since(wish[i])] : s \in free}
        /\ granted' = granted \cup {i}

\* Who asks for nothing keeps what it had.
Ignore(i) ==
    /\ Asked(i, wish[i]) = {}
    /\ granted' = granted \cup {i}
    /\ UNCHANGED <<wish, held>>

\* Who is refused or gone loses everything; the younger ones it has displaced by
\* then do not come back.
Withdraw(i) ==
    /\ UNCHANGED wish
    /\ granted' = granted \ {i}
    /\ \E W \in SUBSET Asked(i, wish[i]) : held' = Others(i) \ Displaced(i, W)

Next ==
    \E i \in Claimant : Ask(i) \/ Grant(i) \/ Ignore(i) \/ Withdraw(i)

Spec == Init /\ [][Next]_<<wish, held, granted>>

=============================================================================
