------------------------------ MODULE AuditLog ------------------------------
(***************************************************************************)
(* What the governance outbox promises to a reader of the audit bucket,    *)
(* with no database, lock, lease or retry in sight: the events of a        *)
(* governance transaction are committed once and together, a committed     *)
(* event becomes a visible artifact at most once, it never disappears or   *)
(* changes, and it is acknowledged only once visible.                      *)
(***************************************************************************)
CONSTANTS
  Event,
  Transactions   \* the sets of events that one transaction may commit

VARIABLES
  committed,     \* events whose governance transaction has committed
  visible,       \* events whose artifact a reader of the bucket finds
  acknowledged   \* events the database reports as published

vars == <<committed, visible, acknowledged>>

Init ==
  /\ committed = {}
  /\ visible = {}
  /\ acknowledged = {}

Commit(t) ==
  /\ t \cap committed = {}
  /\ committed' = committed \cup t
  /\ UNCHANGED <<visible, acknowledged>>

Reveal(e) ==
  /\ e \in committed \ visible
  /\ visible' = visible \cup {e}
  /\ UNCHANGED <<committed, acknowledged>>

Acknowledge(e) ==
  /\ e \in visible \ acknowledged
  /\ acknowledged' = acknowledged \cup {e}
  /\ UNCHANGED <<committed, visible>>

Next ==
  \/ \E t \in Transactions : Commit(t)
  \/ \E e \in Event : Reveal(e) \/ Acknowledge(e)

Spec == Init /\ [][Next]_vars
=============================================================================
