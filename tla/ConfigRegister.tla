-------------------------- MODULE ConfigRegister --------------------------
(***************************************************************************)
(* What the configuration store promises, without files, queues or steps:  *)
(* one configuration, moved by whole edits, of which a restart never takes *)
(* back anything that was acknowledged.  A configuration is the set of the *)
(* edits it incorporates.                                                  *)
(***************************************************************************)
CONSTANT Edit

VARIABLES
    value,   \* the configuration in force
    owed     \* the edits that were acknowledged and not replaced since

registerVars == <<value, owed>>

RegisterTypeOK ==
    /\ value \subseteq Edit
    /\ owed \subseteq value

RegisterInit == value = {} /\ owed = {}

\* A patch adds one edit to the configuration in force.
Apply(e) ==
    /\ value' = value \cup {e}
    /\ UNCHANGED owed

\* An import or a restored backup replaces it, and what it owed with it.
Supersede(v) ==
    /\ value' = v
    /\ owed' = owed \cap v

\* The configuration in force is confirmed to the caller.
Acknowledge ==
    /\ owed' = value
    /\ UNCHANGED value

\* A restart finds some configuration that holds everything acknowledged.
Restart(v) ==
    /\ owed \subseteq v
    /\ value' = v
    /\ UNCHANGED owed

RegisterNext ==
    \/ \E e \in Edit : Apply(e)
    \/ \E v \in SUBSET Edit : Supersede(v) \/ Restart(v)
    \/ Acknowledge

RegisterSpec == RegisterInit /\ [][RegisterNext]_registerVars

===========================================================================
