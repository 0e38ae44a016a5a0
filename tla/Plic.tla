-------------------------------- MODULE Plic --------------------------------
(***************************************************************************)
(* The platform-level interrupt controller (src/interrupt.c): a gateway per *)
(* source that turns a level into a pending request, and the claim and      *)
(* complete handshake with the one context of the machine.  Operators on a  *)
(* record p of the controller's run state; the configuration, which the     *)
(* application writes once before the scheduler starts, is constant.        *)
(***************************************************************************)
EXTENDS Integers

CONSTANTS
    Sources,     \* the interrupt sources in use; 0 is reserved
    Enabled,     \* the sources whose enable_m bit is set
    Priority,    \* priority[source]
    Threshold    \* threshold_m

ASSUME PlicAssumption ==
    /\ Sources \subseteq Nat \ {0} /\ Enabled \subseteq Sources
    /\ Priority \in [Sources -> Nat] /\ Threshold \in Nat

PlicState == [level : SUBSET Sources, pending : SUBSET Sources,
              in_service : SUBSET Sources]
PlicReset == [level |-> {}, pending |-> {}, in_service |-> {}]

(* A source in service is held closed however often its line is driven.    *)
plic_set_level(p, asserted) ==
    [level |-> asserted,
     pending |-> (p.pending \cap asserted) \cup (asserted \ p.in_service),
     in_service |-> p.in_service]

(* The highest priority above the threshold; ties go to the lowest id.      *)
Better(s, r) ==
    Priority[s] > Priority[r] \/ (Priority[s] = Priority[r] /\ s <= r)
plic_select(p) ==
    LET active == {s \in p.pending \cap Enabled : Priority[s] > Threshold}
    IN  {s \in active : \A r \in active : Better(s, r)}

(* Whether MEIP is raised.                                                 *)
plic_pending(p) == plic_select(p) # {}

plic_claim(p) ==
    [p EXCEPT !.pending = @ \ plic_select(p),
              !.in_service = @ \cup plic_select(p)]

(* Completion samples the line again.  A source that is not in service is   *)
(* ignored.                                                                *)
CompletionLost(p, s) == p            \* mutant: the source stays in service
plic_complete(p, s) ==
    IF s \notin p.in_service THEN p
    ELSE [p EXCEPT !.in_service = @ \ {s},
                   !.pending = @ \cup ({s} \cap p.level)]
=============================================================================
