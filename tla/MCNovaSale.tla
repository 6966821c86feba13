------------------------------ MODULE MCNovaSale ------------------------------
(* Instances of NovaSale for TLC: two accounts and two portions, each phase of *)
(* the sale one moment long.                                                   *)
EXTENDS NovaSale

CONSTANTS a1, a2

MCUnlockAt == [p \in Portions |-> Unlock + p]

Opening(t, rs, bs) == [now |-> t, registered |-> rs, bought |-> bs]
MCOpenings == {Opening(0, {}, {}), Opening(SaleStart, {a1, a2}, {}), Opening(Unlock, {a1, a2}, {a1}),
               Opening(Unlock, {a1, a2}, {a2}), Opening(Unlock, {a1, a2}, {a1, a2})}

=============================================================================
