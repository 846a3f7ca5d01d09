----------------------------- MODULE MCFallback -----------------------------
(***************************************************************************)
(* Small instances of Fallback for TLC.                                    *)
(***************************************************************************)
EXTENDS Fallback, TLC

CONSTANTS r1, r2, c1, hy3, paid, trial

\* hy3 is free, paid is priced, trial is declared by hand.
MCCatalog ==
    c1 :> <<[id |-> hy3, kind |-> "free"], [id |-> paid, kind |-> "priced"]>>

\* The same without the priced one, for the properties of whole behaviours.
MCFreeCatalog == c1 :> <<[id |-> hy3, kind |-> "free"]>>

MCExtraModels == <<[id |-> trial, kind |-> "declared"]>>

\* A model the operator declared although the catalog prices it.
MCPricedExtra == <<[id |-> paid, kind |-> "declared"]>>

\* A plain frequency limit, and a "reset at" hours away.
MCRefusals ==
    {[retryAfter |-> 0, resetIn |-> t, exhausted |-> FALSE] :
        t \in {0, CooldownResetMax + 1}}
=============================================================================
