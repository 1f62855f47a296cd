---------------------------- MODULE PlanVariants ----------------------------
(***************************************************************************)
(* The optimizer variants a query is run under: the join methods the       *)
(* collectors turn off in the session, and those the feature rows say were *)
(* off, which is all a model learns of the session.                        *)
(***************************************************************************)

\* VARIANTS of the collectors.
Variants == {"default", "no_hashjoin", "no_mergejoin", "no_nestloop"}

\* The join methods that are off, each named by the variant that turns it off.
Off(v) == IF v = "default" THEN {} ELSE {v}

\* The join methods a variant's name says were off.
KnobState(variant) ==
    [enable_hashjoin  |-> IF variant = "no_hashjoin" THEN 0 ELSE 1,
     enable_mergejoin |-> IF variant = "no_mergejoin" THEN 0 ELSE 1,
     enable_nestloop  |-> IF variant = "no_nestloop" THEN 0 ELSE 1]
=============================================================================
