----------------------------- MODULE MCDispatch -----------------------------
(***************************************************************************)
(* Dispatch on small instances: two or three descriptors, two workers, up  *)
(* to three clients so that a descriptor is used again.                    *)
(***************************************************************************)
EXTENDS Dispatch
=============================================================================
