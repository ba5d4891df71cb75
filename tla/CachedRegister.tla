--------------------------- MODULE CachedRegister ---------------------------
(***************************************************************************)
(* What readers of a register that is answered from a cache may rely on.   *)
(* The register changes at any time.  The cache takes over all of it at    *)
(* one moment or nothing, so that what is read was true once, as a whole,  *)
(* and what is read later was true later.  A cache that is lost knows      *)
(* nothing until it is refreshed.                                          *)
(***************************************************************************)

CONSTANTS Values, Unknown

VARIABLES
  value,    \* what the register holds
  cached    \* what its readers are answered

registerVars == <<value, cached>>

RegisterInit == value \in Values /\ cached = Unknown

Change == value' \in Values /\ UNCHANGED cached

Refresh == cached' = value /\ UNCHANGED value

Forget == cached' = Unknown /\ UNCHANGED value

RegisterNext == Change \/ Refresh \/ Forget

RegisterSpec == RegisterInit /\ [][RegisterNext]_registerVars
=============================================================================
