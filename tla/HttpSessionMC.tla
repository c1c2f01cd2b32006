--------------------------- MODULE HttpSessionMC ---------------------------
(* The instance of HttpSession that TLC checks. *)
EXTENDS HttpSession
=============================================================================
