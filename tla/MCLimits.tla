------------------------------- MODULE MCLimits --------------------------------
(***************************************************************************)
(* Model-checking instance of what limits guesses and requests.  The       *)
(* modules share no variable, so a behaviour of all of them is one         *)
(* behaviour of each: the run picks the module in focus and leaves the     *)
(* others alone, instead of multiplying their states.                      *)
(***************************************************************************)
EXTENDS RateWindow, LookupGate, PasswordGate, LoginLockout, AdminLogin

VARIABLE focus

Init ==
  /\ focus \in {"rate", "lookup", "password", "lockout", "admin"}
  /\ RateInit /\ LookInit /\ PasswordInit /\ LockoutInit /\ AdminInit

OnRate == focus = "rate" /\ RateNext
          /\ UNCHANGED <<lookVars, passwordVars, lockoutVars, adminVars>>
OnLookup == focus = "lookup" /\ LookNext
            /\ UNCHANGED <<rateVars, passwordVars, lockoutVars, adminVars>>
OnPassword == focus = "password" /\ PasswordNext
              /\ UNCHANGED <<rateVars, lookVars, lockoutVars, adminVars>>
OnLockout == focus = "lockout" /\ LockoutNext
             /\ UNCHANGED <<rateVars, lookVars, passwordVars, adminVars>>
OnAdmin == focus = "admin" /\ AdminNext
           /\ UNCHANGED <<rateVars, lookVars, passwordVars, lockoutVars>>

Next ==
  /\ UNCHANGED focus
  /\ OnRate \/ OnLookup \/ OnPassword \/ OnLockout \/ OnAdmin

Spec ==
  Init /\ [][Next]_<<focus, rateVars, lookVars, passwordVars, lockoutVars, adminVars>>

--------------------------------------------------------------------------------
(* A page view may come twice as often as an upload.                       *)
TheLimits == [r \in Routes |-> IF r = "pageView" THEN 2 ELSE 1]

(* The type invariants of the modules in one.                              *)
LimitsTypeOK ==
  RateTypeOK /\ LookTypeOK /\ PasswordTypeOK /\ LockoutTypeOK /\ AdminTypeOK
================================================================================
