--------------------------------- MODULE Quota ---------------------------------
(***************************************************************************)
(* What a rate limiter promises one client: at most MaxRequests requests   *)
(* are granted in each window, and a new window starts with a full quota.  *)
(***************************************************************************)
EXTENDS Naturals
CONSTANT MaxRequests
VARIABLES win, granted

QuotaInit == win = 0 /\ granted = 0
Grant == granted < MaxRequests /\ granted' = granted + 1 /\ UNCHANGED win
Advance == win' = win + 1 /\ granted' = 0
QuotaSpec == QuotaInit /\ [][Grant \/ Advance]_<<win, granted>>
================================================================================
