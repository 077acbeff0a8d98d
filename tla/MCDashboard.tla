------------------------------ MODULE MCDashboard ------------------------------
(* Dashboard for TLC: browsers west and east of South Africa and in it.    *)
EXTENDS Dashboard

AllZones == (-2)..2
===============================================================================
