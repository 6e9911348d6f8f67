------------------------------ MODULE MCNetHub ------------------------------
(* TLC instance of NetHub: one TCP connection; two UDP listeners of one     *)
(* port; three HTTP requests, enough for a result that comes late while a   *)
(* second request runs and a third is made; one SSH session.                *)
EXTENDS NetHub
=============================================================================
