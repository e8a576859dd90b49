------------------------------ MODULE MCProxyIpc ------------------------------
(***************************************************************************)
(* The model of ProxyIpc for TLC by itself.                                *)
(***************************************************************************)
EXTENDS ProxyIpc
===============================================================================
