-------------------------------- MODULE MCWeb --------------------------------
(***************************************************************************)
(* Model checking of the web client: the panels of one page at a time.     *)
(***************************************************************************)
EXTENDS WebClient

MCPages == {{p} : p \in AllPanels}
===============================================================================
