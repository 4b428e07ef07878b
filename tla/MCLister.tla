------------------------------ MODULE MCLister ------------------------------
(***************************************************************************)
(* Instances of Lister for TLC.                                            *)
(***************************************************************************)
EXTENDS Lister

MCMain == <<"main">>
MCOverlay == <<"overlay">>

\* No physnet, one, two, one on two bridges, and a comma at the end.
MCSetting ==
  { <<>>,
    <<"phys1", ":", "br1">>,
    <<"phys1", ":", "br1", ",", "phys2", ":", "br2">>,
    <<"phys2", ":", "br1", ",", "phys2", ":", "br2">>,
    <<"phys2", ":", "br2", ",">> }

=============================================================================
