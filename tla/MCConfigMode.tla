----------------------------- MODULE MCConfigMode -----------------------------
(* Config mode with what its users may do together. *)
EXTENDS ConfigMode

SomeUses ==
  {{"button_boot", "click"}, {"hold", "light"}, {"click", "provision"},
   {"hold", "provision"}, {"debug", "hold", "request"}, {"access_point", "click", "request"},
   {"upgrade", "reset", "sleep", "live_view", "access_point", "tcp_test"}}
=============================================================================
