------------------------ MODULE MCTelnetCapabilities ------------------------
(* Instance of ClientDiscovery with a narrow range of widths. *)
EXTENDS ClientDiscovery
=============================================================================
