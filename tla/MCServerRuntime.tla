--------------------------- MODULE MCServerRuntime ---------------------------
(* Three clients compete for two slots, one on each transport.  The second  *)
(* listener is the optional IPv6 one.                                       *)
EXTENDS ServerRuntime, TLC

CONSTANTS c1, c2, c3

MCConn == {c1, c2, c3}

MCTransport == (c1 :> "telnet") @@ (c2 :> "tls") @@ (c3 :> "ssh")

MCListeners ==
    <<[transport |-> "telnet", required |-> TRUE],
      [transport |-> "telnet", required |-> FALSE],
      [transport |-> "tls", required |-> TRUE],
      [transport |-> "ssh", required |-> TRUE]>>

=============================================================================
