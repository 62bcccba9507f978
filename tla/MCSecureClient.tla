--------------------------- MODULE MCSecureClient ---------------------------
(* One connection of the development client, on which ECHO is requested by  *)
(* the server and accepted by the client, as in the login dialogue.  When   *)
(* the client is absent there are two more: on one, BINARY is requested by  *)
(* both ends and never accepted unasked by the client, so that refusals     *)
(* happen; on the other a foreign client says what it likes about ECHO.     *)
(* What the client writes on the screen is checked for texts made of the    *)
(* bytes at which the filters change their minds.                           *)
EXTENDS SecureClient, TerminalText

MCOption == {"ECHO", "BINARY", "FOREIGN ECHO"}

MCAccepts == {<<"client", "remote", "ECHO">>, <<"server", "remote", "BINARY">>}

MCEcho == {<<"server", "local", "ECHO">>, <<"server", "local", "FOREIGN ECHO">>}

\* What the dialogue of the client's connection requests is not repeated here.
MCRequests ==
    {<<"server", "local", "FOREIGN ECHO">>, <<"server", "remote", "BINARY">>,
     <<"client", "local", "BINARY">>}

MCForeign == {<<"client", "remote", "FOREIGN ECHO">>}

\* LF, ESC, A, DEL; the continuation bytes next to the limits of a leading
\* byte's range; those that end U+2028, U+202E, U+202F, U+2065, U+2066 and
\* U+2069; leading bytes of each length and bytes that never occur.
MCByte ==
    {10, 27, 65, 127, 128, 129, 143, 144, 159, 160, 165, 166, 168, 169, 174, 175, 191,
     193, 194, 224, 226, 237, 240, 244, 245, 255}

MCByte4 == {65, 128, 143, 144, 191, 194, 226, 240, 244}

MCTexts == UNION {[1 .. n -> MCByte] : n \in 0 .. 3} \cup [1 .. 4 -> MCByte4]

\* Both filters let through exactly the harmless characters of a text, also
\* when it does not fit the buffer or arrives in pieces (stated of the state
\* the client starts from, as no step changes what the filters compute).
TextFiltered == at = "start" => SanitizeRight /\ DisplayRight
=============================================================================
