---------------------------- MODULE TelnetSession ----------------------------
(***************************************************************************)
(* One Telnet session of src/src/telnet_protocol.c: framing, line input,   *)
(* the login dialogue, and the application the player is handed to.        *)
(*                                                                         *)
(* A step is one byte of telnet_session_feed_at, or one call of            *)
(* telnet_session_poll or telnet_session_destroy by the owning worker.     *)
(* Bytes are classes.  Of a line only its length is kept: what it says (a  *)
(* name, the right password) is chosen when it is complete, and so are the *)
(* answers of the account store, the policy, the rate windows and the      *)
(* application.  Options and terminal capabilities are not modelled here.  *)
(***************************************************************************)
EXTENDS Naturals, Sequences

CONSTANTS
    Name, None,
    APPLICATION_LINE_MAX, PLAYER_PASSWORD_MIN, PLAYER_PASSWORD_MAX,
    SUBNEGOTIATION_MAX_BYTES, PROTOCOL_VIOLATION_LIMIT, PENDING_GMCP_CORE_MAX,
    MaxGmcp             \* bound: GMCP Core messages sent by the client

ASSUME SessionAssumption ==
    /\ None \notin Name
    /\ {APPLICATION_LINE_MAX, PLAYER_PASSWORD_MIN, PLAYER_PASSWORD_MAX,
        SUBNEGOTIATION_MAX_BYTES, PENDING_GMCP_CORE_MAX, MaxGmcp} \subseteq Nat
    /\ PROTOCOL_VIOLATION_LIMIT \in Nat \ {0}

\* WILL stands for the four option commands, IP also for BRK, NOP for every
\* command without effect.
Byte == {"text", "CR", "LF", "NUL", "erase", "control",
         "IAC", "WILL", "SB", "SE", "IP", "AYT", "EC", "EL", "NOP"}

PasswordStates == {"LOGIN_PASSWORD", "LOGIN_NEW_PASSWORD", "LOGIN_CONFIRM_PASSWORD"}
LoginStates == {"LOGIN_NAME", "LOGIN_IN_GAME"} \cup PasswordStates

VARIABLES
    has_application,    \* whether the session was created with an application
    session,            \* "created", "started" or "destroyed"
    login, player_name,
    pending_password,   \* whether a prepared password is held
    echo_desired,
    line_length, line_overflow, pending_cr,
    parser, subnegotiation_option, subnegotiation_length, protocol_violations,
    gmcp,               \* whether the GMCP option is on
    pending_gmcp_core,  \* the queue of early GMCP messages
    application,        \* "none", "open" or "closed"
    close_requested,
    proved,             \* history: the account whose password was shown
    early, received,    \* history: GMCP Core messages before login, and in all
    delivered           \* history: those the application has seen

dialogue == <<login, player_name, pending_password, echo_desired, proved>>
input == <<line_length, line_overflow, pending_cr>>
framing == <<parser, subnegotiation_option, subnegotiation_length, protocol_violations>>
seam == <<application, pending_gmcp_core, early, received, delivered>>
session_vars == <<has_application, session, dialogue, input, framing, gmcp, seam, close_requested>>

SessionInit ==
    /\ has_application \in BOOLEAN /\ session = "created"
    /\ login = "LOGIN_NAME" /\ player_name = None /\ pending_password = FALSE
    /\ echo_desired = FALSE /\ proved = None
    /\ line_length = 0 /\ line_overflow = FALSE /\ pending_cr = FALSE
    /\ parser = "DATA" /\ subnegotiation_option = "other"
    /\ subnegotiation_length = 0 /\ protocol_violations = 0
    /\ gmcp = FALSE /\ application = "none" /\ pending_gmcp_core = <<>>
    /\ early = 0 /\ received = 0 /\ delivered = <<>>
    /\ close_requested = FALSE

start ==
    /\ session = "created"
    /\ session' = "started"
    /\ UNCHANGED <<dialogue, input, framing, gmcp, seam, close_requested>>

-----------------------------------------------------------------------------
(* The login dialogue: what a complete line does in each state.  Erasing   *)
(* the line is left to process_complete_line.                              *)

request_close == close_requested' = TRUE

\* A hook of the application may call output.request_close before it returns.
hook == close_requested' \in BOOLEAN

Stay == UNCHANGED dialogue

password_echo_off == echo_desired' = TRUE

password_echo_on == echo_desired' = FALSE

\* (mutant) a failed creation leaves the client's echo off
StartOver_without_echo ==
    /\ login' = "LOGIN_NAME" /\ player_name' = None /\ pending_password' = FALSE
    /\ UNCHANGED <<echo_desired, proved>>

\* Back to the name prompt: the name is forgotten and echo restored.
StartOver ==
    /\ login' = "LOGIN_NAME" /\ player_name' = None /\ pending_password' = FALSE
    /\ password_echo_on /\ UNCHANGED proved

\* (mutant) the queue is emptied before it is replayed
replay_after_reset == delivered' = delivered

replay_pre_auth_gmcp_core == delivered' = delivered \o pending_gmcp_core

\* The application is opened with the verified name.  If it declines, the
\* session closes; if it accepts, it gets the early GMCP messages first.
enter_game ==
    /\ login' = "LOGIN_IN_GAME" /\ UNCHANGED player_name
    /\ pending_password' = FALSE /\ password_echo_on
    /\ \/ ~has_application /\ UNCHANGED <<seam, close_requested>>
       \/ has_application /\ request_close /\ UNCHANGED seam
       \/ /\ has_application /\ hook
          /\ application' = "open"
          /\ replay_pre_auth_gmcp_core /\ pending_gmcp_core' = <<>>
          /\ UNCHANGED <<early, received>>

\* An unusable name or an unreadable record asks again.
process_player_name ==
    /\ \/ Stay
       \/ player_name' = None
          /\ UNCHANGED <<login, pending_password, echo_desired, proved>>
       \/ /\ line_length > 0 /\ player_name' \in Name
          /\ login' \in {"LOGIN_PASSWORD", "LOGIN_NEW_PASSWORD"}
          /\ password_echo_off /\ UNCHANGED <<pending_password, proved>>
    /\ UNCHANGED <<seam, close_requested>>

\* Throttled, verified, refused, or refused and locked out.
process_existing_password ==
    \/ Stay /\ UNCHANGED <<seam, close_requested>>
    \/ proved' = player_name /\ enter_game
    \/ Stay /\ request_close /\ UNCHANGED seam

process_new_password ==
    /\ \/ Stay
       \/ line_length >= PLAYER_PASSWORD_MIN /\ StartOver
       \/ /\ line_length >= PLAYER_PASSWORD_MIN
          /\ login' = "LOGIN_CONFIRM_PASSWORD" /\ pending_password' = TRUE
          /\ UNCHANGED <<player_name, echo_desired, proved>>
    /\ UNCHANGED <<seam, close_requested>>

AskNewPassword ==
    /\ login' = "LOGIN_NEW_PASSWORD" /\ pending_password' = FALSE
    /\ UNCHANGED <<player_name, echo_desired, proved>>

\* (mutant) an account that exists already counts as created
process_password_confirmation_exists ==
    \/ AskNewPassword /\ UNCHANGED <<seam, close_requested>>
    \/ /\ line_length >= PLAYER_PASSWORD_MIN
       /\ StartOver /\ UNCHANGED <<seam, close_requested>>
    \/ line_length >= PLAYER_PASSWORD_MIN /\ proved' = player_name /\ enter_game
    \/ UNCHANGED proved /\ enter_game

\* No match, limited or not created, or created.
process_password_confirmation ==
    \/ AskNewPassword /\ UNCHANGED <<seam, close_requested>>
    \/ /\ line_length >= PLAYER_PASSWORD_MIN
       /\ StartOver /\ UNCHANGED <<seam, close_requested>>
    \/ line_length >= PLAYER_PASSWORD_MIN /\ proved' = player_name /\ enter_game

\* A command flood and QUIT close; so may the application's line hook.
process_command ==
    /\ close_requested' \in BOOLEAN
    /\ UNCHANGED <<dialogue, seam>>

too_long ==
    \/ /\ login = "LOGIN_PASSWORD" /\ Stay /\ UNCHANGED close_requested
    \/ /\ login \in {"LOGIN_NEW_PASSWORD", "LOGIN_CONFIRM_PASSWORD"}
       /\ AskNewPassword /\ UNCHANGED close_requested
    \/ /\ login \notin PasswordStates /\ Stay
       /\ close_requested' = (application = "open")

\* The line is erased whatever it was, so no password outlives its line.
process_complete_line ==
    /\ line_length' = 0 /\ pending_cr' = FALSE
    /\ \/ /\ request_close /\ UNCHANGED <<line_overflow, dialogue, seam>>
       \/ /\ line_overflow /\ too_long
          /\ line_overflow' = FALSE /\ UNCHANGED seam
       \/ /\ ~line_overflow /\ UNCHANGED line_overflow
          /\ \/ login = "LOGIN_NAME" /\ process_player_name
             \/ login = "LOGIN_PASSWORD" /\ process_existing_password
             \/ login = "LOGIN_NEW_PASSWORD" /\ process_new_password
             \/ login = "LOGIN_CONFIRM_PASSWORD" /\ process_password_confirmation
             \/ login = "LOGIN_IN_GAME" /\ process_command

-----------------------------------------------------------------------------
(* Line input.                                                             *)

Limit == IF login \in PasswordStates THEN PLAYER_PASSWORD_MAX ELSE APPLICATION_LINE_MAX

Shorten(n) == IF n > 0 THEN n - 1 ELSE 0

\* Control characters, carriage returns included, are dropped.
append_line_byte(byte) ==
    \/ /\ byte = "erase"
       /\ line_length' = Shorten(line_length) /\ UNCHANGED line_overflow
    \/ byte = "control" /\ UNCHANGED <<line_length, line_overflow>>
    \/ /\ byte \notin {"erase", "control"}
       /\ IF line_length >= Limit
          THEN line_overflow' = TRUE /\ UNCHANGED line_length
          ELSE line_length' = line_length + 1 /\ UNCHANGED line_overflow

\* A pending CR that is not followed by LF is appended, that is, dropped.
receive_data_byte(byte) ==
    \/ byte = "LF" /\ process_complete_line
    \/ /\ byte \in {"CR", "NUL"}
       /\ pending_cr' = (byte = "CR")
       /\ UNCHANGED <<line_length, line_overflow, dialogue, seam, close_requested>>
    \/ /\ byte \notin {"LF", "CR", "NUL"}
       /\ append_line_byte(byte) /\ pending_cr' = FALSE
       /\ UNCHANGED <<dialogue, seam, close_requested>>

clear_current_input ==
    /\ line_length' = 0 /\ line_overflow' = FALSE /\ pending_cr' = FALSE

interrupt_current_input ==
    /\ clear_current_input
    /\ IF login = "LOGIN_CONFIRM_PASSWORD" THEN AskNewPassword ELSE Stay

-----------------------------------------------------------------------------
(* Framing.                                                                *)

note_protocol_violation ==
    /\ protocol_violations' = protocol_violations + 1
    /\ close_requested' = (protocol_violations' >= PROTOCOL_VIOLATION_LIMIT)

\* AYT only answers; other commands do nothing.
handle_control_command(byte) ==
    \/ /\ byte = "IP" /\ interrupt_current_input
       /\ UNCHANGED <<protocol_violations, close_requested>>
    \/ /\ byte = "EC"
       /\ line_length' = Shorten(line_length)
       /\ UNCHANGED <<line_overflow, pending_cr, dialogue, protocol_violations,
                      close_requested>>
    \/ /\ byte = "EL" /\ clear_current_input
       /\ UNCHANGED <<dialogue, protocol_violations, close_requested>>
    \/ byte = "SE" /\ note_protocol_violation /\ UNCHANGED <<input, dialogue>>
    \/ /\ byte \notin {"IP", "EC", "EL", "SE"}
       /\ UNCHANGED <<input, dialogue, protocol_violations, close_requested>>

\* Any option may go on or off; an open application is told.
receive_telnet_option ==
    /\ gmcp' \in BOOLEAN
    /\ IF application = "open" THEN hook ELSE UNCHANGED close_requested

queue_pre_auth_gmcp_core ==
    pending_gmcp_core' = IF Len(pending_gmcp_core) < PENDING_GMCP_CORE_MAX
                         THEN Append(pending_gmcp_core, received')
                         ELSE pending_gmcp_core

\* A Core handshake message; others are dropped before the application opens
\* and are not followed here.
handle_gmcp ==
    /\ gmcp /\ subnegotiation_length > 0
    /\ received < MaxGmcp /\ received' = received + 1
    /\ \/ /\ application = "open" /\ hook
          /\ delivered' = Append(delivered, received')
          /\ UNCHANGED <<pending_gmcp_core, early>>
       \/ /\ application # "open" /\ has_application
          /\ queue_pre_auth_gmcp_core /\ early' = early + 1
          /\ UNCHANGED <<delivered, close_requested>>
    /\ UNCHANGED application

\* The other subnegotiations change terminal capabilities, of which an open
\* application may be told; a malformed one counts as a violation.
finish_subnegotiation ==
    /\ \/ /\ subnegotiation_option = "gmcp" /\ handle_gmcp
          /\ UNCHANGED protocol_violations
       \/ UNCHANGED <<seam, close_requested, protocol_violations>>
       \/ /\ subnegotiation_option = "other" /\ application = "open"
          /\ hook /\ UNCHANGED <<seam, protocol_violations>>
       \/ /\ subnegotiation_option = "other" /\ note_protocol_violation
          /\ UNCHANGED seam
    /\ subnegotiation_length' = 0

Collect ==
    IF subnegotiation_length >= SUBNEGOTIATION_MAX_BYTES
    THEN request_close /\ UNCHANGED <<parser, subnegotiation_length>>
    ELSE /\ subnegotiation_length' = subnegotiation_length + 1
         /\ parser' = "SB_DATA" /\ UNCHANGED close_requested

parser_data(byte) ==
    /\ parser = "DATA"
    /\ \/ /\ byte = "IAC" /\ parser' = "IAC"
          /\ UNCHANGED <<input, dialogue, seam, close_requested>>
       \/ byte # "IAC" /\ receive_data_byte(byte) /\ UNCHANGED parser
    /\ UNCHANGED <<subnegotiation_option, subnegotiation_length, protocol_violations, gmcp>>

parser_iac(byte) ==
    /\ parser = "IAC"
    /\ \/ /\ byte = "IAC" /\ receive_data_byte("text")
          /\ parser' = "DATA" /\ UNCHANGED protocol_violations
       \/ /\ byte \in {"WILL", "SB"}
          /\ parser' = IF byte = "SB" THEN "SB_OPTION" ELSE "OPTION"
          /\ UNCHANGED <<input, dialogue, seam, protocol_violations, close_requested>>
       \/ /\ byte \notin {"IAC", "WILL", "SB"}
          /\ handle_control_command(byte)
          /\ parser' = "DATA" /\ UNCHANGED seam
    /\ UNCHANGED <<subnegotiation_option, subnegotiation_length, gmcp>>

parser_option ==
    /\ parser = "OPTION"
    /\ receive_telnet_option /\ parser' = "DATA"
    /\ UNCHANGED <<input, dialogue, seam, subnegotiation_option,
                   subnegotiation_length, protocol_violations>>

parser_sb_option ==
    /\ parser = "SB_OPTION"
    /\ subnegotiation_option' \in {"gmcp", "other"}
    /\ subnegotiation_length' = 0 /\ parser' = "SB_DATA"
    /\ UNCHANGED <<input, dialogue, seam, protocol_violations, gmcp, close_requested>>

parser_sb_data(byte) ==
    /\ parser = "SB_DATA"
    /\ \/ /\ byte = "IAC" /\ parser' = "SB_IAC"
          /\ UNCHANGED <<subnegotiation_length, close_requested>>
       \/ byte # "IAC" /\ Collect
    /\ UNCHANGED <<input, dialogue, seam, subnegotiation_option, protocol_violations, gmcp>>

parser_sb_iac(byte) ==
    /\ parser = "SB_IAC"
    /\ \/ byte = "SE" /\ finish_subnegotiation /\ parser' = "DATA"
       \/ byte = "IAC" /\ Collect /\ UNCHANGED <<seam, protocol_violations>>
       \/ /\ byte \notin {"SE", "IAC"} /\ note_protocol_violation
          /\ parser' = "SB_DATA" /\ UNCHANGED <<seam, subnegotiation_length>>
    /\ UNCHANGED <<input, dialogue, subnegotiation_option, gmcp>>

-----------------------------------------------------------------------------
(* The worker's calls.                                                     *)

feed(byte) ==
    /\ session = "started" /\ ~close_requested
    /\ \/ parser_data(byte) \/ parser_iac(byte) \/ parser_option
       \/ parser_sb_option \/ parser_sb_data(byte) \/ parser_sb_iac(byte)
    /\ UNCHANGED session

\* A byte flood closes the session before any byte of the block is looked at.
byte_flood ==
    /\ session = "started" /\ ~close_requested /\ request_close
    /\ UNCHANGED <<session, dialogue, input, framing, gmcp, seam>>

poll ==
    /\ session = "started" /\ ~close_requested /\ application = "open"
    /\ hook
    /\ UNCHANGED <<session, dialogue, input, framing, gmcp, seam>>

\* The worker destroys the session when it should close, on a timeout, a
\* transport error, or a stop.
destroy ==
    /\ session = "started"
    /\ session' = "destroyed" /\ pending_password' = FALSE
    /\ application' = IF application = "open" THEN "closed" ELSE application
    /\ UNCHANGED <<login, player_name, echo_desired, proved, input, framing, gmcp,
                   pending_gmcp_core, early, received, delivered, close_requested>>

SessionNext ==
    /\ start \/ (\E byte \in Byte : feed(byte)) \/ byte_flood \/ poll \/ destroy
    /\ UNCHANGED has_application

SessionSpec == SessionInit /\ [][SessionNext]_session_vars

-----------------------------------------------------------------------------
\* Every variable has its type.
SessionTypeOK ==
    /\ has_application \in BOOLEAN /\ session \in {"created", "started", "destroyed"}
    /\ login \in LoginStates /\ player_name \in Name \cup {None}
    /\ proved \in Name \cup {None}
    /\ pending_password \in BOOLEAN /\ echo_desired \in BOOLEAN
    /\ line_length \in Nat /\ line_overflow \in BOOLEAN /\ pending_cr \in BOOLEAN
    /\ parser \in {"DATA", "IAC", "OPTION", "SB_OPTION", "SB_DATA", "SB_IAC"}
    /\ subnegotiation_option \in {"gmcp", "other"}
    /\ subnegotiation_length \in Nat
    /\ protocol_violations \in Nat /\ gmcp \in BOOLEAN
    /\ application \in {"none", "open", "closed"} /\ close_requested \in BOOLEAN
    /\ pending_gmcp_core \in Seq(Nat) /\ delivered \in Seq(Nat)
    /\ early \in Nat /\ received \in Nat

\* "State is bounded": a line fits the limit of the state it is typed in, also
\* when that state changes, the subnegotiation buffer is never overrun, and
\* the session does not go on past the limit of protocol violations.
StateBounded ==
    /\ line_length <= Limit
    /\ subnegotiation_length <= SUBNEGOTIATION_MAX_BYTES
    /\ Len(pending_gmcp_core) <= PENDING_GMCP_CORE_MAX
    /\ protocol_violations <= PROTOCOL_VIOLATION_LIMIT
    /\ protocol_violations = PROTOCOL_VIOLATION_LIMIT => close_requested

\* The server hides what is typed exactly while it asks for a password, on
\* every way into and out of the password prompts.
EchoMatchesLogin == echo_desired <=> login \in PasswordStates

\* A prepared password is held exactly while its confirmation is awaited.
TokenWhileConfirming ==
    session = "started" => (pending_password <=> login = "LOGIN_CONFIRM_PASSWORD")

\* Whoever is in the game, and with whom the application talks, has shown the
\* password of the name they play under, or has just created it.
InGameVerified ==
    login = "LOGIN_IN_GAME" \/ application = "open" =>
        player_name # None /\ proved = player_name

\* "keep a tiny bounded queue rather than silently throwing that early client
\* handshake away": an open application has seen the first early messages,
\* then every later one, in order and once each.
EarlyGmcpKept ==
    LET kept == IF early < PENDING_GMCP_CORE_MAX THEN early ELSE PENDING_GMCP_CORE_MAX
    IN  application = "open" =>
            delivered = [i \in 1 .. kept + (received - early) |->
                            IF i <= kept THEN i ELSE early + (i - kept)]
=============================================================================
