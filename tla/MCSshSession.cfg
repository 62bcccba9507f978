SPECIFICATION SshSpec
CONSTANTS
    ann = ann
    bob = bob
    Name = {ann, bob}
    None = None
    SSH_INPUT_LINE_MAX = 2
    SSH_AUTH_TIMEOUT = 2
    SSH_IDLE_TIMEOUT = 2
    SSH_SESSION_MAX = 5
    SSH_EVENT_TICK = 1
    WORK = 1
    KEX = 1
INVARIANTS
    OneVerifiedApplication
    
    
    

    
