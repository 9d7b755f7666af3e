---------------------------- MODULE MCAuthority ----------------------------
EXTENDS Authority

MCWants == {{"SEND", "RECV", "SPAWN"}, {"RECV", "ADMIN"}}

\* capabilities and messages; shared tables; tables beside registers; the host's operations
MCPrograms ==
    {[kinds |-> {"host_spawn", "spawn", "self", "send", "delegate"}, ops |-> 5, start |-> 0],
     [kinds |-> {"host_spawn", "spawn", "open", "use", "delegate", "global"}, ops |-> 5, start |-> 1],
     [kinds |-> {"host_spawn", "spawn", "open", "use", "registers"}, ops |-> 5, start |-> 0],
     [kinds |-> {"host_spawn", "grant", "host_send", "admin", "send", "registers"}, ops |-> 4, start |-> 1]}
=============================================================================
