---------------------------- MODULE MCSupervisor ----------------------------
EXTENDS Supervisor
MCExits == {<<"Failed", "OnFailure">>, <<"Completed", "OnFailure">>}
=============================================================================
