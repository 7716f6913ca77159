---------------------------- MODULE MCDoorSystem ----------------------------
EXTENDS DoorSystem
MCFindBottomLowering == -1
=============================================================================
