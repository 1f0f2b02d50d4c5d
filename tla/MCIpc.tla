-------------------------------- MODULE MCIpc --------------------------------
EXTENDS IpcProps

=============================================================================
