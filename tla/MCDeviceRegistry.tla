-------------------------- MODULE MCDeviceRegistry --------------------------
EXTENDS DeviceRegistry
=============================================================================
