---------------------------- MODULE MCWasmBridge ----------------------------
EXTENDS WasmBridge
=============================================================================
