------------------------- MODULE MCPlatformRuntime -------------------------
EXTENDS PlatformRuntime

CONSTANT k1

MCKey == {k1}
MCDebounces == {1}
MCRetryDelays == {1}

=============================================================================
