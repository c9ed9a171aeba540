----------------------------- MODULE MCAudioDaemon -----------------------------
EXTENDS AudioDaemon

CONSTANTS c1, c2, a1

SomeLeftovers == {-100000000}

SomeRequests ==
    {Get("sampleVariableA"), Get(None), Set("sampleVariableA", None)}
===============================================================================
