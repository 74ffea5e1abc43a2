----------------------------- MODULE MCSystemLog ------------------------------
(* Two loggers, and two processes to handle what they log.                 *)
EXTENDS SystemLog

CONSTANTS u1, u2, h1, h2, h3

MCLoggers  == {u1, u2}
MCHandlers == {h1, h2}
MCProcs == MCLoggers \cup MCHandlers
MCSemas == {lockSema, blockSema}

\* For hup that is sent at any time: a third handler.
MCHandlers3 == {h1, h2, h3}
MCProcs3 == MCLoggers \cup MCHandlers3
=============================================================================
