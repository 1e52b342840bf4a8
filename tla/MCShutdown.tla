---- MODULE MCShutdown ----
EXTENDS Shutdown
====
