---- MODULE MCEventIndex ----
EXTENDS EventIndex
====
