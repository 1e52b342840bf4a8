---- MODULE MCOfflineQueue ----
EXTENDS OfflineQueue
ASSUME QueueAssumption == OfflineAssumption
====
