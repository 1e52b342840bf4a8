---- MODULE MCClientRefresh ----
EXTENDS ClientRefresh
====
