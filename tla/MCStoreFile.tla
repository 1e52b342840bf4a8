---- MODULE MCStoreFile ----
EXTENDS StoreFile
====
