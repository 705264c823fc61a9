---- MODULE MCWorkerStartup ----
EXTENDS WorkerStartup
====
