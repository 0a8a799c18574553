---- MODULE MCClientSync ----
EXTENDS ClientSync
CONSTANT none

Talk == <<"chat", "note", "chat", "chat", "chat", "chat">>
====
