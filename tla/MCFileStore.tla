---------------------------- MODULE MCFileStore -----------------------------
(* FileStore with the two files of main.c and the file objects of the build. *)
EXTENDS FileStore

MCTypes == {"gas", "opc"}
MCMaxFiles == 4
MCThree == [t \in MCTypes |-> 3]
=============================================================================
