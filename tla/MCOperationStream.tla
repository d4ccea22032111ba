-------------------------- MODULE MCOperationStream --------------------------
(* One client that watches one operation.                                  *)
EXTENDS OperationStream
=============================================================================
