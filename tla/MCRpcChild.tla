------------------------------ MODULE MCRpcChild ------------------------------
(* Model values for RpcChild.                                              *)
EXTENDS RpcChild

CONSTANTS n1, n2

MCNested == {n1, n2}
MCOne    == {n1}
=============================================================================
