--------------------------- MODULE MCSimProcessor ---------------------------
(* SimProcessor for TLC: operations over two registers that depend on      *)
(* their own register, overwrite a result, take longer than their          *)
(* successors, or have no result.                                          *)
EXTENDS SimProcessor

ALU(first, second, result) ==
  [isLong |-> FALSE, src1 |-> first, src2 |-> second, dest |-> result]
ALU_LONG(first, second, result) ==
  [isLong |-> TRUE, src1 |-> first, src2 |-> second, dest |-> result]

MCOps ==
  {ALU(1, 2, 1), ALU(NoReg, NoReg, 1), ALU(2, 1, NoReg),
   ALU_LONG(2, NoReg, 1), ALU_LONG(NoReg, 1, 2)}
=============================================================================
