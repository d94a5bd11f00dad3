------------------------------- MODULE MCVec -------------------------------
(* Element types, and the operators of a program, as inputs of Vec. *)
EXTENDS Integers

T(name, sig, bytes, int) == [name |-> name, sig |-> sig, bytes |-> bytes, int |-> int]
Small == {T("char", "c", 1, TRUE), T("int", "i", 4, TRUE)}
UShort == {T("unsigned_short", "t", 2, TRUE)}
Floats == {T("float", "f", 4, FALSE), T("double", "d", 8, FALSE)}

Compares == {"&&", "||", "==", "!=", "<", ">", "<=", ">="}
Binaries == {"+", "-", "*", "/", "%", "<<", ">>", "&", "|", "^"}
Compounds == Binaries \ {"<<", ">>"}
Unaries == {"++", "+", "-", "~"}
=============================================================================
