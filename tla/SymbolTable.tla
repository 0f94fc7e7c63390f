---------------------------- MODULE SymbolTable ----------------------------
(* The symbol table of the transpiler (SymbolTable.h, SymbolTable.cpp).     *)
(*                                                                          *)
(* The program keeps a vector it only appends to, and asks it only whether  *)
(* SOME entry satisfies a predicate; neither the order nor the number of    *)
(* equal entries can be observed, so the table is the set of its entries.   *)
(* There are no scopes: an entry is never removed, and add is set union.     *)

\* One entry.
symbolDescription(id, typeName, isExpressType, isArrayType) ==
    [id |-> id, typeName |-> typeName,
     isExpressType |-> isExpressType, isArrayType |-> isArrayType]

Symbol(Name) == [id : Name, typeName : Name,
                 isExpressType : BOOLEAN, isArrayType : BOOLEAN]

\* Some declaration of this identifier, anywhere so far, had an EXPRESS type.
isExpressType(symbols, id) == \E s \in symbols : s.id = id /\ s.isExpressType

\* "args" is taken for the string array of main's parameter, declared or not.
isStringArrayType(symbols, id) ==
    \/ id = "args"
    \/ \E s \in symbols : s.id = id /\ s.isArrayType /\ s.typeName = "string"
=============================================================================
