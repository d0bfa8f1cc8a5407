--------------------------- MODULE MCAddressSpace ---------------------------
(* Model checking instance of AddressSpace: a guard page, then host pages    *)
(* that hold two guest pages each.                                           *)
EXTENDS AddressSpace

MCHostOf == [p \in Pages |-> (p + 1) \div 2]
MCHostPages == {(p + 1) \div 2 : p \in Pages}
MCGuard == {0}
MCProtections == {{}, {"r", "w"}, {"r", "w", "x"}}
MCSnapshots ==
  {[mapped |-> {1, 2}, prot |-> [p \in Pages |-> IF p \in {1, 2} THEN {"r", "w"} ELSE {}]]}
=============================================================================
