---------------------------- MODULE MCContracts -----------------------------
(* The instance of Contracts for TLC: two fields that any of four declarations *)
(* may describe, tightened or narrowed from one version to the next.          *)
EXTENDS Contracts, TLC

MCDeclarations ==
    { [type |-> "number",  bound |-> "none"],
      [type |-> "number",  bound |-> "exclusiveMinimum"],
      [type |-> "integer", bound |-> "minimum"],
      [type |-> "string",  bound |-> "none"] }

FieldSymmetry == Permutations(Fields)

=============================================================================
