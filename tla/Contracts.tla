----------------------------- MODULE Contracts ------------------------------
(***************************************************************************)
(* The compatibility rules of contracts/registry.py: compare diffs the     *)
(* payload of two contract versions, field by field, and classifies what   *)
(* the changes break.  They are checked against what a validating reader   *)
(* of one version does with the data of another.  Versions are any the     *)
(* team may write; once released they stay, since bronze keeps the data.   *)
(***************************************************************************)
EXTENDS Integers, Sequences, FiniteSets

CONSTANTS
    Fields,             \* names a payload may have
    Declarations,       \* what a contract may say of a field
    MaxVersions         \* bound on the number of versions

\* The types and the bounds (minimum 0, exclusiveMinimum 0) that occur in the contracts,
\* and a value of each class that these tell apart.
Types == {"number", "integer", "string"}
Bounds == {"none", "minimum", "exclusiveMinimum"}
Values == {"negative", "zero", "positive", "fraction", "text"}

ASSUME ContractsAssumption ==
    /\ Declarations \subseteq [type : Types, bound : Bounds]
    /\ MaxVersions \in Nat

VARIABLE versions       \* the released contracts, oldest first

-----------------------------------------------------------------------------
(* A contract and its validator *)

\* properties and required of the payload (_cycle_payload_props).
Schemas ==
    UNION {[props : [D -> Declarations], required : SUBSET D] : D \in SUBSET Fields}

\* The type keyword of JSON Schema: an integer is a number too.
HasType(value, type) ==
    CASE type = "integer" -> value \in {"negative", "zero", "positive"}
      [] type = "number"  -> value # "text"
      [] type = "string"  -> value = "text"

\* The range keywords: they do not apply to a text.
Within(value, bound) ==
    CASE bound = "none"             -> TRUE
      [] bound = "minimum"          -> value # "negative"
      [] bound = "exclusiveMinimum" -> value \notin {"negative", "zero"}

Conforms(value, declaration) ==
    HasType(value, declaration.type) /\ Within(value, declaration.bound)

\* validate without errors: keys the schema does not know are allowed in a payload.
Accepts(schema, doc) ==
    /\ schema.required \subseteq DOMAIN doc
    /\ \A f \in DOMAIN doc \cap DOMAIN schema.props : Conforms(doc[f], schema.props[f])

\* What a producer on this version sends: fields the version declares, and valid.
Written(schema) ==
    {doc \in UNION {[D -> Values] : D \in SUBSET DOMAIN schema.props} : Accepts(schema, doc)}

CanRead(reader, writer) == \A doc \in Written(writer) : Accepts(reader, doc)

-----------------------------------------------------------------------------
(* compare *)

Added(old, new) == DOMAIN new.props \ DOMAIN old.props
Removed(old, new) == DOMAIN old.props \ DOMAIN new.props
Common(old, new) == DOMAIN old.props \cap DOMAIN new.props
Retyped(old, new) ==
    {f \in Common(old, new) : old.props[f].type # new.props[f].type}

\* Mutants of the changes that break a direction: an added field is judged by the
\* old required list, a removed one by the new list, and any addition breaks.
AddedByOldList(old, new) ==
    (Added(old, new) \cap old.required) \cup Retyped(old, new)
AnyAddition(old, new) == Added(old, new) \cup Retyped(old, new)
RemovedByNewList(old, new) ==
    (Removed(old, new) \cap new.required) \cup Retyped(old, new)

\* breaks_backward: added as required, or of another type; narrowed or was != now
\* is true of every change of type.
BreaksBackward(old, new) ==
    (Added(old, new) \cap new.required) \cup Retyped(old, new)

\* breaks_forward: removed though required, or of another type.
BreaksForward(old, new) ==
    (Removed(old, new) \cap old.required) \cup Retyped(old, new)

Compatibility(old, new) ==
    LET fwd == BreaksForward(old, new) # {}
        bwd == BreaksBackward(old, new) # {}
    IN CASE ~fwd /\ ~bwd -> "full" [] fwd /\ bwd -> "none"
         [] fwd /\ ~bwd -> "backward" [] ~fwd /\ bwd -> "forward"

-----------------------------------------------------------------------------
\* The team writes the next version; nothing checks it against the last.
Release == Len(versions) < MaxVersions /\ \E s \in Schemas : versions' = Append(versions, s)

Init == versions = <<>>
Next == Release
Spec == Init /\ [][Next]_versions

-----------------------------------------------------------------------------
\* What compare does not look at: the fields of both versions of which the reader asks
\* more than the writer under the same type, by a bound or by its required list.
Overlooked(reader, writer) ==
    {f \in Common(reader, writer) :
        /\ reader.props[f].type = writer.props[f].type
        /\ \/ f \in reader.required \ writer.required
           \/ \E v \in Values : /\ Conforms(v, writer.props[f])
                                /\ ~Conforms(v, reader.props[f])}

\* A verdict promises nothing the validators do not keep (registry.py:45-50), but for what
\* compare overlooks: after backward or full a consumer on the new version accepts all
\* data of the old one, after forward or full one on the old version accepts the new.
VerdictIsSound ==
    \A i, j \in DOMAIN versions :
        LET old == versions[i]  new == versions[j]
        IN i < j =>
             /\ Compatibility(old, new) \in {"full", "backward"} /\ Overlooked(new, old) = {}
                  => CanRead(new, old)
             /\ Compatibility(old, new) \in {"full", "forward"} /\ Overlooked(old, new) = {}
                  => CanRead(old, new)

\* Without a change of type the verdict is exact as well: it names no break that no
\* document shows, so an added optional field costs nothing and a rename both ways. And
\* each thing it overlooks is a break: no smaller exception makes VerdictIsSound true.
VerdictIsExact ==
    \A i, j \in DOMAIN versions :
        LET old == versions[i]  new == versions[j]
        IN (i < j /\ Retyped(old, new) = {}) =>
             /\ CanRead(new, old) => /\ Compatibility(old, new) \in {"full", "backward"}
                                    /\ Overlooked(new, old) = {}
             /\ CanRead(old, new) => /\ Compatibility(old, new) \in {"full", "forward"}
                                    /\ Overlooked(old, new) = {}

\* A step of the versions that breaks nothing, in the verdict or overlooked by it.
FullStep(old, new) ==
    /\ Compatibility(old, new) = "full"
    /\ Overlooked(new, old) = {} /\ Overlooked(old, new) = {}

\* The report compares neighbours only (registry.py:215) and the lake keeps every
\* version: if each step is full and overlooks nothing, and no name that was dropped
\* comes back, then the first and the last read each other's data.
FullStepsCompose ==
    LET n == Len(versions)
        steps == 1..n - 1
    IN ( /\ n > 1
         /\ \A i \in steps : FullStep(versions[i], versions[i + 1])
         /\ \A i \in steps : \A f \in Removed(versions[i], versions[i + 1]) :
               \A j \in i + 1..n : f \notin DOMAIN versions[j].props )
       => CanRead(versions[n], versions[1]) /\ CanRead(versions[1], versions[n])

=============================================================================
