------------------------------- MODULE TypeGraph -------------------------------
(***************************************************************************)
(* How a generated Go struct is written down: the structs it refers to, by *)
(* the form of the reference, which is what DeepCopyInto tells apart.      *)
(* Scalars, enums and slices of them hold no reference and are left out.   *)
(***************************************************************************)
EXTENDS Naturals

\* runtime.RawExtension, any JSON value: what the generator puts where it
\* cannot, or will not, generate a type.
Raw == "runtime.RawExtension"

\* A struct with references of the forms *T, []*T and map[string]*T.
Struct(pointers, slices, maps) == [ptr |-> pointers, slice |-> slices, map |-> maps]

Forms == {"ptr", "slice", "map"}

\* isPrimitiveType: four of the generators count a RawExtension as primitive,
\* so its copy keeps the bytes; the one for hcm has it copied by its own method.
RawIsPrimitive(pkg) == pkg # "hcm"

\* Mutant of SharesTarget: the elements of a slice are copied as pointers.
SharesTargetSlices(pkg, form, target) ==
    form \in {"slice", "map"} \/ (target = Raw /\ RawIsPrimitive(pkg))

\* What the code written by writeDeepCopyField leaves shared between a copy and
\* its original.  A pointer or a slice gets new structs, filled by their own
\* DeepCopyInto, unless they are primitive; a map gets new keys with the old
\* pointers.
SharesTarget(pkg, form, target) ==
    form = "map" \/ (target = Raw /\ RawIsPrimitive(pkg))
=============================================================================
