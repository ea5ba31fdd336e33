----------------------------- MODULE CheckedRead -----------------------------
(***************************************************************************)
(* The life of a core module in the driver and in the test harness: it is  *)
(* validated (CoreValidation), and then a context is created for it and    *)
(* data is read (BinaryRead).  The reader does not ask what the validation *)
(* has found.                                                              *)
(***************************************************************************)
EXTENDS BinaryReadReference, CoreTyping

VARIABLES
  at, phase, field, seen, initial, vitems, decls, locals, types, messages,
  formats      \* history: the items the validation gave the type Format

V == INSTANCE CoreValidation WITH
       items <- vitems, ReprOfValue <- ReprOf,
       SynthCore <- Synth, SynthCoreSort <- SynthSort, CheckCore <- Check

validation ==
  <<at, phase, field, seen, initial, vitems, decls, locals, types, messages>>

CheckedInit == Init /\ V!NewContext /\ formats = {}

Validate ==
  /\ phase # "done"
  /\ V!Next
  /\ formats' = {n \in DOMAIN decls : decls[n] = FormatType}
  /\ UNCHANGED vars

ReadValidated ==
  /\ phase = "done"
  /\ Next
  /\ UNCHANGED <<validation, formats>>

CheckedNext == Validate \/ ReadValidated

CheckedSpec == CheckedInit /\ [][CheckedNext]_<<vars, validation, formats>>

-----------------------------------------------------------------------------
\* The array length that read_format rejects: a negative number, or one that
\* does not fit in a usize.
BadLength(format) ==
  /\ IsGlobal(format, "FormatArray", 2)
  /\ IsInt(format.elims[1].arg)
  /\ format.elims[1].arg.prim.val \notin Usize

\* Soundness of the type system for the interpreter: in a module that was
\* validated without messages, reading an item of type Format never meets a
\* broken description and never panics on one.  What remains are the lengths
\* that only the data decides, and the overflow of the root offset.
TypedReadsAreValid ==
  (phase = "done" /\ messages = <<>> /\ name \in formats) =>
    /\ (pc = "ready" /\ result = Err(InvalidDataDescription)) => BadLength(arg)
    /\ pc = "panicked" =>
         pending # <<>> /\ OffsetOverflows(rootScope, Head(pending).pos)

-----------------------------------------------------------------------------
\* A value that mentions the Error sentinel outside suspended branches.
RECURSIVE HasError(_)
HasError(value) ==
  CASE value.tag = "error" -> TRUE
    [] value.tag = "fun" -> HasError(value.param) \/ HasError(value.body)
    [] value.tag = "struct" ->
         \E l \in DOMAIN value.fields : HasError(value.fields[l])
    [] value.tag = "array" ->
         \E i \in DOMAIN value.elems : HasError(value.elems[i])
    [] value.tag = "stuck" ->
         \E i \in DOMAIN value.elims :
           value.elims[i].e = "app" /\ HasError(value.elims[i].arg)
    [] OTHER -> FALSE

\* A value with an elimination of the given kind in one of its spines.
RECURSIVE Mentions(_, _)
Mentions(value, kind) ==
  CASE value.tag = "fun" -> Mentions(value.param, kind) \/ Mentions(value.body, kind)
    [] value.tag = "struct" ->
         \E l \in DOMAIN value.fields : Mentions(value.fields[l], kind)
    [] value.tag = "array" ->
         \E i \in DOMAIN value.elems : Mentions(value.elems[i], kind)
    [] value.tag = "stuck" ->
         \E i \in DOMAIN value.elims :
           \/ value.elims[i].e = kind
           \/ value.elims[i].e = "app" /\ Mentions(value.elims[i].arg, kind)
    [] OTHER -> FALSE

Suspended(value) == Mentions(value, "if") \/ Mentions(value, "match")
Projected(value) == Mentions(value, "proj")

\* While is_module runs.
Validating == pc = "load"

\* The types the checker holds: of locals and of items.
Held == {types[i] : i \in DOMAIN types} \cup {decls[n] : n \in DOMAIN decls}

-----------------------------------------------------------------------------
(* What validation relies on, while it runs (CoreValidation). *)

\* Well-typed programs do not go wrong: while is_module has reported nothing,
\* evaluation has produced the Error sentinel nowhere, neither in the type of
\* a local or an item nor in the value of a constant.
NoErrorsUnreported ==
  (Validating /\ messages = <<>>) =>
    /\ \A type \in Held : ~HasError(type)
    /\ \A n \in DOMAIN vitems :
         vitems[n].kind = "constant" => ~HasError(vitems[n].value)

\* The type of a local is kept as a value while the context grows, and read
\* back when a message shows it: it must still be the same type there.  This
\* holds of types without suspended branches and without stuck projections.
TypesSurviveReadBack ==
  Validating =>
    \A type \in Held :
      (~Suspended(type) /\ ~Projected(type)) =>
        IsEqual(vitems, type,
                Eval(vitems, locals, ReadBack(vitems, Len(locals), type)))

\* Levels do not depend on the context (so says the documentation of
\* LocalLevel), so the previous property would hold of suspended branches too.
\* It does not: read_back_neutral normalizes the branches at the size of the
\* environment they captured, and their indices point elsewhere in a larger
\* one.
SuspendedTypesSurviveReadBack ==
  \A type \in Held :
    (messages = <<>> /\ ~Projected(type)) =>
      IsEqual(vitems, type,
              Eval(vitems, locals, ReadBack(vitems, Len(locals), type)))

\* "Check that one Value is computationally equal to another": is_equal is
\* reflexive on the types of a module that is_module has accepted so far.  It is
\* not on stuck projections: is_equal_spine has no arm for two struct eliminations.
EqualityIsReflexive ==
  messages = <<>> => \A type \in Held : IsEqual(vitems, type, type)

\* Equality of the types the checker compares is an equivalence that is finer
\* than nothing but the Error sentinel: without errors, stuck projections and
\* suspended branches, two types are equal exactly when they have the same
\* normal form.
EqualityIsOfNormalForms ==
  Validating =>
    \A t0, t1 \in {t \in Held : ~HasError(t) /\ ~Projected(t) /\ ~Suspended(t)} :
      IsEqual(vitems, t0, t1) <=>
        ReadBack(vitems, Len(locals), t0) = ReadBack(vitems, Len(locals), t1)

\* Subject reduction: the normal form of a constant still checks against the
\* type that was synthesized for the constant.
NormalFormsCheck ==
  (Validating /\ messages = <<>>) =>
    \A n \in DOMAIN vitems :
      vitems[n].kind = "constant" =>
        Check(V!Context, ReadBack(vitems, Len(locals), vitems[n].value), decls[n]) = <<>>

=============================================================================
