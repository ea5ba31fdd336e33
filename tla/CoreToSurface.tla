---------------------------- MODULE CoreToSurface ----------------------------
(***************************************************************************)
(* Distillation of core modules into surface syntax:                       *)
(* fathom/src/pass/core_to_surface.rs.  `names` are the names of the       *)
(* locals in scope, oldest first.  What becomes of a term is a parameter;  *)
(* ElaborationReference has the recursion.                                 *)
(***************************************************************************)
EXTENDS SurfaceTerm

CONSTANT DistillTerm(_, _)     \* from_term, of (names, term)

\* The items.  The parameters of a struct are distilled before any of them has a name in
\* scope, a field with the names of the ones before it.
FromConstant(item) ==
  IF item.term.t = "ann"
    THEN SConstant(item.name, DistillTerm(<<>>, item.term.type), DistillTerm(<<>>, item.term.term))
    ELSE SConstant(item.name, NoType, DistillTerm(<<>>, item.term))

FromParams(params) ==
  [i \in DOMAIN params |->
     SDeclaration(NameOrder[params[i].label], DistillTerm(<<>>, params[i].type))]

FromFields(params, fields) ==
  LET all == [i \in DOMAIN params |-> NameOrder[params[i].label]]
               \o [i \in DOMAIN fields |-> NameOrder[fields[i].label]]
  IN  [i \in DOMAIN fields |->
         SDeclaration(NameOrder[fields[i].label],
                      DistillTerm(SubSeq(all, 1, Len(params) + i - 1), fields[i].type))]

FromStructType(item) ==
  SStruct(item.name, FromParams(item.params), STypeType, FromFields(item.params, item.fields))

FromStructFormat(item) ==
  SStruct(item.name, FromParams(item.params), SFormatType, FromFields(item.params, item.fields))

\* from_item
FromItem(item) ==
  CASE item.kind = "constant" -> FromConstant(item)
    [] item.kind = "struct_type" -> FromStructType(item)
    [] item.kind = "struct_format" -> FromStructFormat(item)

\* Mutant of FromModule: struct formats come back as struct types.
FromModuleTypes(module) ==
  [i \in DOMAIN module |->
     IF module[i].kind = "constant" THEN FromConstant(module[i]) ELSE FromStructType(module[i])]

\* from_module
FromModule(module) == [i \in DOMAIN module |-> FromItem(module[i])]

=============================================================================
