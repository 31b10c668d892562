------------------------------- MODULE MCPadesSeal -------------------------------
(* PadesSeal for TLC: PDFs of the shapes the signer treats differently.         *)
EXTENDS PadesSeal

Base(top, packed, xref) ==
    <<[top |-> top, packed |-> packed, filter |-> IF xref = "stream" THEN "flate" ELSE "none",
       xref |-> xref, root |-> 1, slot |-> NoSlot, at |-> 0]>>

(* Catalog 1, page tree 2, page 3, form 4, xref 5, ObjStm 6, array 7, field 8, *)
(* inner node of the page tree 9.                                               *)
WithForm   == (1 :> Catalog(2, <<ByRef(4)>>, 0, FALSE)) @@ (2 :> Pages(<<3>>))
                 @@ (3 :> Page(<<Inline({8})>>)) @@ (4 :> Form(<<Inline({8})>>))
                 @@ (8 :> Field("theirs", 0))
Arrays     == (3 :> Page(<<ByRef(7)>>)) @@ (7 :> Array({8})) @@ WithForm
Nested     == (2 :> Pages(<<9>>)) @@ (9 :> Pages(<<3>>)) @@ Arrays
InlineForm == (1 :> Catalog(2, <<Inline({8})>>, 0, TRUE)) @@ Nested
FieldsRef  == (3 :> Page(<<>>)) @@ (4 :> Form(<<ByRef(7)>>)) @@ (7 :> Array({8})) @@ WithForm

Classic == {Base(InlineForm, NoObjects, "table"), Base(FieldsRef, NoObjects, "table")}
(* The form and the page in the file itself, the rest in the object stream.     *)
Only(objects, ids) == [k \in ids |-> objects[k]]
Packed  == {Base(Only(Nested, {3, 4}) @@ (5 :> Other) @@ (6 :> Other),
                 Only(Nested, {1, 2, 7, 8, 9}), "stream")}

(* The same after another tool has packed new versions of both.                 *)
Added   == (10 :> Field("added", 0)) @@ (4 :> Form(<<Inline({8, 10})>>)) @@ (3 :> Page(<<Inline({8, 10})>>))
Revised == {Append(pdf, EditRevision(pdf, Added, TRUE)) : pdf \in Packed}

(* One with a filter the parser does not know, that another tool has signed.    *)
Foreign == {embed(prepare([pdf EXCEPT ![1].filter = "lzw"], 0), Cms(0)) : pdf \in Packed}

Answer(size, stamped, material) == [size |-> size, stamped |-> stamped, material |-> material]
MCAnswers == {Answer(1, TRUE, TRUE), Answer(2, FALSE, TRUE), Answer(3, TRUE, TRUE)}

(* One that another tool has signed, whose page refers to no array.             *)
NoArray == {embed(prepare(pdf, 0), Cms(0)) : pdf \in {Base(FieldsRef, NoObjects, "table")}}
Pointing == {[pdf EXCEPT ![2].top = (3 :> Page(<<ByRef(2)>>)) @@ @] : pdf \in NoArray}

MCSources == Classic \cup Packed \cup Revised \cup Foreign \cup Pointing
================================================================================
