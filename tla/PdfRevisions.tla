------------------------------ MODULE PdfRevisions ------------------------------
(***************************************************************************)
(* A PDF as _pdf.py sees it: the revisions of one file, each appended to   *)
(* the ones before it and never changed, save for the bytes of a signature *)
(* slot.                                                                   *)
(*                                                                         *)
(* A revision defines objects, in the file itself (top) or packed into an  *)
(* object stream (packed), and ends with a cross-reference section in one  *)
(* of two formats.  An object's body keeps what the signer reads or        *)
(* rewrites: the catalog, the nodes of the page tree, a page, an array, a  *)
(* form, a field, a DSS; the others are only numbers taken.  A dictionary  *)
(* entry that can be given inline or by reference is kept as the sequence  *)
(* of its occurrences, because the patchers may write a second one.        *)
(*                                                                         *)
(* Left out: generations other than 0, byte offsets, /M /Name /Reason      *)
(* /Location, /SigFlags, the number of certificates and OCSP responses (one *)
(* stream stands for all), malformed streams and predictors (the same      *)
(* ValueError as another filter).                                          *)
(***************************************************************************)
EXTENDS Naturals, SequencesExt

CONSTANTS MaxHops      \* levels of the page tree the parser descends (64)

ASSUME HopsAssumption == MaxHops \in Nat \ {0}

-----------------------------------------------------------------------------
(* Occurrences of a dictionary entry: a reference, or (ref 0) the items.     *)

ByRef(id)      == [ref |-> id, items |-> {}]
Inline(items)  == [ref |-> 0, items |-> items]
Refs(entry)    == {k \in DOMAIN entry : entry[k].ref > 0}
Inlines(entry) == {k \in DOMAIN entry : entry[k].ref = 0}
FirstRef(entry) == IF Refs(entry) = {} THEN 0 ELSE entry[Min(Refs(entry))].ref

AddInline(entry, id) ==
    IF Inlines(entry) = {}
    THEN Append(entry, Inline({id}))
    ELSE [entry EXCEPT ![Min(Inlines(entry))].items = @ \cup {id}]

(* A catalog's /DSS is kept as the number referred to (0: no reference) and   *)
(* whether there is one inline: a reference replaces only a reference.       *)
Catalog(pages, form, dss, inlineDss) ==
    [type |-> "catalog", pages |-> pages, form |-> form, dss |-> dss, inlineDss |-> inlineDss]
Pages(kids)         == [type |-> "pages", kids |-> kids]
Page(annots)        == [type |-> "page", annots |-> annots]
Array(items)        == [type |-> "array", items |-> items]
Form(fields)        == [type |-> "form", fields |-> fields]
Field(title, value) == [type |-> "field", title |-> title, value |-> value]
Dss(op)             == [type |-> "dss", op |-> op]
Other               == [type |-> "other"]

NoObjects == [id \in {} |-> Other]
Put(id, body, objects) ==
    [x \in {id} \cup DOMAIN objects |-> IF x = id THEN body ELSE objects[x]]

(* What a signature's /Contents slot is for, and what it holds.              *)
Empty       == [what |-> "nothing", n |-> 0]
Cms(op)     == [what |-> "cms", n |-> op]
Token(k)    == [what |-> "token", n |-> k]
NoSlot      == [for |-> "none", holds |-> Empty]
Slot(for)   == [for |-> for, holds |-> Empty]

(* A file: one revision at least, each with a slot or the mark of none.      *)
HasSlot(rev) ==
    /\ "slot" \in DOMAIN rev /\ {"for", "holds"} \subseteq DOMAIN rev.slot
    /\ rev.slot.for \in {"none", "seal", "archive"}

Document(doc) ==
    /\ doc # <<>> /\ doc \in Seq(ToSet(doc))
    /\ \A i \in DOMAIN doc : HasSlot(doc[i])

-----------------------------------------------------------------------------
(* Two readings of a file.  A reader that follows the cross-references sees  *)
(* the newest definition of an object; the signer's parser prefers any       *)
(* top-level definition to a packed one, however old.                        *)

TopIn(doc, id)    == {i \in DOMAIN doc : id \in DOMAIN doc[i].top}
PackedIn(doc, id) == {i \in DOMAIN doc : id \in DOMAIN doc[i].packed}
Defined(doc, id)  == TopIn(doc, id) \cup PackedIn(doc, id) # {}

SignerSees(doc, id) ==
    IF TopIn(doc, id) # {} THEN doc[Max(TopIn(doc, id))].top[id]
                           ELSE doc[Max(PackedIn(doc, id))].packed[id]

ReaderSees(doc, id) ==
    LET i == Max(TopIn(doc, id) \cup PackedIn(doc, id))
    IN  IF id \in DOMAIN doc[i].top THEN doc[i].top[id] ELSE doc[i].packed[id]

Numbers(doc) == UNION {DOMAIN doc[i].top \cup DOMAIN doc[i].packed : i \in DOMAIN doc}

(* mutant: numbers inside object streams are not counted                     *)
MaxId_TopOnly(doc) == Max(UNION {DOMAIN doc[i].top : i \in DOMAIN doc})
MaxId(doc) == Max(Numbers(doc))
RootId(doc) == Last(doc).root

(* What the bodies of a file look like: an entry is a sequence of            *)
(* occurrences, the catalog is in the file and never anything else.          *)
Definitions(doc, id) ==
    {doc[i].top[id] : i \in TopIn(doc, id)} \cup {doc[i].packed[id] : i \in PackedIn(doc, id)}

Entry(e) ==
    /\ e \in Seq(ToSet(e))
    /\ \A k \in DOMAIN e : {"ref", "items"} \subseteq DOMAIN e[k] /\ e[k].ref \in Nat

Body(b) ==
    /\ "type" \in DOMAIN b
    /\ b.type = "pages" => "kids" \in DOMAIN b
    /\ b.type = "page" => "annots" \in DOMAIN b /\ Entry(b.annots)
    /\ b.type = "catalog" => {"pages", "form", "dss", "inlineDss"} \subseteq DOMAIN b /\ Entry(b.form)

WellFormed(doc) ==
    /\ Document(doc)
    /\ \A i \in DOMAIN doc : {"top", "packed", "filter", "xref", "root"} \subseteq DOMAIN doc[i]
    /\ Max(Numbers(doc)) \in Nat /\ Numbers(doc) \subseteq 1..Max(Numbers(doc)) /\ RootId(doc) \in Numbers(doc)
    /\ \A id \in Numbers(doc) : \A b \in Definitions(doc, id) : Body(b)
    /\ \A cat \in Definitions(doc, RootId(doc)) : cat.type = "catalog"

(* A DSS that a catalog names is in the file, and of one of n operations or  *)
(* (0) of none of them.                                                      *)
DssUpTo(doc, n) ==
    \A cat \in Definitions(doc, RootId(doc)) : cat.dss # 0 =>
        /\ cat.dss \in Numbers(doc)
        /\ \A b \in Definitions(doc, cat.dss) : "op" \in DOMAIN b /\ b.op \in 0..n

(* References lead to what they should: the way down to a page, the form's   *)
(* to forms, a form's fields and a page's annotations to arrays, fields to   *)
(* fields.                                                                   *)
Kind(doc, id, type) == id \in Numbers(doc) /\ \A b \in Definitions(doc, id) : b.type = type

Links(doc, entry, type) == \A k \in DOMAIN entry : entry[k].ref > 0 => Kind(doc, entry[k].ref, type)

OnlyFields(doc, entry) ==
    \A k \in DOMAIN entry :
        LET items == IF entry[k].ref = 0 THEN {entry[k].items}
                                         ELSE {b.items : b \in Definitions(doc, entry[k].ref)}
        IN  \A id \in UNION items : Kind(doc, id, "field")

LinkedBody(doc, b) ==
    /\ b.type = "catalog" => /\ Links(doc, b.form, "form")
                             /\ \A k \in Inlines(b.form) : \A id \in b.form[k].items : Kind(doc, id, "field")
    /\ b.type = "page"  => Links(doc, b.annots, "array")
    /\ b.type = "form"  => "fields" \in DOMAIN b /\ Entry(b.fields)
                             /\ Links(doc, b.fields, "array") /\ OnlyFields(doc, b.fields)
    /\ b.type = "array" => "items" \in DOMAIN b
    /\ b.type = "field" => "title" \in DOMAIN b


(* The n-th node on the way down the first kids from /Pages; 0 when the walk *)
(* breaks off.                                                               *)
FirstKid(doc, up) ==
    LET body == SignerSees(doc, up)
    IN  IF up = 0 \/ ~Defined(doc, up) THEN 0
        ELSE IF body.type # "pages" \/ body.kids = <<>> THEN 0
        ELSE body.kids[1]

WalkDown(doc) ==
    LET node[n \in 0..MaxHops] ==
          IF n = 0 THEN SignerSees(doc, RootId(doc)).pages ELSE FirstKid(doc, node[n - 1])
    IN  node

Leaves(doc) == {n \in 1..MaxHops : /\ WalkDown(doc)[n] > 0
                                   /\ Defined(doc, WalkDown(doc)[n])
                                   /\ SignerSees(doc, WalkDown(doc)[n]).type = "page"}

FirstPage(doc) == WalkDown(doc)[Min(Leaves(doc))]

Linked(doc) ==
    /\ Kind(doc, FirstPage(doc), "page")
    /\ \A id \in Numbers(doc) : \A b \in Definitions(doc, id) : LinkedBody(doc, b)

(* _parse_structure succeeds; anything else is a ValueError.                 *)
Structured(doc) ==
    /\ \A i \in DOMAIN doc : doc[i].filter \in {"none", "flate"}
    /\ Defined(doc, RootId(doc))
    /\ Leaves(doc) # {}
    /\ LET arr  == FirstRef(SignerSees(doc, FirstPage(doc)).annots)
           form == FirstRef(SignerSees(doc, RootId(doc)).form)
       IN  (arr > 0 => Defined(doc, arr)) /\ (form > 0 => Defined(doc, form))

(* And so do the patchers of a signature revision: what the page's /Annots   *)
(* refers to is an array.                                                    *)
Parses(doc) ==
    /\ Structured(doc)
    /\ LET arr == FirstRef(SignerSees(doc, FirstPage(doc)).annots)
       IN  arr > 0 => SignerSees(doc, arr).type = "array"

-----------------------------------------------------------------------------
(* The writers.  A revision keeps the cross-reference format of the one it   *)
(* is appended to; a cross-reference stream takes the next number itself.    *)

Revision(doc, objects, next, slot, at) ==
    LET format == Last(doc).xref
    IN  [top |-> IF format = "stream" THEN Put(next, Other, objects) ELSE objects,
         packed |-> NoObjects, filter |-> "none",
         xref |-> format, root |-> RootId(doc), slot |-> slot, at |-> at]

(* mutant: a second /AcroForm entry beside the one that is there             *)
AddAcroForm_Always(cat, form) == [cat EXCEPT !.form = Append(@, ByRef(form))]

AddAcroForm(cat, form) ==
    IF Refs(cat.form) # {} THEN cat ELSE [cat EXCEPT !.form = Append(@, ByRef(form))]

(* The signature dictionary, its field, the page or its annotation array, the *)
(* form and the catalog, in a revision of their own with an empty slot.       *)
SignatureRevision(doc, title, for, at) ==
    LET sig   == MaxId(doc) + 1
        field == sig + 1
        cat   == SignerSees(doc, RootId(doc))
        page  == FirstPage(doc)
        arr   == FirstRef(SignerSees(doc, page).annots)
        old   == FirstRef(cat.form)
        form  == IF old > 0 THEN old ELSE field + 1
        next  == IF old > 0 THEN field + 1 ELSE field + 2
        place == IF arr > 0 THEN arr ELSE page
        noted == IF arr > 0
                 THEN [SignerSees(doc, arr) EXCEPT !.items = @ \cup {field}]
                 ELSE [SignerSees(doc, page) EXCEPT !.annots = AddInline(@, field)]
        listed == IF old > 0
                  THEN [SignerSees(doc, old) EXCEPT !.fields = AddInline(@, field)]
                  ELSE Form(<<Inline({field})>>)
    IN  Revision(doc,
                 Put(sig, Other, Put(field, Field(title, sig), Put(place, noted, Put(form, listed,
                    Put(RootId(doc), AddAcroForm(cat, form), NoObjects))))),
                 next, Slot(for), at)

FieldTitle(for) == IF for = "seal" THEN "Sigill-Seal-1" ELSE "Sigill-DocTS-1"

prepare(doc, at) == Append(doc, SignatureRevision(doc, FieldTitle("seal"), "seal", at))

prepare_doc_timestamp(doc) ==
    Append(doc, SignatureRevision(doc, FieldTitle("archive"), "archive", 0))

(* The objects a signature revision defines anew.                            *)
Touched(doc) ==
    LET page == FirstPage(doc)
        arr  == FirstRef(SignerSees(doc, page).annots)
        form == FirstRef(SignerSees(doc, RootId(doc)).form)
    IN  {RootId(doc), IF arr > 0 THEN arr ELSE page} \cup (IF form > 0 THEN {form} ELSE {})

(* The operation's certificates and OCSP responses, the DSS that lists them  *)
(* and the catalog, whose reference to a /DSS now is to this one; beside an  *)
(* inline /DSS it is a second one.                                           *)
append_dss(doc, op) ==
    LET material == MaxId(doc) + 1
        dss      == material + 1
        cat      == [SignerSees(doc, RootId(doc)) EXCEPT !.dss = dss]
    IN  Append(doc, Revision(doc, Put(material, Other, Put(dss, Dss(op),
                                     Put(RootId(doc), cat, NoObjects))), dss + 1, NoSlot, 0))

-----------------------------------------------------------------------------
(* The slot: what is hashed, what fills it, and what recover takes for a     *)
(* prepared file: the newest /ByteRange in it covers the whole file.         *)

Slots(doc) == {i \in DOMAIN doc : doc[i].slot.for # "none"}

ByteRanges(doc, i) == [SubSeq(doc, 1, i) EXCEPT ![i].slot.holds = Empty]

Recoverable(doc) == Slots(doc) # {} /\ Max(Slots(doc)) = Len(doc)

(* Sizes in steps of the two reserved slots: 1 fits both, 2 the seal's only. *)
Fits(slot, size) == size <= (IF slot.for = "archive" THEN 1 ELSE 2)

(* mutant: the first /ByteRange of the file instead of the last              *)
embed_First(doc, what) == [doc EXCEPT ![Min(Slots(doc))].slot.holds = what]

embed(doc, what) == [doc EXCEPT ![Len(doc)].slot.holds = what]
================================================================================
