-------------------------------- MODULE PadesSeal --------------------------------
(***************************************************************************)
(* Delegated PAdES sealing: seal_pades, prepare_pades, seal_prepared_pades, *)
(* get_seal_cms and complete_pades of SigillClient (_client.py) over the    *)
(* files of PdfRevisions, against a service that sees digests only.         *)
(*                                                                         *)
(* One program at a time works on the files.  A call is cut by its two      *)
(* requests; between them the program may die, or a request fail, on either *)
(* side of the service having answered it.  What is on disk is files: the   *)
(* PDFs the program started with, the checkpoints it wrote, the results and *)
(* what other tools made of them.                                          *)
(*                                                                         *)
(* Left out: the upload fallback, labels, tags and reminders, which TSA     *)
(* answered.  A digest is the bytes it is taken over (collision-free).      *)
(***************************************************************************)
EXTENDS PdfRevisions

CONSTANTS Sources,     \* the PDFs a run may start from
          Answers,     \* what the service may answer: size of the CMS, timestamped, LTV material
          Escrow,      \* TRUE: the tenant stores the CMS of its PAdES seals
          MaxPrepared, \* bound: signature revisions prepared
          MaxOps,      \* bound: operations the service signs
          MaxResults,  \* bound: sealed PDFs returned
          MaxEdits     \* bound: revisions other tools append

ASSUME SealAssumption ==
    /\ \A pdf \in Sources : WellFormed(pdf) /\ DssUpTo(pdf, 0)
    /\ Answers \subseteq [size : 1..3, stamped : BOOLEAN, material : BOOLEAN]
    /\ Escrow \in BOOLEAN
    /\ {MaxPrepared, MaxOps, MaxResults, MaxEdits} \subseteq Nat

VARIABLES files,    \* the PDFs on disk
          call,     \* the call in progress
          sealed,   \* the results: what each call returned, and from what
          ops,      \* the service's seal operations, in order
          tokens,   \* the digests it timestamped, in order
          at,       \* signature revisions prepared so far: each has its own /M
          edits     \* revisions other tools appended so far

vars == <<files, call, sealed, ops, tokens, at, edits>>

NoCall == [step |-> "idle", pdf |-> <<>>, ltv |-> FALSE, op |-> 0, token |-> 0]

Init == /\ \E pdf \in Sources : files = {pdf}
        /\ call = NoCall
        /\ sealed = {}
        /\ ops = <<>> /\ tokens = <<>>
        /\ at = 0 /\ edits = 0

Idle == call.step = "idle" /\ Cardinality(sealed) < MaxResults

-----------------------------------------------------------------------------
(* The calls up to the first request.  A PDF the parser cannot read, or (for *)
(* a checkpoint) recover does not take, raises before anything is sent.      *)

Prepare(pdf) ==
    /\ Idle /\ at < MaxPrepared
    /\ Parses(pdf)
    /\ files' = files \cup {prepare(pdf, at + 1)}
    /\ at' = at + 1
    /\ UNCHANGED <<call, sealed, ops, tokens, edits>>

Seal(pdf, ltv) ==
    /\ Idle /\ at < MaxPrepared /\ Len(ops) < MaxOps
    /\ Parses(pdf)
    /\ call' = [NoCall EXCEPT !.step = "sign", !.pdf = prepare(pdf, at + 1), !.ltv = ltv]
    /\ at' = at + 1
    /\ UNCHANGED <<files, sealed, ops, tokens, edits>>

SealPrepared(pdf, ltv) ==
    /\ Idle /\ Len(ops) < MaxOps
    /\ Recoverable(pdf)
    /\ call' = [NoCall EXCEPT !.step = "sign", !.pdf = pdf, !.ltv = ltv]
    /\ UNCHANGED <<files, sealed, ops, tokens, at, edits>>

(* The service signs the digest; what comes with the signature is its choice. *)
ServiceSigns(answer) ==
    /\ call.step = "sign"
    /\ ops' = Append(ops, [digest |-> ByteRanges(call.pdf, Len(call.pdf)), size |-> answer.size,
                           stamped |-> answer.stamped, material |-> answer.material])
    /\ call' = [call EXCEPT !.step = "signed", !.op = Len(ops')]
    /\ UNCHANGED <<files, sealed, tokens, at, edits>>

-----------------------------------------------------------------------------
(* The rest of _seal_prepared_core.                                          *)

Format(op, hasDss, hasDocTs) ==
    IF ~op.stamped THEN "pades-bes"
    ELSE IF ~hasDss THEN "pades-b-t"
    ELSE IF ~hasDocTs THEN "pades-b-lt" ELSE "pades-b-lta"

Result(pdf, op, format) == [pdf |-> pdf, op |-> op, format |-> format]

Returns(pdf, format) ==
    /\ sealed' = sealed \cup {Result(pdf, call.op, format)}
    /\ files' = files \cup {pdf}
    /\ call' = NoCall

CallSlot == Last(call.pdf).slot

(* mutant: the DSS is appended to the file without its CMS                   *)
EmbedCms_DssOnPrepared ==
    /\ call.step = "signed"
    /\ Fits(CallSlot, ops[call.op].size)
    /\ LET signed == embed(call.pdf, Cms(call.op))
           op     == ops[call.op]
       IN  IF call.ltv /\ op.material
           THEN /\ call' = [call EXCEPT !.step = "stamp", !.pdf = append_dss(call.pdf, call.op)]
                /\ UNCHANGED <<files, sealed>>
           ELSE Returns(signed, Format(op, FALSE, FALSE))
    /\ UNCHANGED <<ops, tokens, at, edits>>

(* The CMS goes into its slot.  Without LTV material the call is done; with  *)
(* it, the DSS is appended and the archival timestamp asked for.             *)
EmbedCms ==
    /\ call.step = "signed"
    /\ Fits(CallSlot, ops[call.op].size)
    /\ LET signed == embed(call.pdf, Cms(call.op))
           op     == ops[call.op]
       IN  IF call.ltv /\ op.material
           THEN /\ Structured(signed)
                /\ call' = [call EXCEPT !.step = "stamp", !.pdf = append_dss(signed, call.op)]
                /\ UNCHANGED <<files, sealed>>
           ELSE Returns(signed, Format(op, FALSE, FALSE))
    /\ UNCHANGED <<ops, tokens, at, edits>>

(* /tsa/stamp-hash stamps the placeholder revision that only the call holds, *)
(* when there can be one.                                                    *)
ServiceStamps ==
    /\ call.step = "stamp"
    /\ Parses(call.pdf)
    /\ LET ts == prepare_doc_timestamp(call.pdf)
       IN  tokens' = Append(tokens, ByteRanges(ts, Len(ts)))
    /\ call' = [call EXCEPT !.step = "stamped", !.token = Len(tokens')]
    /\ UNCHANGED <<files, sealed, ops, at, edits>>

StampArrives(size) ==
    /\ call.step = "stamped"
    /\ LET ts == prepare_doc_timestamp(call.pdf)
       IN  /\ Fits(Last(ts).slot, size)
           /\ Returns(embed(ts, Token(call.token)), Format(ops[call.op], TRUE, TRUE))
    /\ UNCHANGED <<ops, tokens, at, edits>>

(* mutant: the placeholder revision of the archival timestamp is kept        *)
StampFails_KeepsPlaceholder ==
    /\ call.step \in {"stamp", "stamped"}
    /\ Returns(prepare_doc_timestamp(call.pdf), Format(ops[call.op], TRUE, FALSE))
    /\ UNCHANGED <<ops, tokens, at, edits>>

(* Best effort: whatever goes wrong, a page that prepare_doc_timestamp cannot *)
(* patch included, the B-LT file is the result.                              *)
StampFails ==
    /\ call.step \in {"stamp", "stamped"}
    /\ Returns(call.pdf, Format(ops[call.op], TRUE, FALSE))
    /\ UNCHANGED <<ops, tokens, at, edits>>

(* mutant: the operation outlives its call                                   *)
CallLost_KeepsOp ==
    /\ call.step # "idle"
    /\ call' = [call EXCEPT !.step = "idle"]
    /\ UNCHANGED <<files, sealed, ops, tokens, at, edits>>

(* A refusal, a lost answer, a CMS larger than its slot, the death of the    *)
(* program: the call leaves nothing behind but the service's records.        *)
CallLost ==
    /\ call.step # "idle"
    /\ call' = NoCall
    /\ UNCHANGED <<files, sealed, ops, tokens, at, edits>>

-----------------------------------------------------------------------------
(* get_seal_cms, which has the CMS of any operation when escrow is on, and   *)
(* complete_pades, which puts it into any file recover takes.                *)
Complete(pdf, op) ==
    /\ Idle /\ Escrow
    /\ Recoverable(pdf)
    /\ Fits(Last(pdf).slot, ops[op].size)
    /\ LET done == embed(pdf, Cms(op))
       IN  /\ sealed' = sealed \cup {Result(done, op, "completed")}
           /\ files' = files \cup {done}
    /\ UNCHANGED <<call, ops, tokens, at, edits>>

(* Another tool appends a revision: an annotation on the first page or a     *)
(* field of the form, rewriting what it reads there (and finds), in the file *)
(* itself or (with cross-reference streams) packed into an object stream.    *)
(* Checkpoints are not given to other tools, and what they did before the    *)
(* first seal is in the source.                                              *)
WithItem(pdf, id, entry, new) ==
    LET body == ReaderSees(pdf, id)
        arr  == FirstRef(body[entry])
    IN  IF arr > 0 THEN Put(arr, [ReaderSees(pdf, arr) EXCEPT !.items = @ \cup {new}], NoObjects)
                   ELSE Put(id, [body EXCEPT ![entry] = AddInline(@, new)], NoObjects)

EditsOf(pdf) ==
    LET new  == MaxId(pdf) + 1
        form == ReaderSees(pdf, RootId(pdf)).form
        ref  == FirstRef(form)
    IN  {Put(new, Field("other", 0), objects) :
           objects \in {WithItem(pdf, FirstPage(pdf), "annots", new),
                       IF ref > 0 THEN WithItem(pdf, ref, "fields", new)
                                  ELSE WithItem(pdf, RootId(pdf), "form", new)}}

Finds(pdf) ==
    LET form == FirstRef(ReaderSees(pdf, RootId(pdf)).form)
    IN  {FirstRef(ReaderSees(pdf, FirstPage(pdf)).annots), form,
         IF form > 0 /\ form \in Numbers(pdf) THEN FirstRef(ReaderSees(pdf, form).fields) ELSE 0}
            \subseteq {0} \cup Numbers(pdf)

EditRevision(pdf, objects, packing) ==
    [Last(pdf) EXCEPT
        !.top    = IF packing THEN Put(MaxId(pdf) + 2, Other, NoObjects) ELSE objects,
        !.packed = IF packing THEN objects ELSE NoObjects,
        !.filter = IF packing THEN "flate" ELSE "none",
        !.slot   = NoSlot]

Edit(pdf, packing) ==
    /\ Idle /\ edits < MaxEdits /\ at < MaxPrepared /\ sealed # {}
    /\ Parses(pdf) /\ Finds(pdf)
    /\ \A i \in Slots(pdf) : pdf[i].slot.holds # Empty
    /\ packing => Last(pdf).xref = "stream"
    /\ \E objects \in EditsOf(pdf) :
          files' = files \cup {Append(pdf, EditRevision(pdf, objects, packing))}
    /\ edits' = edits + 1
    /\ UNCHANGED <<call, sealed, ops, tokens, at>>

Next == \/ \E pdf \in files : Prepare(pdf)
        \/ \E pdf \in files, ltv \in BOOLEAN : Seal(pdf, ltv) \/ SealPrepared(pdf, ltv)
        \/ \E answer \in Answers : ServiceSigns(answer)
        \/ EmbedCms
        \/ ServiceStamps
        \/ \E size \in 1..2 : StampArrives(size)
        \/ StampFails
        \/ CallLost
        \/ \E pdf \in files, op \in DOMAIN ops : Complete(pdf, op)
        \/ \E pdf \in files, packing \in BOOLEAN : Edit(pdf, packing)

Spec == Init /\ [][Next]_vars

-----------------------------------------------------------------------------
(* Properties.                                                               *)

SlotValid(pdf, i) ==
    LET holds == pdf[i].slot.holds
    IN  CASE pdf[i].slot.for = "seal"    -> /\ holds.what = "cms"
                                            /\ ops[holds.n].digest = ByteRanges(pdf, i)
          [] pdf[i].slot.for = "archive" -> /\ holds.what = "token"
                                            /\ tokens[holds.n] = ByteRanges(pdf, i)

AllValid(pdf) == \A i \in Slots(pdf) : SlotValid(pdf, i)

(* The revision whose slot holds the CMS of a result's operation.            *)
SealAt(r) == Max({i \in Slots(r.pdf) : r.pdf[i].slot.holds = Cms(r.op)})

Online == {r \in sealed : r.format # "completed"}

(* What a reader finds in the form and on the first page, and whether it has *)
(* one place to look for each.                                               *)
Items(pdf, entry) ==
    UNION {IF entry[k].ref = 0 THEN entry[k].items ELSE ReaderSees(pdf, entry[k].ref).items :
           k \in DOMAIN entry}

FormEntry(pdf) == ReaderSees(pdf, RootId(pdf)).form
FieldEntries(pdf) == {ReaderSees(pdf, FormEntry(pdf)[k].ref).fields : k \in Refs(FormEntry(pdf))}
FieldsOf(pdf) ==
    (UNION {FormEntry(pdf)[k].items : k \in Inlines(FormEntry(pdf))})
        \cup (UNION {Items(pdf, entry) : entry \in FieldEntries(pdf)})
AnnotsOf(pdf) == Items(pdf, ReaderSees(pdf, FirstPage(pdf)).annots)
Titles(pdf)   == [id \in FieldsOf(pdf) |-> ReaderSees(pdf, id).title]

Unambiguous(pdf) ==
    /\ Len(FormEntry(pdf)) <= 1
    /\ \A entry \in FieldEntries(pdf) : Len(entry) <= 1
    /\ Len(ReaderSees(pdf, FirstPage(pdf)).annots) <= 1

DssOf(pdf) == LET id == ReaderSees(pdf, RootId(pdf)).dss
              IN  IF id = 0 THEN 0 ELSE ReaderSees(pdf, id).op

InlineDssRead(pdf) == SignerSees(pdf, RootId(pdf)).inlineDss

(* The signer reads what readers read, where a signature revision adds.      *)
ReadAlike(pdf) ==
    \A id \in Touched(pdf) \cup {FirstPage(pdf)} : SignerSees(pdf, id) = ReaderSees(pdf, id)

(* The fields that the signatures from revision k on have added.             *)
FieldsSince(pdf, k) ==
    {id \in Numbers(pdf) \ Numbers(SubSeq(pdf, 1, k - 1)) : ReaderSees(pdf, id).type = "field"}

Steps == {"idle", "sign", "signed", "stamp", "stamped"}

TypeOK ==
    /\ call.step \in Steps
    /\ call.step # "idle" => Document(call.pdf)
    /\ call.op \in 0..Len(ops) /\ call.token \in 0..Len(tokens)
    /\ call.step \in {"signed", "stamp", "stamped"} <=> call.op > 0
    /\ at \in 0..MaxPrepared /\ edits \in 0..MaxEdits
    /\ \A r \in sealed : r.pdf \in files /\ r.op \in DOMAIN ops

(* A CMS that went into a slot made for a seal verifies, whatever the call    *)
(* appended behind it; and every other signature of the result does that     *)
(* verified in the source.                                                   *)
SealsVerify ==
    \A r \in Online :
        LET i == SealAt(r)
        IN  r.pdf[i].slot.for = "seal" /\ AllValid(SubSeq(r.pdf, 1, i - 1)) => AllValid(r.pdf)

(* _client.py 998-999 and _pdf.py 147-149: what is not a prepared revision is *)
(* refused before it is signed.                                              *)
OnlyPreparedSigned == call.step = "sign" => Last(call.pdf).slot.for = "seal"

(* The format reported is what is in the file: a DSS for this operation that *)
(* the reader reaches, an archival timestamp that verifies, and no slot left *)
(* open behind the seal, whatever became of the archival timestamp.  And     *)
(* that DSS is the catalog's only one, unless the catalog read when it was   *)
(* written had an inline /DSS: then there are two keys, and which one a      *)
(* reader takes is undefined.                                                *)
FormatTellsContents ==
    \A r \in Online :
        /\ r.format = Format(ops[r.op], DssOf(r.pdf) = r.op,
                             Last(r.pdf).slot.for = "archive" /\ SlotValid(r.pdf, Len(r.pdf)))
        /\ \A i \in Slots(r.pdf) : i > SealAt(r) => r.pdf[i].slot.holds # Empty
        /\ DssOf(r.pdf) = r.op =>
              ReaderSees(r.pdf, RootId(r.pdf)).inlineDss = InlineDssRead(SubSeq(r.pdf, 1, SealAt(r)))

(* A digest the service signed that a file on disk still has: the escrowed   *)
(* CMS completes that file, to the very bytes every result of the operation  *)
(* begins with, whether or not its answer arrived and however often the      *)
(* checkpoint was signed.                                                    *)
EscrowRestores ==
    \A o \in DOMAIN ops, pdf \in files :
        /\ Recoverable(pdf)
        /\ ops[o].digest = ByteRanges(pdf, Len(pdf))
        => LET done == embed(pdf, Cms(o))
           IN  /\ SlotValid(done, Len(done)) <=> Last(pdf).slot.for = "seal"
               /\ \A r \in Online : r.op = o => IsPrefix(done, r.pdf)

(* Once the service has signed, only the size of the CMS can stop the call:  *)
(* the file with its signature revision is one the parser reads.  Unless it  *)
(* is none of prepare's but a file the program started with, which the       *)
(* parser cannot read and recover takes all the same, as it looks for a      *)
(* /ByteRange only: then a seal with LTV is signed, and append_dss raises.   *)
SignedIsFinished ==
    call.step \in {"signed", "stamp", "stamped"} =>
        \/ Structured(call.pdf)
        \/ \E src \in Sources :
              /\ ~Structured(src) /\ Recoverable(src)
              /\ ByteRanges(call.pdf, Len(call.pdf)) = ByteRanges(src, Len(src))

(* What a reader finds in a result: every object a signature does not        *)
(* rewrite is as it was in the source, references still lead to what they    *)
(* should, and the cross-reference sections stay of one format.  And where   *)
(* the signer reads what readers read: all fields of the form and all        *)
(* annotations of the first page, with the fields of the seal's own          *)
(* signatures, in one place each exactly when the source has no form or      *)
(* field list in the place the patchers do not look; titled apart unless the *)
(* source has the seal's titles already, as after a first seal.  Nothing is  *)
(* said of a checkpoint that is none of prepare's but a file the program     *)
(* started with.                                                             *)
Checkpoint(r) ==
    \A src \in Sources :
        Recoverable(src) => ByteRanges(r.pdf, SealAt(r)) # ByteRanges(src, Len(src))

KeepsDocument(r) ==
    LET k   == SealAt(r)
        src == SubSeq(r.pdf, 1, k - 1)
        new == FieldsSince(r.pdf, k)
        own == {i \in Slots(r.pdf) : i >= k}
    IN  Checkpoint(r) /\ Linked(src) =>
            /\ \A id \in Numbers(src) \ Touched(src) : ReaderSees(r.pdf, id) = ReaderSees(src, id)
            /\ Linked(r.pdf)
            /\ \A i \in k..Len(r.pdf) : r.pdf[i].xref = Last(src).xref
            /\ ReadAlike(src) =>
                  /\ FieldsOf(r.pdf) = FieldsOf(src) \cup new
                  /\ AnnotsOf(r.pdf) = AnnotsOf(src) \cup new
                  /\ Unambiguous(r.pdf) <=>
                        /\ Unambiguous(src)
                        /\ Refs(FormEntry(src)) = DOMAIN FormEntry(src)
                        /\ \A entry \in FieldEntries(src) : Refs(entry) = {}
                  /\ IsInjective(Titles(r.pdf)) <=>
                        /\ IsInjective(Titles(src))
                        /\ \A i \in own : \A id \in FieldsOf(src) :
                               ReaderSees(src, id).title # FieldTitle(r.pdf[i].slot.for)
                        /\ \A i, j \in own : r.pdf[i].slot.for = r.pdf[j].slot.for => i = j

SealKeepsDocument == [][\A r \in sealed' \ sealed : KeepsDocument(r)]_vars

(* _pdf.py 500-502: the last write wins, so that incremental updates         *)
(* override originals.  Then no seal takes a field or an annotation away.    *)
NewestDefinitionsKept ==
    \A r \in Online :
        LET src == SubSeq(r.pdf, 1, SealAt(r) - 1)
        IN  Checkpoint(r) /\ Linked(src) =>
                FieldsOf(src) \subseteq FieldsOf(r.pdf) /\ AnnotsOf(src) \subseteq AnnotsOf(r.pdf)
================================================================================
