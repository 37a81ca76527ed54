------------------------------- MODULE Results -------------------------------
(***************************************************************************)
(* The way of an answer from the language server to the terminal: the      *)
(* client of the daemon normalises it, the gateway of the command          *)
(* validates it, test files are filtered out of it, and it is transformed  *)
(* to records, grouped and printed in one of the formats, of which json    *)
(* stands for yaml too.  There is an operator for each function on that    *)
(* way, and one for each command.                                          *)
(*                                                                         *)
(* An item stands for a location, a symbol, a call, a completion, a        *)
(* diagnostic, a hover or an edit:                                         *)
(*   file   the file it is in             at     where its range starts    *)
(*   name   its name, label or message    valid  it passes its pydantic    *)
(*                                               model                     *)
(*   keys   the optional keys it sets     inner  what it has below it      *)
(* Below it an item has its children in the order they are read in, each   *)
(* with its level: those of a document symbol, with theirs, and the texts  *)
(* of a hover after the first.  Two keys tell apart what the protocol      *)
(* leaves to the server: a document symbol that is in truth a              *)
(* SymbolInformation has a "location", and a hover is "marked" when its    *)
(* contents are one MarkedString object and neither a MarkupContent, nor   *)
(* a text, nor a list.                                                     *)
(* A raw answer is a shape, "null", "object", "list", "items" or "calls",  *)
(* and the items in it.                                                    *)
(***************************************************************************)
EXTENDS FileFilter

CONSTANTS
    FileOrder,      \* every file an item may be in, in alphabetical order
    NameOrder       \* every name an item may have, in alphabetical order

Locations == {"definition", "references"}
Calls == {"incoming-calls", "outgoing-calls"}

Formats == {"json", "csv", "text"}

Files == {FileOrder[n] : n \in 1 .. Len(FileOrder)}
Names == {NameOrder[n] : n \in 1 .. Len(NameOrder)}
Child == [level : Nat \ {0}, name : Names]
Item == [file : Files, at : Nat, name : Names, valid : BOOLEAN,
         keys : SUBSET STRING, inner : Seq(Child)]
Raw == [shape : STRING, items : Seq(Item)]

Position(seq, element) == CHOOSE i \in 1 .. Len(seq) : seq[i] = element
ValidOnly(items) == Picked(items, {n \in 1 .. Len(items) : items[n].valid})
AllValid(items) == \A i \in 1 .. Len(items) : items[i].valid

-----------------------------------------------------------------------------
(* Normalisation in the daemon.  An item that does not fit its model fails *)
(* the whole answer, except that document symbols are dropped one by one,  *)
(* and that calls and the diagnostics of a file are left to the command.   *)
(* A symbol with a location fits the other model there is for it, and is   *)
(* made a document symbol with the location's range; of the optional keys  *)
(* it is left "deprecated".                                                *)

Within(raw, shapes) == IF raw.shape \in shapes THEN raw.items ELSE << >>
Validated(items) == [ok |-> AllValid(items), items |-> items]
Unchecked(items) == [ok |-> TRUE, items |-> items]

NormalizeLocations(raw) == Validated(Within(raw, {"list", "object"}))

NormalizeCompletionList(raw) == Validated(Within(raw, {"list"}))
NormalizeCompletions(raw) == Validated(Within(raw, {"list", "items"}))

NormalizeHover(raw) == Validated(raw.items)

AsDocumentSymbol(item) ==
    IF "location" \in item.keys
    THEN [item EXCEPT !.keys = @ \cap {"deprecated"}, !.inner = << >>]
    ELSE item

NormalizeDocumentSymbols(raw) ==
    LET fit == ValidOnly(Within(raw, {"list", "items"}))
    IN Unchecked([n \in 1 .. Len(fit) |-> AsDocumentSymbol(fit[n])])

NormalizeWorkspaceSymbols(raw) == Validated(Within(raw, {"list"}))

NormalizeCalls(raw) == Unchecked(Within(raw, {"list", "calls"}))

NormalizeRename(raw) == Validated(Within(raw, {"object"}))

NormalizeDocumentDiagnostics(raw) == Unchecked(Within(raw, {"list", "items"}))

NormalizeWorkspaceDiagnostics(raw) == Validated(Within(raw, {"list"}))

Normalize(kind, raw) ==
    CASE kind \in Locations -> NormalizeLocations(raw)
      [] kind = "completion" -> NormalizeCompletions(raw)
      [] kind = "hover" -> NormalizeHover(raw)
      [] kind = "document-symbol" -> NormalizeDocumentSymbols(raw)
      [] kind = "workspace-symbol" -> NormalizeWorkspaceSymbols(raw)
      [] kind \in Calls -> NormalizeCalls(raw)
      [] kind = "rename" -> NormalizeRename(raw)
      [] kind = "diagnostics" -> NormalizeDocumentDiagnostics(raw)
      [] kind = "workspace-diagnostics" -> NormalizeWorkspaceDiagnostics(raw)
      [] OTHER -> Unchecked(<< >>)

(* The gateway validates again what it has a model for, which tells        *)
(* nothing new of answers the daemon has validated.                        *)
UnwrapAndValidate(kind, reply) ==
    [ok |-> reply.ok /\ (kind \in Calls => AllValid(reply.items)), items |-> reply.items]

-----------------------------------------------------------------------------
(* Records: the file an item is printed under, and its children, down to   *)
(* the depth that was asked for; a negative depth has no end.              *)

Record(file, item, inner) ==
    [file |-> file, at |-> item.at, name |-> item.name, keys |-> item.keys, inner |-> inner]

Records(items, R(_)) == [n \in 1 .. Len(items) |-> R(items[n])]

UpTo(depth, inner) ==
    IF depth < 0 THEN inner
    ELSE Picked(inner, {n \in 1 .. Len(inner) : inner[n].level <= depth})

TransformLocations(items) == Records(items, LAMBDA i : Record(i.file, i, << >>))

(* A document symbol has no file of its own and gets the workspace. *)
TransformDocumentSymbol(workspace, item, depth) ==
    Record(workspace, item, UpTo(depth, item.inner))

TransformSymbolInformation(item) == Record(item.file, item, << >>)

(* The nodes of the text format are printed under the file. *)
TransformNode(file, item, depthLimit) ==
    Record(file, item, UpTo(depthLimit, item.inner))

TransformDiagnostics(items, file) == Records(items, LAMBDA i : Record(file, i, << >>))

TransformCompletions(items, file) == Records(items, LAMBDA i : Record(file, i, << >>))

(* Of a list it takes the first, of a MarkedString object nothing. *)
Content(item) == IF "marked" \in item.keys THEN "" ELSE item.name

TransformHover(items, file) ==
    Records(items, LAMBDA i : Record(file, [i EXCEPT !.name = Content(i)], << >>))

(* By file, then by name. *)
SortedCalls(records) ==
    Arranged(records, [n \in 1 .. Len(records) |->
        <<Position(FileOrder, records[n].file), Position(NameOrder, records[n].name), n>>])

TransformIncoming(items) ==
    SortedCalls(Records(items, LAMBDA i : Record(i.file, i, << >>)))

TransformOutgoing(items) ==
    SortedCalls(Records(items, LAMBDA i : Record(i.file, i, << >>)))

EditRecords(items) == Records(items, LAMBDA i : Record(i.file, i, << >>))

-----------------------------------------------------------------------------
(* Grouping: the files in alphabetical order, in each its records in the   *)
(* order they came; references by where they start.  The groups are one    *)
(* sequence here, the records of a file next to each other.                *)

GroupRecordsByFile(records) ==
    Arranged(records, [n \in 1 .. Len(records) |->
        <<Position(FileOrder, records[n].file), n, 0>>])

GroupLocationsByFile(records) ==
    Arranged(records, [n \in 1 .. Len(records) |->
        <<Position(FileOrder, records[n].file), records[n].at, n>>])

-----------------------------------------------------------------------------
(* Printing.  ok is FALSE where the program ends in a traceback.           *)

Row(r) == [file |-> r.file, at |-> r.at, name |-> r.name]

(* A record and its children: place 0 is the record itself. *)
Places(records) == UNION {{n} \X (0 .. Len(records[n].inner)) : n \in 1 .. Len(records)}

(* A child is printed under its parent. *)
Rows(records) ==
    Arranged([p \in Places(records) |->
                [Row(records[p[1]]) EXCEPT !.name = IF p[2] = 0 THEN @
                                                    ELSE records[p[1]].inner[p[2]].name]],
             [p \in Places(records) |-> <<p[1], p[2], 0>>])

Printed(rows) == [ok |-> TRUE, rows |-> rows]

Format(record) == Printed(<<Row(record)>>)

(* A CSV or text row holds the record itself. *)
FormatList(format, records) ==
    Printed(IF format = "json" THEN Rows(records) ELSE Records(records, Row))

FormatGrouped(groups) == Printed(Rows(groups))

(* One row for each file, all its ranges in it. *)
FormatReferencesCsv(groups) == Printed(Rows(groups))

RenderText(records) == Printed(Rows(records))

RenderSymbolsGrouped(groups) == Printed(Records(groups, Row))
RenderDiagnosticsGrouped(groups) == Printed(Records(groups, Row))
RenderReferencesGrouped(groups) == Printed(Records(groups, Row))

(* The columns of the table are the keys of its first row. *)
FormatGroupedFlat(groups) ==
    [ok |-> \A n \in 1 .. Len(groups) : groups[n].keys \subseteq groups[1].keys,
     rows |-> Rows(groups)]

FormatRaw(items) == Printed(Rows(Records(items, LAMBDA i : Record(i.file, i, i.inner))))

-----------------------------------------------------------------------------
(* The commands, from the answer of the daemon on. *)

Definition(cmd, target, items) ==
    FormatList(cmd.format,
               TransformLocations(FilterByUri(items, cmd.includeTests, target.language)))

References(cmd, target, items) ==
    IF cmd.raw THEN FormatRaw(items)
    ELSE LET shown == FilterByUri(items, cmd.includeTests, target.language)
             groups == GroupLocationsByFile(TransformLocations(shown))
         IN CASE cmd.format = "text" -> RenderReferencesGrouped(groups)
              [] cmd.format = "csv" -> FormatReferencesCsv(groups)
              [] OTHER -> FormatGrouped(groups)

DocumentSymbol(cmd, target, items) ==
    IF cmd.raw THEN FormatRaw(items)
    ELSE IF cmd.format = "text"
    THEN RenderText(Records(items, LAMBDA i : TransformNode(target.file, i, cmd.depth)))
    ELSE FormatList(cmd.format,
                    Records(items, LAMBDA i :
                        TransformDocumentSymbol(target.workspace.names, i, cmd.depth)))

WorkspaceSymbol(cmd, target, items) ==
    IF cmd.raw THEN FormatRaw(items)
    ELSE LET shown == FilterByUri(items, cmd.includeTests, target.language)
             groups == GroupRecordsByFile(Records(shown, TransformSymbolInformation))
         IN CASE cmd.format = "text" -> RenderSymbolsGrouped(groups)
              [] cmd.format = "csv" -> FormatGroupedFlat(groups)
              [] OTHER -> FormatGrouped(groups)

(* The option to include tests is there and does nothing. *)
IncomingCalls(cmd, target, items) ==
    IF cmd.raw THEN FormatRaw(items) ELSE FormatList(cmd.format, TransformIncoming(items))

OutgoingCalls(cmd, target, items) ==
    IF cmd.raw THEN FormatRaw(items) ELSE FormatList(cmd.format, TransformOutgoing(items))

Completion(cmd, target, items) ==
    FormatList(cmd.format, TransformCompletions(items, target.file))

Hover(cmd, target, items) ==
    LET records == TransformHover(items, target.file)
    IN IF records = << >> THEN Printed(<< >>) ELSE Format(records[1])

Diagnostics(cmd, target, items) ==
    FormatList(cmd.format, TransformDiagnostics(ValidOnly(items), target.file))

WorkspaceDiagnostics(cmd, target, items) ==
    LET shown == ValidOnly(FilterByUri(items, cmd.includeTests, target.language))
        records == Records(shown, LAMBDA i : TransformDiagnostics(<<i>>, i.file)[1])
        groups == GroupRecordsByFile(records)
    IN CASE cmd.format = "text" -> RenderDiagnosticsGrouped(groups)
         [] cmd.format = "csv" -> FormatGroupedFlat(groups)
         [] OTHER -> FormatGrouped(groups)

(* The edits are printed whether or not they are applied (Rename). *)
RenameCommand(cmd, target, items) == FormatList(cmd.format, EditRecords(items))

DidChange(cmd, target, items) == Printed(<< >>)

Show(cmd, target, items) ==
    CASE cmd.kind = "definition" -> Definition(cmd, target, items)
      [] cmd.kind = "references" -> References(cmd, target, items)
      [] cmd.kind = "document-symbol" -> DocumentSymbol(cmd, target, items)
      [] cmd.kind = "workspace-symbol" -> WorkspaceSymbol(cmd, target, items)
      [] cmd.kind = "incoming-calls" -> IncomingCalls(cmd, target, items)
      [] cmd.kind = "outgoing-calls" -> OutgoingCalls(cmd, target, items)
      [] cmd.kind = "completion" -> Completion(cmd, target, items)
      [] cmd.kind = "hover" -> Hover(cmd, target, items)
      [] cmd.kind = "diagnostics" -> Diagnostics(cmd, target, items)
      [] cmd.kind = "workspace-diagnostics" -> WorkspaceDiagnostics(cmd, target, items)
      [] cmd.kind = "rename" -> RenameCommand(cmd, target, items)
      [] OTHER -> DidChange(cmd, target, items)
=============================================================================
