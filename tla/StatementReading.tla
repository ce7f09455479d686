-------------------------- MODULE StatementReading -------------------------
(***************************************************************************)
(* One call of parse_statement (statements/parser.py): a CSV or Excel file *)
(* is read as rows; a PDF by its tables, then its text layer, then OCR     *)
(* (statements/ocr_worker.py) with AWS Textract, called at once or through *)
(* S3 and polled, or local Tesseract.  A row is the set of its filled      *)
(* cells, in the columns date, narration and figures; "label" is a date    *)
(* cell with no date in it.  Rows are named by their position in the       *)
(* document and have a cell, filled or not, in every column.               *)
(***************************************************************************)
EXTENDS Naturals, FiniteSets, SequencesExt

CONSTANTS
    Figures,        \* the columns of figures, in order
    Row,            \* the kinds of rows documents have
    Named,          \* the columns that may be headed like dates or amounts
    MaxRows,        \* bound: rows of a document
    HeaderWindow,   \* detect_columns looks at the first 15 rows
    MaxPolls,       \* MAX_POLL_ATTEMPTS, 60
    None

Columns == <<"date", "narration">> \o Figures
Cell == {"label"} \cup Range(Columns)

ASSUME ReadingAssumption ==
    /\ {MaxRows, HeaderWindow, MaxPolls} \subseteq Nat
    /\ Figures \in Seq(Range(Figures)) /\ {"label", "date", "narration"} \cap Range(Figures) = {}
    /\ \A r \in Row : r \subseteq Cell
ASSUME NoneAssumption == None \notin {"parser", "unexpected", "password", "pdf"}

VARIABLES
    file,       \* the document: its rows, and what is known of its bank
    pdf,        \* what pdfplumber gets of a PDF: the text on its pages
    env,        \* the OCR settings, the AWS account, the local binary
    pc, polls,
    object,     \* where the S3 copy of the document is
    found,      \* the rows OCR returned
    failed,     \* history: the engines that failed
    result

vars == <<file, pdf, env, pc, polls, object, found, failed, result>>

Blank == {}
Header == Cell \ {"date"}
Continuation == {"narration"}
Complete(cells) == {"date", "narration"} \subseteq cells /\ cells \cap Range(Figures) # {}

Init ==
    \* a template may give the columns; a narration column headed
    \* "Description" counts as an amount column too (it contains "cr")
    /\ file \in [rows : BoundedSeq(Row, MaxRows), columns : BOOLEAN, named : Named]
    /\ pdf = None /\ env = None /\ pc = "read" /\ polls = 0
    /\ object = "none" /\ found = <<>> /\ failed = {} /\ result = None

(***************************************************************************)
(* parse_rows: the header, the merging of continuation rows, the numbers.  *)
(* A row becomes a dictionary under the headings.  With template columns   *)
(* and no header, the first row serves for one, with blank headings.       *)
(***************************************************************************)
(* The members of S up to n, in increasing order.                          *)
Ordered(S, n) ==
    LET to[k \in 0..n] == IF k = 0 THEN <<>>
                          ELSE IF k \in S THEN Append(to[k - 1], k) ELSE to[k - 1]
    IN to[n]
Filled(rows) == Ordered({i \in DOMAIN rows : rows[i] # Blank}, Len(rows))
Line(rows, i) == [at |-> i, cells |-> rows[i], text |-> IF "narration" \in rows[i] THEN {i} ELSE {}]
Lines(rows) == [k \in DOMAIN Filled(rows) |-> Line(rows, Filled(rows)[k])]

(* The row taken for the header; 0: none is recognised.                    *)
DetectColumns(rows) ==
    LET heads == {i \in 1..Len(rows) : i <= HeaderWindow /\ rows[i] = Header} IN
    IF heads # {} THEN Min(heads) ELSE IF file.columns THEN 1 ELSE 0

(* Columns with a blank heading are one key: the last of them has it.  The *)
(* headings of a recognised header are taken to be different.              *)
Fills(cells, c) == c \in cells \/ (c = "date" /\ "label" \in cells)
Unheaded(head) == {k \in DOMAIN Columns : ~Fills(head, Columns[k])}
Lost(head) == {Columns[k] : k \in {j \in Unheaded(head) : \E l \in Unheaded(head) : j < l}}
(* What is left of a row; a lost narration reads as the cell of the last.  *)
Under(head, cells) ==
    (cells \ Lost(head)) \cup
      IF "narration" \in Lost(head) /\ Columns[Max(Unheaded(head))] \in cells
      THEN {"narration"} ELSE {}
Headed(head, line) ==
    [at |-> line.at, cells |-> Under(head, line.cells),
     text |-> IF "narration" \in Lost(head) THEN {} ELSE line.text]

(* The columns that must be empty in a continuation row: those headed like *)
(* a date or an amount.  The narration has its heading or the second.      *)
Keys(head) ==
    {c \in Range(Columns) : Fills(head, c) /\ (c \in file.named \/ (head = Header /\ c # "narration"))}
ContinuesUndated(head, cells) == "narration" \in cells /\ "date" \notin cells   \* mutant
Continues(head, cells) == "narration" \in cells /\ \A c \in Keys(head) : ~Fills(cells, c)
AddLine(head, merged, line) ==
    IF merged # <<>> /\ Continues(head, line.cells)
    THEN [merged EXCEPT ![Len(merged)].text = @ \cup line.text,
                        ![Len(merged)].cells = @ \cup {"narration"}]
    ELSE Append(merged, line)
MergeContinuationRows(head, lines) ==
    LET to[n \in 0..Len(lines)] == IF n = 0 THEN <<>> ELSE AddLine(head, to[n - 1], lines[n])
    IN to[Len(lines)]

Readable(cells) == {"date", "narration"} \subseteq cells
Transaction(number, line, confidence) ==
    [number |-> number, at |-> line.at, text |-> line.text, confidence |-> confidence]

(* The numbers count the merged rows, skipped ones too.                    *)
ReadablePlaces(merged) == Ordered({k \in DOMAIN merged : Readable(merged[k].cells)}, Len(merged))
Numbered(merged) ==
    LET at == ReadablePlaces(merged)
    IN [n \in DOMAIN at |-> Transaction(at[n], merged[at[n]], None)]

(* The transactions of the rows; none: StatementParserError.               *)
ParseRows(rows) ==
    LET lines == Lines(rows)
        at == DetectColumns([i \in DOMAIN lines |-> lines[i].cells])
        head == lines[at].cells
        below == SubSeq(lines, at + 1, Len(lines))
    IN IF at = 0 \/ lines = <<>> THEN <<>>
       ELSE Numbered(MergeContinuationRows(head, [k \in DOMAIN below |-> Headed(head, below[k])]))

(* parse_text_transactions: a line is taken by itself.                     *)
ParseText(rows) ==
    LET at == Ordered({i \in DOMAIN rows : Complete(rows[i])}, Len(rows))
    IN [k \in DOMAIN at |-> Transaction(k, Line(rows, at[k]), None)]

(* _ocr_fallback without a header: every row with a date, its own          *)
(* confidence; a transaction may have no narration.                        *)
DatedRows(rows) ==
    LET at == Ordered({i \in DOMAIN rows : "date" \in rows[i]}, Len(rows))
    IN [k \in DOMAIN at |-> Transaction(k, Line(rows, at[k]), at[k])]

(* The confidence of a parsed row is looked up by its number behind the    *)
(* header, among the rows as OCR gave them.                                *)
WithConfidence(transactions, rows) ==
    LET head == IF DetectColumns(rows) = 0 THEN 1 ELSE DetectColumns(rows)
    IN [k \in DOMAIN transactions |-> [transactions[k] EXCEPT !.confidence =
          LET at == head + transactions[k].number IN IF at <= Len(rows) THEN at ELSE None]]

(***************************************************************************)
(* The sources of a PDF in turn.                                           *)
(***************************************************************************)
Go(next) == pc' = next /\ UNCHANGED <<file, pdf>>
End(outcome) == result' = outcome /\ Go("done")
Read(source, transactions) == [source |-> source, error |-> None, transactions |-> transactions]
Refused(error) == [source |-> None, error |-> error, transactions |-> <<>>]
NoOcr == UNCHANGED <<env, polls, object, found, failed>>

(* CSV and Excel files, which pass their rows on; one that cannot be       *)
(* decoded raises whatever its library raises.                             *)
ReadRows ==
    /\ pc = "read"
    /\ \/ LET transactions == ParseRows(file.rows) IN
            End(IF transactions = <<>> THEN Refused("parser") ELSE Read("rows", transactions))
       \/ End(Refused("unexpected"))
    /\ NoOcr

(* A missing or wrong password, or a file pdfplumber cannot read.          *)
RefusePdf ==
    /\ pc = "read"
    /\ \E error \in {"password", "pdf"} : End(Refused(error))
    /\ NoOcr

OpenPdf ==
    /\ pc = "read"
    /\ pdf' \in [text : {"none", "margins", "all"}]
    /\ pc' = "tables"
    /\ UNCHANGED <<file, result>> /\ NoOcr

Visible == IF pdf.text = "all" THEN file.rows ELSE [i \in DOMAIN file.rows |-> Blank]
(* Ruled tables are found or not, and on a page without text too: their    *)
(* cells are empty there.                                                  *)
TryTables ==
    /\ pc = "tables"
    /\ \/ ParseRows(Visible) # <<>> /\ End(Read("rows", ParseRows(Visible)))
       \/ Go("text") /\ UNCHANGED result
    /\ NoOcr

TryText ==
    /\ pc = "text"
    /\ IF ParseText(Visible) # <<>> THEN End(Read("text", ParseText(Visible)))
       ELSE Go("ocr") /\ UNCHANGED result
    /\ NoOcr

(* OCR after a text layer without transactions is the last resort: all its *)
(* errors become one refusal.  Otherwise only a RuntimeError does.         *)
LastResort ==
    \/ pdf.text = "margins"
    \/ pdf.text = "all" /\ \E i \in DOMAIN file.rows : file.rows[i] # Blank
OcrEnds(error) ==
    End(Refused(IF error = "runtime" \/ LastResort THEN "parser" ELSE "unexpected"))

(***************************************************************************)
(* OCR.                                                                    *)
(***************************************************************************)
(* get_ocr_engine: by the OCR_ENGINE setting, the probe of the AWS account *)
(* and the local binary.                                                   *)
Engine(e) ==
    IF e.mode # "tesseract" /\ e.aws THEN "textract"
    ELSE IF e.mode # "textract" /\ e.local THEN "tesseract" ELSE "none"
ChooseEngine ==
    /\ pc = "ocr"
    /\ \E e \in [mode : {"tesseract", "textract", "auto"}, aws : BOOLEAN, local : BOOLEAN] :
        /\ env' = e
        /\ CASE Engine(e) = "none" -> OcrEnds("runtime")
             [] Engine(e) = "tesseract" -> Go("tesseract") /\ UNCHANGED result
             [] OTHER -> \E async \in BOOLEAN :
                  Go(IF async THEN "upload" ELSE "call") /\ UNCHANGED result
    /\ UNCHANGED <<polls, object, found, failed>>

(* Textract fails: in auto mode the local engine is tried.                 *)
FallBackNever(error) ==                                            \* mutant
    /\ failed' = failed \cup {"textract"}
    /\ OcrEnds(error)
FallBack(error) ==
    /\ failed' = failed \cup {"textract"}
    /\ IF env.mode = "auto" /\ env.local THEN Go("tesseract") /\ UNCHANGED result
       ELSE OcrEnds(IF env.mode = "auto" THEN "runtime" ELSE error)

(* The rows of the tables Textract sees: all, some or none of the document;*)
(* blank rows are kept.                                                    *)
Picked(S) == LET at == Ordered(S, Len(file.rows)) IN [k \in DOMAIN at |-> file.rows[at[k]]]
TextractRows == {Picked(S) : S \in SUBSET DOMAIN file.rows}
CallTextract ==
    /\ pc = "call"
    /\ \/ found' \in TextractRows /\ Go("convert") /\ UNCHANGED <<failed, result>>
       \/ FallBack("runtime") /\ UNCHANGED found
    /\ UNCHANGED <<env, polls, object>>

(* It stands before the try: a failure after S3 has stored the object      *)
(* leaves it there.                                                        *)
Upload ==
    /\ pc = "upload"
    /\ \/ object' = "stored" /\ Go("start") /\ UNCHANGED <<failed, result>>
       \/ FallBack("client") /\ object' \in {"none", "kept"}
    /\ UNCHANGED <<env, polls, found>>

(* The finally clause: the object is deleted, or the failure is logged.    *)
CleanUp(then) == object' \in {"none", "kept"} /\ then
AsyncFails(error) == CleanUp(FallBack(error)) /\ polls' = 0 /\ UNCHANGED found
StartJob ==
    /\ pc = "start"
    /\ \/ Go("poll") /\ UNCHANGED <<polls, object, found, failed, result>>
       \/ AsyncFails("client")
    /\ UNCHANGED env
(* A poll: succeeded, still running, or failed; the polls are limited.     *)
Poll ==
    /\ pc = "poll"
    /\ \/ Go("pages") /\ polls' = 0 /\ UNCHANGED <<object, found, failed, result>>
       \/ /\ polls + 1 < MaxPolls /\ polls' = polls + 1
          /\ UNCHANGED <<file, pdf, pc, object, found, failed, result>>
       \/ \E error \in {"runtime", "client"} : AsyncFails(error)
    /\ UNCHANGED env
(* The pages of the result are fetched one after the other.                *)
Pages ==
    /\ pc = "pages"
    /\ \/ CleanUp(found' \in TextractRows /\ Go("convert")) /\ UNCHANGED <<polls, failed, result>>
       \/ AsyncFails("client")
    /\ UNCHANGED env

(* Local OCR keeps no row without text.                                    *)
TesseractRows == Picked({i \in DOMAIN file.rows : file.rows[i] # Blank})
Tesseract ==
    /\ pc = "tesseract"
    /\ \/ found' = TesseractRows /\ Go("convert") /\ UNCHANGED <<failed, result>>
       \/ /\ \E error \in {"runtime", "other"} : OcrEnds(error)
          /\ failed' = failed \cup {"tesseract"} /\ UNCHANGED found
    /\ UNCHANGED <<env, polls, object>>

(* The rows OCR found become transactions.                                 *)
Convert ==
    /\ pc = "convert"
    /\ LET parsed == ParseRows(found) IN
        End(CASE parsed # <<>> -> Read("ocr", WithConfidence(parsed, found))
              [] parsed = <<>> /\ DatedRows(found) # <<>> -> Read("dates", DatedRows(found))
              [] OTHER -> Refused("parser"))
    /\ NoOcr

Done == pc = "done" /\ UNCHANGED vars

Next ==
    \/ ReadRows \/ RefusePdf \/ OpenPdf \/ TryTables \/ TryText
    \/ ChooseEngine \/ CallTextract \/ Upload \/ StartJob \/ Poll \/ Pages
    \/ Tesseract \/ Convert \/ Done

Spec == Init /\ [][Next]_vars

(***************************************************************************)
(* Correctness.                                                            *)
(***************************************************************************)
(* The rows the result was made of, and their header.                      *)
Used == IF result.source \in {"ocr", "dates"} THEN found ELSE file.rows
Top(rows) ==
    LET full == Filled(rows)
        heads == {k \in DOMAIN full : k <= HeaderWindow /\ rows[full[k]] = Header}
    IN full[IF heads # {} THEN Min(heads) ELSE 1]
(* What the header leaves of the rows; a recognised one leaves everything. *)
Heading(rows) == rows[Top(rows)]
View(rows) ==
    IF Heading(rows) = Header THEN rows ELSE [i \in DOMAIN rows |-> Under(Heading(rows), rows[i])]
Told(rows, i) == "narration" \in rows[i] /\ (Heading(rows) = Header \/ "narration" \notin Lost(Heading(rows)))
(* Row j is taken for a continuation row, and so it carries on row i.      *)
Joins(rows, j) ==
    IF Heading(rows) = Header THEN rows[j] = Continuation /\ "narration" \notin file.named
    ELSE Continues(Heading(rows), View(rows)[j])
CarriesOn(rows, i, j) ==
    /\ i < j /\ Joins(rows, j)
    /\ \A k \in i + 1..j : rows[k] = Blank \/ Joins(rows, k)
Narration(rows, i) == {j \in DOMAIN rows : Told(rows, j) /\ (j = i \/ CarriesOn(rows, i, j))}
Narrated(rows, i) == "narration" \in View(rows)[i] \/ \E j \in DOMAIN rows : CarriesOn(rows, i, j)
Begins(rows, i) ==
    /\ i > Top(rows)
    /\ Joins(rows, i) => \A k \in Top(rows) + 1..i - 1 : rows[k] = Blank
Dated(rows) == {i \in DOMAIN rows : "date" \in rows[i]}
Shifted(rows, i) == \E k \in 1..i - 1 : rows[k] = Blank \/ (k > Top(rows) /\ Joins(rows, k))
AreRows(source, ts, rows) ==
    /\ \A k \in DOMAIN ts \ {1} : ts[k - 1].at < ts[k].at /\ ts[k - 1].number < ts[k].number
    /\ {ts[k].at : k \in DOMAIN ts} =
         CASE source \in {"rows", "ocr"} ->
                {i \in DOMAIN rows : "date" \in View(rows)[i] /\ Narrated(rows, i) /\ Begins(rows, i)}
           [] source = "text" -> {i \in Dated(rows) : Complete(rows[i])}
           [] source = "dates" -> Dated(rows)
    /\ \A k \in DOMAIN ts :
         LET t == ts[k] IN
         /\ t.text = IF source \in {"rows", "ocr"} THEN Narration(rows, t.at)
                     ELSE {t.at} \cap {i \in DOMAIN rows : "narration" \in rows[i]}
         /\ source = "dates" => t.confidence = t.at
         /\ source = "ocr" => t.confidence = t.at \/ Shifted(rows, t.at)

(* The transactions are exactly the rows they should be, in the order of   *)
(* the document, each with its own narration and the continuation rows     *)
(* below it, in increasing numbers: with a header, the dated rows below it *)
(* that have a narration; in a text layer, the complete lines; without a   *)
(* header, all dated rows.  Where template columns make the first row the  *)
(* header, its blank headings lose columns and every later row with a      *)
(* narration is merged into the first, unless the heading of a filled cell *)
(* reads like a date or an amount: then too the result is what is said     *)
(* here, but not the transactions of the document.  The OCR confidence is  *)
(* the row's own unless a merged or blank row above has shifted it.        *)
TransactionsAreRows ==
    result # None /\ result.error = None => AreRows(result.source, result.transactions, Used)

(* A document is refused as unreadable only when no source had anything: a *)
(* PDF whose rows are visible and complete never; a scan with a dated row  *)
(* only if no engine can be used, the last one usable failed, or Textract  *)
(* answered with tables that have no date in them: then local Tesseract is *)
(* not tried, whatever the setting.  The S3 copy of the document does not  *)
(* outlive the reading unless its deletion failed or the upload raised     *)
(* after S3 had stored it.                                                 *)
RefusedOnlyUnread ==
    pc = "done" =>
    /\ object # "stored"
    /\ (result.error = "parser" \/ result.error = "unexpected") /\ pdf # None =>
        /\ \A i \in DOMAIN Visible : ~Complete(Visible[i])
        /\ \/ \A i \in DOMAIN file.rows : "date" \notin file.rows[i]
           \/ Engine(env) = "none"
           \/ "tesseract" \in failed
           \/ "textract" \in failed /\ ~(env.mode = "auto" /\ env.local)
           \/ /\ Engine(env) = "textract" /\ failed = {}
              /\ \A i \in DOMAIN found : "date" \notin found[i]

(***************************************************************************)
(* The inductive invariant: a reading goes on only while no source has had *)
(* anything, and what OCR found is what the engine in use may see of the   *)
(* document.                                                               *)
(***************************************************************************)
Ocr == {"ocr", "upload", "call", "start", "poll", "pages", "tesseract"}
Types ==
    /\ file.rows \in Seq(Row) /\ failed \subseteq {"textract", "tesseract"}
    /\ pc \in {"read", "tables", "text", "convert", "done"} \cup Ocr
    /\ IF pc = "read" THEN pdf = None
       ELSE pc # "done" => pdf \in [text : {"none", "margins", "all"}]
FoundInv ==
    /\ pc \in {"read", "tables", "text"} \cup Ocr => found = <<>>
    /\ pc \in {"read", "tables", "text"} \cup (Ocr \ {"tesseract"}) => failed = {}
    /\ pc \in {"upload", "call", "start", "poll", "pages"} => Engine(env) = "textract"
    /\ pc = "convert" => \/ found \in TextractRows /\ failed = {} /\ Engine(env) = "textract"
                         \/ found = TesseractRows
    /\ object = "stored" => pc \in {"start", "poll", "pages"}
    /\ pc \in Ocr \cup {"convert"} => \A i \in DOMAIN Visible : ~Complete(Visible[i])
    /\ pc # "done" => result = None
IInv == Types /\ FoundInv /\ RefusedOnlyUnread /\ TransactionsAreRows
=============================================================================
