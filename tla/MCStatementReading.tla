------------------------- MODULE MCStatementReading ------------------------
(* Documents of up to four rows: titles and continuation rows, headers,    *)
(* entries, totals, dates without a narration, blank rows.                 *)
EXTENDS StatementReading

MCFigures == <<"debit", "credit">>
MCRow == {Blank, Header, Continuation, {"date", "narration", "debit"},
          {"narration", "debit"}, {"date", "credit"}}
MCNamed == {{}, {"narration"}}
=============================================================================
