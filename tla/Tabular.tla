------------------------------ MODULE Tabular ------------------------------
(***************************************************************************)
(* Reports of n_tabular.c: a table whose columns grow to fit staged rows   *)
(* and are locked by its header, written into a report.  The caller makes  *)
(* the same calls twice, on a sizing report that only counts bytes and     *)
(* then on a report with a buffer; both are modelled side by side.         *)
(***************************************************************************)
EXTENDS Utf8

CONSTANTS Texts,       \* titles, labels and values (NULL is the empty text)
          Widths,      \* that columns and labels are asked to have
          Lines,       \* texts written outside the table
          MaxLen,      \* of the report's buffer
          CellLength,  \* of the copy of a staged value
          Initial,     \* NEXUS_TABULAR_BUFFERED_ROWS_INITIAL
          MaxColumns,  \* NEXUS_TABULAR_MAX_COLUMNS
          MaxRows,     \* bound: rows staged and written
          MaxOutside   \* bound: lines written outside the table

VARIABLES
  table,    \* columns, label, header_written, header_deferred, its title,
            \* buffered_rows, and the block of memory they are in
  offset,   \* of the sizing report
  bytes,    \* of the bounded report
  full,     \* what a report without a bound would hold (a history variable)
  fitted,   \* lines of the table's header and staged rows (a history variable)
  loose,    \* lines of its rows written later (a history variable)
  outside   \* lines written outside the table, for the bound

vars == <<table, offset, bytes, full, fitted, loose, outside>>

(* nexus_tabular_table_begin, on a report that has just been begun         *)
Init ==
  /\ \E width \in Widths :
       table = [columns |-> << >>, label |-> [title |-> << >>, width |-> width, fit |-> 0],
                title |-> << >>, written |-> FALSE, deferred |-> FALSE,
                rows |-> << >>, block |-> 0, capacity |-> 0]
  /\ offset = 0 /\ bytes = << >> /\ full = << >>
  /\ fitted = << >> /\ loose = << >> /\ outside = 0

-----------------------------------------------------------------------------
(* nexus_strings_display_width_get                                         *)
Width(s) == Measure(s, 2 * Len(s)).width

Times(byte, n) == [i \in 1 .. n |-> byte]

(* n_tabular_cell_write; Mutant: blanks fill up the bytes.                 *)
CellOfBytes(value, width, align) ==
  LET blanks == Times(" ", Max({0, width - Len(value)}))
      kept   == SubSeq(value, 1, Measure(value, width).bytes)
  IN  IF align = "right" THEN blanks \o kept ELSE kept \o blanks
Cell(value, width, align) ==
  LET blanks == Times(" ", Max({0, width - Width(value)}))
      kept   == SubSeq(value, 1, Measure(value, width).bytes)
  IN  IF align = "right" THEN blanks \o kept ELSE kept \o blanks

(* n_tabular_column_effective_width, of a column or of the label           *)
EffectiveWidth(column) == Max({column.width, column.fit, Width(column.title)})

(* The line of a row: its label and its cells, each as a column it is in.  *)
Line(label, name, columns, values) ==
  [text |-> FlattenSeq(<<Cell(name, label.width, "left")>> \o
              [i \in DOMAIN columns |-> <<"|">> \o Cell(values[i], columns[i].width, columns[i].align)])
            \o <<"LF">>,
   cut  |-> Width(name) > label.width \/ \E i \in DOMAIN columns : Width(values[i]) > columns[i].width]

(* n_tabular_table_separator_write                                         *)
Separator(label, columns) ==
  [text |-> FlattenSeq(<<Times("-", EffectiveWidth(label))>> \o
              [i \in DOMAIN columns |-> <<"|">> \o Times("-", EffectiveWidth(columns[i]))]) \o <<"LF">>,
   cut  |-> FALSE]

(* n_tabular_report_append_bytes, _char and _repeat: a byte of the buffer  *)
(* is left for the terminator.                                             *)
Appended(s, t) == s \o SubSeq(t, 1, Max({0, Min({Len(t), MaxLen - Len(s) - 1})}))

Draw(lines) ==
  LET text == FlattenSeq([i \in DOMAIN lines |-> lines[i].text]) IN
  /\ offset' = offset + Len(text)
  /\ bytes' = Appended(bytes, text)
  /\ full' = full \o text

-----------------------------------------------------------------------------
ColumnAdd(title, width, align) ==
  /\ ~table.written /\ table.rows = << >> /\ Len(table.columns) < MaxColumns
  /\ table' = [table EXCEPT !.columns =
                 Append(@, [title |-> title, width |-> width, fit |-> 0, align |-> align])]
  /\ UNCHANGED <<offset, bytes, full, fitted, loose, outside>>

(* nexus_tabular_table_column_fit and _label_fit                           *)
Fitted(column, value) == [column EXCEPT !.fit = Max({@, Width(value)})]

ColumnFit(i, value) ==
  /\ ~table.written
  /\ table' = [table EXCEPT !.columns[i] = Fitted(@, value)]
  /\ UNCHANGED <<offset, bytes, full, fitted, loose, outside>>

HeaderDefer(title) ==
  /\ ~table.written /\ ~table.deferred
  /\ table' = [table EXCEPT !.deferred = TRUE, !.title = title, !.label = Fitted(@, title)]
  /\ UNCHANGED <<offset, bytes, full, fitted, loose, outside>>

(* n_tabular_table_buffered_rows_ensure: the rows move to a larger block,  *)
(* and their pointers to the values they hold are bound to it again.       *)
Ensured(t) ==
  IF Len(t.rows) < t.capacity THEN t
  ELSE [t EXCEPT !.capacity = IF @ = 0 THEN Initial ELSE 2 * @,
                 !.block = @ + 1,
                 !.rows = [i \in DOMAIN @ |-> [@[i] EXCEPT !.pointers = t.block + 1]]]

(* The value is measured whole and kept as far as its copy has room.       *)
RowStage(name, values) ==
  LET t == Ensured(table)
      Kept(s) == Copy(s, CellLength).written
  IN
  /\ table.deferred /\ ~table.written /\ Len(table.rows) < MaxRows
  /\ table' = [t EXCEPT
       !.label = Fitted(@, name),
       !.columns = [i \in DOMAIN @ |-> Fitted(@[i], values[i])],
       !.rows = Append(@, [name |-> Kept(name), pointers |-> t.block,
                           values |-> [i \in DOMAIN values |-> Kept(values[i])]])]
  /\ UNCHANGED <<offset, bytes, full, fitted, loose, outside>>

(* n_tabular_table_header_emit: the layout is locked and its lines drawn.  *)
Locked(column) == [column EXCEPT !.width = EffectiveWidth(column), !.fit = 0]

HeaderEmit(title, rows) ==
  LET label   == Locked(Fitted(table.label, title))
      columns == [i \in DOMAIN table.columns |-> Locked(table.columns[i])]
      titles  == [i \in DOMAIN columns |-> columns[i].title]
  IN
  /\ ~table.written
  /\ fitted' = <<Line(label, title, [i \in DOMAIN columns |-> [columns[i] EXCEPT !.align = "left"]], titles),
                 Separator(label, columns)>> \o
               [i \in DOMAIN rows |-> Line(label, rows[i].name, columns, rows[i].values)]
  /\ Draw(fitted')
  /\ table' = [table EXCEPT !.label = label, !.columns = columns, !.written = TRUE, !.deferred = FALSE,
                            !.title = << >>, !.rows = << >>, !.capacity = 0]
  /\ UNCHANGED <<loose, outside>>

HeaderWrite(title) == ~table.deferred /\ HeaderEmit(title, << >>)

(* nexus_tabular_table_emit: the staged rows follow their header.          *)
Emit == table.deferred /\ HeaderEmit(table.title, table.rows)

RowWrite(name, values) ==
  /\ table.written /\ Len(fitted) + Len(loose) < 2 + MaxRows
  /\ LET line == Line(table.label, name, table.columns, values) IN
     /\ loose' = Append(loose, line)
     /\ Draw(<<line>>)
  /\ UNCHANGED <<table, fitted, outside>>

-----------------------------------------------------------------------------
(* nexus_tabular_report_vline: a line is cut between characters, and its   *)
(* end is written if there is room for it.  Mutant: the sizing pass does   *)
(* not count its end.                                                      *)
VLineUncounted(s) ==
  /\ outside < MaxOutside /\ outside' = outside + 1
  /\ offset' = offset + Len(s)
  /\ bytes' = IF Len(bytes) + 1 >= MaxLen THEN bytes
               ELSE Appended(bytes \o Copy(s, MaxLen - Len(bytes)).written, <<"LF">>)
  /\ full' = full \o s \o <<"LF">>
  /\ UNCHANGED <<table, fitted, loose>>
VLine(s) ==
  /\ outside < MaxOutside /\ outside' = outside + 1
  /\ offset' = offset + Len(s) + 1
  /\ bytes' = IF Len(bytes) + 1 >= MaxLen THEN bytes
               ELSE Appended(bytes \o Copy(s, MaxLen - Len(bytes)).written, <<"LF">>)
  /\ full' = full \o s \o <<"LF">>
  /\ UNCHANGED <<table, fitted, loose>>

Rows == [DOMAIN table.columns -> Texts]

Next ==
  \/ \E title \in Texts, width \in Widths, align \in {"left", "right"} : ColumnAdd(title, width, align)
  \/ \E i \in DOMAIN table.columns, value \in Texts : ColumnFit(i, value)
  \/ \E title \in Texts : HeaderDefer(title) \/ HeaderWrite(title)
  \/ \E name \in Texts, values \in Rows : RowStage(name, values) \/ RowWrite(name, values)
  \/ Emit
  \/ \E s \in Lines : VLine(s)

Spec == Init /\ [][Next]_vars

-----------------------------------------------------------------------------
(* The size counted by the sizing pass is the size of the report: a buffer *)
(* of required_size bytes receives all of it, a smaller one is filled to   *)
(* its last byte but one and never beyond.                                 *)
Sized ==
  /\ offset = Len(full)
  /\ Len(bytes) < MaxLen
  /\ offset < MaxLen => bytes = full

(* The lines of a table, its header, its separator and the rows staged     *)
(* before or written after them, all show the same width if no value was   *)
(* cut, and no staged value ever is; the pointers to staged values are     *)
(* into the block that holds them.                                         *)
Aligned ==
  /\ \A line \in ToSet(fitted) : ~line.cut
  /\ \A line \in ToSet(fitted \o loose) : ~line.cut => Width(line.text) = Width(fitted[1].text)
  /\ \A i \in DOMAIN table.rows : table.rows[i].pointers = table.block
=============================================================================
