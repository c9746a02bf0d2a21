------------------------------- MODULE SnbCsv -------------------------------
(***************************************************************************)
(* The CSV files of an LDBC SNB input, as the loaders of the base graph    *)
(* and of the topology read them.  A file is its header and its rows; a    *)
(* cell that names a vertex holds an external id.                          *)
(***************************************************************************)
EXTENDS Integers, Sequences, SequencesExt

CONSTANTS
  Inputs,  \* directories of CSV files
  csv      \* input -> file -> [header, rows]

Empty == -1  \* an empty cell

\* Every reader by name takes the first column that has the name.
idx(file, column) == SelectInSeq(file.header, LAMBDA name : name = column)

Cell(file, row, column) == file.rows[row][idx(file, column)]

Rows(file) == DOMAIN file.rows

=============================================================================
