-------------------------------- MODULE Db --------------------------------
(* Tables of the api's databases. A table is a set of rows, a row is a record     *)
(* with a field id that MySQL assigns (AUTO_INCREMENT: an id is never given       *)
(* twice). These are the statements of gorm that the controllers use.             *)
EXTENDS Naturals, FiniteSets

(* The ids of a table. *)
Ids(T) == {r.id : r \in T}

(* Find by primary key: the row with that id. *)
Row(T, i) == CHOOSE r \in T : r.id = i

(* Delete by primary key: deleting a row that is not there is no error. *)
Without(T, i) == {r \in T : r.id # i}

(* Save of a row that was read before: all columns are written, and a row that    *)
(* was deleted in between is inserted again (an update of no row is followed by   *)
(* FirstOrCreate).                                                                *)
Save(T, row) == Without(T, row.id) \cup {row}

============================================================================
