------------------------------- MODULE MCArchives -------------------------------
(* Archives on a small instance: two tables, the first names the uploads.  *)
EXTENDS Archives

MCTables == <<"users", "expenses">>
================================================================================
