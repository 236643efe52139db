-------------------------- MODULE MCSqlTransaction --------------------------
(* Brackets three deep on each of the three databases.                     *)
EXTENDS SqlTransaction

MCDialects == {"MySQL", "PostgreSQL", "SQLite"}
MCLossy == {"PostgreSQL"}

=============================================================================
