------------------------------ MODULE OrmUpdate ------------------------------
(***************************************************************************)
(* How a repository's read-modify-write reaches a row (SQLAlchemy, used by *)
(* src/backend/app/infrastructure/repositories.py).  The repository        *)
(* SELECTs the row without a lock and assigns its attributes; the flush    *)
(* then issues an UPDATE of those columns only whose assigned value is not *)
(* the SELECTed one, over whatever the row holds by then.                  *)
(***************************************************************************)

Updated(current, selected, wanted) ==
    [column \in DOMAIN current |->
        IF wanted[column] # selected[column] THEN wanted[column] ELSE current[column]]

=============================================================================
