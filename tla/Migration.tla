------------------------------ MODULE Migration ------------------------------
(***************************************************************************)
(* scripts/migrate.py on PostgreSQL: runs that read the ledger once and    *)
(* then apply one file after the other, each in a transaction with its     *)
(* line of the ledger.  A file is its rank in the order of the names.      *)
(***************************************************************************)
EXTENDS Naturals, Sequences

CONSTANTS
  Files,   \* bound: files the directory migrations may ever have
  Runs     \* bound: runs of the script at a time

ASSUME MigrationAssumption == Files \subseteq Nat \ {0}

VARIABLES
  numbered, \* whether later files are named after the ones there are
  files,    \* backend/migrations/*.sql
  ledger,   \* table schema_migrations
  applied,  \* the files whose statements have taken effect, one after the other
  run,      \* where each run is: done, the files still to come, dry
  pending   \* the file of the transaction a run has open, or 0

migrationVars == <<numbered, files, ledger, applied, run, pending>>

NoRun == [done |-> {}, todo |-> {}, dry |-> TRUE]

-----------------------------------------------------------------------------
(* Faulty variants, each a plausible slip; nothing in the model uses them. *)
NotUnique(f) == TRUE                   \* filename is no primary key
Unsorted(S)  == S                      \* glob without sorted
-----------------------------------------------------------------------------
MigrationInit ==
  /\ numbered \in BOOLEAN
  /\ files \in SUBSET Files
  /\ ledger = {} /\ applied = <<>>
  /\ run = [r \in Runs |-> NoRun] /\ pending = [r \in Runs |-> 0]

(* A later version of the backend brings another file.                     *)
Release(f) ==
  /\ f \notin files
  /\ numbered => \A g \in files : g < f
  /\ files' = files \cup {f}
  /\ UNCHANGED <<numbered, ledger, applied, run, pending>>

ReadLedger(r, dry) ==
  /\ run[r] = NoRun
  /\ run' = [run EXCEPT ![r] = [done |-> ledger, todo |-> files, dry |-> dry]]
  /\ UNCHANGED <<numbered, files, ledger, applied, pending>>

FirstOf(S) == {f \in S : \A g \in S : f <= g}
ToApply(r) == run[r].todo \ run[r].done

(* The statements and the INSERT of one transaction.  Those of the second  *)
(* of two racing runs wait for the first to commit, then the key of the    *)
(* ledger, if nothing else before it, makes the transaction fail.          *)
Begin(r) ==
  /\ pending[r] = 0 /\ ~run[r].dry
  /\ \E f \in FirstOf(ToApply(r)) : pending' = [pending EXCEPT ![r] = f]
  /\ UNCHANGED <<numbered, files, ledger, applied, run>>

Insertable(f) == f \notin ledger

Commit(r) ==
  /\ pending[r] # 0 /\ Insertable(pending[r])
  /\ ledger' = ledger \cup {pending[r]}
  /\ applied' = Append(applied, pending[r])
  /\ run' = [run EXCEPT ![r].todo = {g \in run[r].todo : pending[r] < g}]
  /\ pending' = [pending EXCEPT ![r] = 0]
  /\ UNCHANGED <<numbered, files>>

(* A statement raises, the run is killed, or it has nothing more to do.    *)
Ends(r) ==
  /\ run[r] # NoRun
  /\ run' = [run EXCEPT ![r] = NoRun] /\ pending' = [pending EXCEPT ![r] = 0]
  /\ UNCHANGED <<numbered, files, ledger, applied>>

MigrationNext ==
  \/ \E f \in Files : Release(f)
  \/ \E r \in Runs : \/ \E dry \in BOOLEAN : ReadLedger(r, dry)
                     \/ Begin(r) \/ Commit(r) \/ Ends(r)

MigrationSpec == MigrationInit /\ [][MigrationNext]_migrationVars
-----------------------------------------------------------------------------
(* Migrations build on one another.  Whatever was applied was applied on   *)
(* top of all earlier files and of no later one: over runs that race with  *)
(* an old ledger in hand, are killed between two files or meet a file that *)
(* was released meanwhile, the schema is one that the files in their order *)
(* make, up to one of them.                                                *)
SchemaIsAPrefix ==
  numbered => \A i \in 1..Len(applied) :
    {applied[j] : j \in 1..(i - 1)} = {f \in files : f < applied[i]}
=============================================================================
