------------------------------ MODULE MCTables ------------------------------
(***************************************************************************)
(* The two tables that stand alone, the flow table and the deduplication   *)
(* table, for TLC.  They share nothing, so a behaviour is one of either,   *)
(* with the other table as it was made.                                    *)
(***************************************************************************)
EXTENDS DpiSession, Dedup

\* 10.0.0.1 to 12.0.0.2 and back, and 10.0.0.11 to 2.0.0.2: the texts of the
\* first and of the last run together alike.
MCRecord ==
    {[src |-> <<"10.0.0.1">>, dst |-> <<"1", "2.0.0.2">>, rest |-> "502:read"],
     [src |-> <<"1", "2.0.0.2">>, dst |-> <<"10.0.0.1">>, rest |-> "502:read"],
     [src |-> <<"10.0.0.1", "1">>, dst |-> <<"2.0.0.2">>, rest |-> "502:read"]}

TablesInit == Init /\ DedupInit

TablesNext ==
    \/ calls = 0 /\ Next /\ UNCHANGED dedupVars
    \/ tick = 0 /\ DedupNext /\ UNCHANGED vars

TablesSpec == TablesInit /\ [][TablesNext]_<<vars, dedupVars>>

=============================================================================
