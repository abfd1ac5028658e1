---------------------------- MODULE MigrationLedger ----------------------------
(***************************************************************************)
(* What RunMigrations promises, with no lock, session or transaction in    *)
(* sight: the migrations take effect one after the other, each at one      *)
(* instant and once, whichever copy of the service applies it, and a copy  *)
(* serves only after the last of them.                                     *)
(***************************************************************************)
EXTENDS Integers

CONSTANTS Boot,   \* the starts of the service
          Latest, \* the number of migrations
          Made    \* Made[k]: the schema that the first k migrations make

VARIABLES applied, \* how many migrations have taken effect
          schema,  \* the schema that every client of the database sees
          serving  \* the starts that went on to serve

vars == <<applied, schema, serving>>

(* A database of any release; its tables may be older than any migration.  *)
Init ==
    /\ applied \in 0 .. Latest
    /\ schema = Made[applied] \/ (applied = 0 /\ schema = Made[1])
    /\ serving = {}

Migrate ==
    /\ applied < Latest
    /\ applied' = applied + 1
    /\ schema' = Made[applied']
    /\ UNCHANGED serving

Serve(b) ==
    /\ applied = Latest /\ schema = Made[Latest]
    /\ b \notin serving
    /\ serving' = serving \cup {b}
    /\ UNCHANGED <<applied, schema>>

Next == Migrate \/ \E b \in Boot : Serve(b)

Spec == Init /\ [][Next]_vars
==============================================================================
