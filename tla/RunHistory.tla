------------------------------ MODULE RunHistory ------------------------------
(***************************************************************************)
(* What the run history promises (server/runs.py): a map from run ids to   *)
(* what their saves wrote.  A save puts its run there in one step, whole;  *)
(* nobody ever changes it.  It goes when it is deleted, when its id is     *)
(* drawn again, or when a save finds that the directories are more than    *)
(* the cap, and then no more go than that.                                 *)
(***************************************************************************)
EXTENDS Naturals, FiniteSets

CONSTANTS
  RunIds,
  Contents,  \* what a save writes
  Keep       \* the cap

VARIABLES
  runs,  \* the runs of the history: run id -> what its save wrote
  rest,  \* the directories that are none: begun, or cut short
  saved  \* the run ids under which a save was completed

vars == <<runs, rest, saved>>

Init == /\ runs = [id \in {} |-> id]
        /\ rest = {} /\ saved = {}

Without(id) == [i \in DOMAIN runs \ {id} |-> runs[i]]

\* An id is drawn for a new run; an older one under it is lost.
Draw(id) == /\ runs' = Without(id)
            /\ rest' = rest \cup {id}
            /\ UNCHANGED saved

\* A run, or what is left of one, is removed, or some of it stays.
Remove(id) == /\ runs' = Without(id)
              /\ rest' \in {rest \ {id}, rest \cup {id}}
              /\ UNCHANGED saved

\* A save is completed, and kept are the runs that it leaves: as many as the cap
\* allows, and all of them, unless as many directories as that are left.
Save(id, written, kept) ==
  /\ id \in rest
  /\ kept \subseteq DOMAIN runs \cup {id} /\ Cardinality(kept) <= Keep
  /\ runs' = [i \in kept |-> IF i = id THEN written ELSE runs[i]]
  /\ rest' \subseteq rest \cup DOMAIN runs
  /\ \/ DOMAIN runs \cup rest \subseteq kept \cup rest'
     \/ Cardinality(kept \cup rest') >= Keep
  /\ saved' = saved \cup {id}

Next == \E id \in RunIds :
          \/ Draw(id) \/ Remove(id)
          \/ \E written \in Contents, kept \in SUBSET RunIds : Save(id, written, kept)

Spec == Init /\ [][Next]_vars

=============================================================================
