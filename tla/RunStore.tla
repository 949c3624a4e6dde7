------------------------------- MODULE RunStore -------------------------------
(***************************************************************************)
(* The run history of server/runs.py: a directory per run with three files *)
(* in it, written one after the other under the store's lock, evicted down *)
(* to a cap, listed by readers that hold the lock only while they take the *)
(* names of the directories.  A write may fail, a removal may stop half    *)
(* way, and the process may die at any moment and leave what it had        *)
(* written.                                                                *)
(*                                                                         *)
(* A file is the save that wrote it: what a run holds is compared, never   *)
(* read.  A run id is a second and four hexadecimal digits, so two saves   *)
(* may draw the same one.  Eviction goes by the modification times of the  *)
(* directories, which tie and follow the wall clock: which ones go is left *)
(* open.                                                                   *)
(***************************************************************************)
EXTENDS Naturals, Sequences, FiniteSets

CONSTANTS
  Threads,   \* the server's worker threads
  RunIds,    \* run ids, in the order in which directories are listed
  Keep,      \* DEFAULT_RUNS_KEEP
  None

Files == <<"run", "graph", "payloads">>

ASSUME RunIdsAssumption == RunIds \subseteq Nat /\ IsFiniteSet(RunIds) /\ Keep \in Nat
ASSUME RunNoneAssumption == None \notin RunIds /\ None \notin Threads

VARIABLES
  disk,      \* the directories: run id -> what is in each of its files
  holder,    \* the thread in the store's lock
  op,        \* where each thread is in an operation of the store
  run,       \* the run it saves
  unread, found, \* a listing: directories yet to read, runs it reports
  torn,      \* ghost: runs a crash, a failed removal or eviction has cut short
  saved      \* ghost: runs a save has completed

vars == <<disk, holder, op, run, unread, found, torn, saved>>

File == {Files[i] : i \in DOMAIN Files}
Empty == [f \in File |-> None]
Whole(d) == \E t \in Threads : \A f \in File : d[f] = t

Init == /\ disk = [id \in {} |-> Empty]
        /\ holder = None
        /\ op = [t \in Threads |-> "none"]
        /\ run = [t \in Threads |-> None]
        /\ unread = [t \in Threads |-> {}] /\ found = [t \in Threads |-> {}]
        /\ torn = {} /\ saved = {}

Goto(t, s) == op' = [op EXCEPT ![t] = s]
Written(t) == {i \in DOMAIN Files : op[t] = Files[i]}

\* shutil.rmtree of the directories of ids, each of which goes or, where it
\* fails half way, stays with its run.json or without; what else is left in a
\* directory cut short is told apart by nothing here.
Rmtree(ids) ==
  \E left \in SUBSET ids : \E listed \in SUBSET {id \in left : disk[id]["run"] # None} :
    /\ disk' = [id \in (DOMAIN disk \ ids) \cup left |->
                  IF id \notin left THEN disk[id]
                  ELSE IF id \in listed THEN [Empty EXCEPT !["run"] = disk[id]["run"]] ELSE Empty]
    /\ torn' = torn \cup left

\* save: an id, the lock, the directory (exist_ok).
SaveBegin(t) ==
  /\ op[t] = "none" /\ holder = None
  /\ \E id \in RunIds :
       /\ run' = [run EXCEPT ![t] = id]
       /\ disk' = [i \in DOMAIN disk \cup {id} |-> IF i \in DOMAIN disk THEN disk[i] ELSE Empty]
  /\ holder' = t /\ Goto(t, Files[1])
  /\ UNCHANGED <<unread, found, torn, saved>>

\* The directory cannot be made.
SaveRefused(t) == /\ op[t] = "none" /\ holder = None
                  /\ Goto(t, "failed")
                  /\ UNCHANGED <<disk, holder, run, unread, found, torn, saved>>

\* One file is replaced whole, and the next is due, or the eviction.
SaveWrite(t) ==
  \E i \in Written(t) :
    /\ disk' = [disk EXCEPT ![run[t]][Files[i]] = t]
    /\ Goto(t, IF i < Len(Files) THEN Files[i + 1] ELSE "evict")
    /\ UNCHANGED <<holder, run, unread, found, torn, saved>>

\* Variant: what was written stays.
SaveFailsInPlace(t) == /\ Written(t) # {}
                       /\ holder' = None /\ Goto(t, "failed")
                       /\ UNCHANGED <<disk, run, unread, found, torn, saved>>

\* The write raises: the directory is removed and the exception goes on.
SaveFails(t) == /\ Written(t) # {}
                /\ holder' = None /\ Goto(t, "failed")
                /\ Rmtree({run[t]})
                /\ UNCHANGED <<run, unread, found, saved>>

\* Variant: the eviction takes the lock, which its caller holds.
EvictingLocks(t) == op[t] = "evict" /\ holder = None

\* The files are written, and _evict is called in the lock.
Evicting(t) == op[t] = "evict"

\* Variant: one more goes than the cap asks for.
EvictOneMore(t) ==
  /\ Evicting(t)
  /\ holder' = None /\ Goto(t, "saved")
  /\ \E ids \in SUBSET DOMAIN disk :
       /\ Cardinality(DOMAIN disk \ ids) <= Keep
       /\ ids # {} => Cardinality(DOMAIN disk \ ids) + 1 = Keep
       /\ Rmtree(ids)
  /\ saved' = saved \cup {run[t]}
  /\ UNCHANGED <<run, unread, found>>

\* The oldest directories are removed until Keep are left; the lock is given
\* back and the run id returned.
Evict(t) ==
  /\ Evicting(t)
  /\ holder' = None /\ Goto(t, "saved")
  /\ \E ids \in SUBSET DOMAIN disk :
       /\ Cardinality(DOMAIN disk \ ids) <= Keep
       /\ ids # {} => Cardinality(DOMAIN disk \ ids) = Keep
       /\ Rmtree(ids)
  /\ saved' = saved \cup {run[t]}
  /\ UNCHANGED <<run, unread, found>>

\* The directories cannot be listed (iterdir, is_dir): the save fails as a whole,
\* and the run that it has written stays.
EvictRaises(t) == /\ Evicting(t)
                  /\ holder' = None /\ Goto(t, "failed")
                  /\ torn' = torn \cup {run[t]}
                  /\ UNCHANGED <<disk, run, unread, found, saved>>

\* delete: DELETE /runs/{id}.
DeleteRun(id) == /\ holder = None /\ id \in DOMAIN disk
                 /\ Rmtree({id})
                 /\ UNCHANGED <<holder, op, run, unread, found, saved>>

\* Variant: the names are taken without the lock.
ListAnyTime(t) ==
  /\ op[t] = "none"
  /\ unread' = [unread EXCEPT ![t] = DOMAIN disk]
  /\ found' = [found EXCEPT ![t] = {}]
  /\ Goto(t, "list")
  /\ UNCHANGED <<disk, holder, run, torn, saved>>

\* list: the names of the directories, in the lock.
List(t) ==
  /\ op[t] = "none" /\ holder = None
  /\ unread' = [unread EXCEPT ![t] = DOMAIN disk]
  /\ found' = [found EXCEPT ![t] = {}]
  /\ Goto(t, "list")
  /\ UNCHANGED <<disk, holder, run, torn, saved>>

\* Then run.json of each, outside of it; a directory without one is passed over.
ListRead(t) ==
  /\ op[t] = "list" /\ unread[t] # {}
  /\ LET id == CHOOSE i \in unread[t] : \A j \in unread[t] : i <= j IN
     /\ unread' = [unread EXCEPT ![t] = @ \ {id}]
     /\ found' = [found EXCEPT ![t] = IF id \in DOMAIN disk /\ disk[id]["run"] # None
                                      THEN @ \cup {id} ELSE @]
  /\ UNCHANGED <<disk, holder, op, run, torn, saved>>

\* The answer is out.
ListAnswer(t) == /\ op[t] = "list" /\ unread[t] = {}
                 /\ Goto(t, "none")
                 /\ found' = [found EXCEPT ![t] = {}]
                 /\ UNCHANGED <<disk, holder, run, unread, torn, saved>>

\* _save_run_record returns the id of a run that was saved and None where save
\* raised; it goes into the answer and the run_completed event.
RecordRun(t) == /\ op[t] \in {"saved", "failed"}
                /\ run' = [run EXCEPT ![t] = IF op[t] = "saved" THEN @ ELSE None]
                /\ Goto(t, "recorded")
                /\ UNCHANGED <<disk, holder, unread, found, torn, saved>>

ExecuteAnswer(t) == /\ op[t] = "recorded"
                    /\ run' = [run EXCEPT ![t] = None]
                    /\ Goto(t, "none")
                    /\ UNCHANGED <<disk, holder, unread, found, torn, saved>>

\* The process dies, and the files stay as they are.  A removal it was at is one
\* that stopped half way (Rmtree).
Crash ==
  /\ torn' = torn \cup {run[t] : t \in {u \in Threads : Written(u) # {} \/ op[u] = "evict"}}
  /\ holder' = None
  /\ op' = [t \in Threads |-> "none"] /\ run' = [t \in Threads |-> None]
  /\ unread' = [t \in Threads |-> {}] /\ found' = [t \in Threads |-> {}]
  /\ UNCHANGED <<disk, saved>>

\* A step of a thread inside an operation.
Step(t) == \/ SaveWrite(t) \/ SaveFails(t) \/ Evict(t) \/ EvictRaises(t)
           \/ ListRead(t) \/ ListAnswer(t) \/ RecordRun(t) \/ ExecuteAnswer(t)

Next == \/ \E t \in Threads : SaveBegin(t) \/ SaveRefused(t) \/ List(t) \/ Step(t)
        \/ \E id \in RunIds : DeleteRun(id)
        \/ Crash

Spec == Init /\ [][Next]_vars

\* A worker thread keeps running.
FairSpec == Spec /\ \A t \in Threads : WF_vars(Step(t))

-----------------------------------------------------------------------------
\* Whoever gets the lock finds runs whose three files one and the same save
\* wrote: a write that failed has left nothing behind, and an id drawn twice no
\* mixture.  Only a crash, or a removal that failed, leaves half a run
\* (runs.py:183-199), and only an eviction that raised a whole one unsaved.
RunsAreWhole == holder = None => \A id \in DOMAIN disk \ torn : Whole(disk[id])

\* No more than Keep runs pile up, however many saves fail and whatever they had
\* written by then; only the remains of removals that failed, of evictions that
\* raised and of crashes are above the cap (runs.py:192-197, 249-268).
CapIsKept == holder = None => Cardinality(DOMAIN disk \ torn) <= Keep

\* A run that a listing shows, or an answer or an event names, has been saved
\* whole, or cut short by a crash, a failed removal or eviction: it is never one
\* whose files failed or whose save is under way (runs.py:111-131, service.py:936-939,
\* 1093-1097).
NamedRunsWereSaved ==
  \A t \in Threads : /\ found[t] \subseteq saved \cup torn
                     /\ op[t] = "recorded" /\ run[t] # None => run[t] \in saved

\* A thread is between the first step of a save and the last.
Saving(t) == op[t] \in File \cup {"evict"}

\* The runs that are being saved, one at most.
InHand == {run[t] : t \in {u \in Threads : Saving(u)}}

\* The runs that are neither being saved nor were cut short.
Settled == DOMAIN disk \ (torn \cup InHand)

History == INSTANCE RunHistory WITH
  runs <- [id \in Settled |-> disk[id]],
  rest <- DOMAIN disk \ Settled,
  Contents <- {[f \in File |-> t] : t \in Threads}

\* The files that saves write one by one, and remove when they fail, are a map
\* that a save changes in one step: a run that stands there is never altered, and
\* goes only by its deletion, by its id drawn again, or by an eviction that the
\* cap asks for (save, delete and _evict, runs.py).
ImplementsHistory == History!Spec

\* The lock is given back after every save, also one whose write raises, and the
\* save has an answer (runs.py:183-199).
SavesEnd == \A t \in Threads : holder = t ~> op[t] = "none"

=============================================================================
