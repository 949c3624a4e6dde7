-------------------------- MODULE ServerThreadsProofs --------------------------
(***************************************************************************)
(* The two places where the threads of the server meet outside of the      *)
(* session store and the execution cache: the run history (RunStore), and  *)
(* the queues from which agents and clients are told (QueueReaders).       *)
(*                                                                         *)
(* Run history.  The property to prove speaks of the moments at which the  *)
(* lock is free.  In between, one run is in hand: it is the lock holder's, *)
(* and what is in it is known from how far its save has come.  All others  *)
(* that nothing has cut short are settled: whole, saved, and few enough.   *)
(*                                                                         *)
(* Queues.  An agent is registered before it looks, so a verdict that it   *)
(* did not see is in its queue.  What a client has got, followed by what   *)
(* is in the queue behind it, is what the walk has made, in order.         *)
(***************************************************************************)
EXTENDS RunStore, QueueReaders, FiniteSetTheorems, SequenceTheorems, WellFoundedInduction, TLAPS

Types ==
  /\ DOMAIN disk \subseteq RunIds
  /\ \A id \in DOMAIN disk : disk[id] \in [File -> Threads \cup {None}]
  /\ op \in [Threads -> {"none", "list", "evict", "saved", "failed", "recorded"} \cup File]
  /\ run \in [Threads -> RunIds \cup {None}]
  /\ unread \in [Threads -> SUBSET RunIds] /\ found \in [Threads -> SUBSET RunIds]

\* The lock is held by the thread that saves, whose directory is there and holds
\* the files that it has come past.
LockIsHeld == \A t \in Threads : Saving(t) <=> holder = t
Progress ==
  \A t \in Threads : Saving(t) =>
    /\ run[t] \in DOMAIN disk
    /\ op[t] # "run" => disk[run[t]]["run"] = t
    /\ op[t] \notin {"run", "graph"} => disk[run[t]]["graph"] = t
    /\ op[t] = "evict" => disk[run[t]]["payloads"] = t

SettledAreWhole == \A id \in Settled : Whole(disk[id])
SettledAreFew == Cardinality(Settled) <= Keep
SettledAreSaved == Settled \subseteq saved

\* Whatever a listing has yet to read, or reports, was once saved or cut short.
ListedWereSaved ==
  \A t \in Threads : /\ unread[t] \subseteq saved \cup torn
                     /\ found[t] \subseteq saved \cup torn
RecordedWereSaved ==
  \A t \in Threads : /\ op[t] = "saved" => run[t] \in saved
                     /\ op[t] = "recorded" => run[t] \in saved \cup {None}

RunInv == /\ Types /\ LockIsHeld /\ Progress
          /\ SettledAreWhole /\ SettledAreFew /\ SettledAreSaved
          /\ ListedWereSaved /\ RecordedWereSaved

-----------------------------------------------------------------------------
\* The three files.
LEMMA ThreeFiles ==
  /\ DOMAIN Files = 1 .. 3 /\ Len(Files) = 3
  /\ Files[1] = "run" /\ Files[2] = "graph" /\ Files[3] = "payloads"
  /\ File = {"run", "graph", "payloads"}
<1>1. /\ DOMAIN Files = 1 .. 3 /\ Len(Files) = 3
      /\ Files[1] = "run" /\ Files[2] = "graph" /\ Files[3] = "payloads"
  BY DEF Files
<1> QED
  BY <1>1 DEF File

\* A set of ids that is not empty has a least.
LEMMA LeastRunId ==
  ASSUME NEW S \in SUBSET RunIds, S # {}
  PROVE  \E i \in S : \A j \in S : i <= j
<1>1. S \in SUBSET Nat
  BY RunIdsAssumption
<1>2. PICK i \in S : \A j \in S : <<j, i>> \notin OpToRel(<, Nat)
  BY <1>1, NatLessThanWellFounded, WFMin
<1>3. \A j \in S : ~(j < i)
  BY <1>1, <1>2 DEF OpToRel
<1> QED
  BY <1>1, <1>3

\* There are as many runs as there are run ids at most.
LEMMA Few ==
  ASSUME NEW S \in SUBSET RunIds, NEW T \in SUBSET S
  PROVE  /\ IsFiniteSet(S) /\ Cardinality(S) \in Nat /\ Cardinality(T) \in Nat
         /\ Cardinality(T) <= Cardinality(S)
<1>1. IsFiniteSet(S)
  BY RunIdsAssumption, FS_Subset
<1> QED
  BY <1>1, FS_Subset, FS_CardinalityType

\* What a removal leaves: the directories it was not asked for, as they were; and
\* of the others none that does not count as cut short.
LEMMA Removed ==
  ASSUME Types, NEW ids \in SUBSET DOMAIN disk, Rmtree(ids)
  PROVE  /\ DOMAIN disk' \subseteq DOMAIN disk
         /\ torn \subseteq torn' /\ torn' \subseteq torn \cup ids
         /\ DOMAIN disk' \ torn' \subseteq DOMAIN disk \ ids
         /\ DOMAIN disk \ ids \subseteq DOMAIN disk'
         /\ \A id \in DOMAIN disk \ ids : disk'[id] = disk[id]
         /\ \A id \in DOMAIN disk' : disk'[id] \in [File -> Threads \cup {None}]
<1>0. PICK left \in SUBSET ids : \E listed \in SUBSET {id \in left : disk[id]["run"] # None} :
        /\ disk' = [id \in (DOMAIN disk \ ids) \cup left |->
                      IF id \notin left THEN disk[id]
                      ELSE IF id \in listed THEN [Empty EXCEPT !["run"] = disk[id]["run"]]
                      ELSE Empty]
        /\ torn' = torn \cup left
  BY DEF Rmtree
<1>1. PICK listed \in SUBSET {id \in left : disk[id]["run"] # None} :
        /\ disk' = [id \in (DOMAIN disk \ ids) \cup left |->
                      IF id \notin left THEN disk[id]
                      ELSE IF id \in listed THEN [Empty EXCEPT !["run"] = disk[id]["run"]]
                      ELSE Empty]
        /\ torn' = torn \cup left
  BY <1>0
<1>2. ASSUME NEW id \in left
      PROVE  /\ Empty \in [File -> Threads \cup {None}]
             /\ [Empty EXCEPT !["run"] = disk[id]["run"]] \in [File -> Threads \cup {None}]
  <2>1. disk[id]["run"] \in Threads \cup {None}
    BY ThreeFiles DEF Types
  <2> QED
    BY <2>1 DEF Empty
<1>3. \A id \in DOMAIN disk' : disk'[id] \in [File -> Threads \cup {None}]
  BY <1>1, <1>2 DEF Types
<1> QED
  BY <1>1, <1>3

\* The run in hand is the one of the thread that holds the lock.
LEMMA HandOfHolder ==
  /\ LockIsHeld => /\ holder = None => InHand = {}
                   /\ \A t \in Threads : holder = t => InHand = {run[t]}
  /\ LockIsHeld' => /\ holder' = None => InHand' = {}
                    /\ \A t \in Threads : holder' = t => InHand' = {run'[t]}
  BY RunNoneAssumption DEF LockIsHeld, InHand

\* A thread that writes is at one of the files.
LEMMA AtFile ==
  ASSUME NEW t \in Threads
  PROVE  /\ Written(t) # {} <=> op[t] \in File
         /\ \A i \in Written(t) : i \in 1 .. 3 /\ op[t] = Files[i]
  BY ThreeFiles DEF Written, File

USE DEF Goto

\* The types are kept.
LEMMA TypesStep ==
  ASSUME Types, LockIsHeld, Progress, [Next]_vars
  PROVE  Types'
<1>1. ASSUME NEW t \in Threads, SaveBegin(t) PROVE Types'
  <2>1. PICK id \in RunIds :
          /\ run' = [run EXCEPT ![t] = id]
          /\ disk' = [i \in DOMAIN disk \cup {id} |-> IF i \in DOMAIN disk THEN disk[i] ELSE Empty]
    BY <1>1 DEF SaveBegin
  <2>2. op' = [op EXCEPT ![t] = "run"] /\ UNCHANGED <<unread, found>>
    BY <1>1, ThreeFiles DEF SaveBegin
  <2>3. /\ DOMAIN disk' \subseteq RunIds
        /\ \A i \in DOMAIN disk' : disk'[i] \in [File -> Threads \cup {None}]
    BY <2>1 DEF Types, Empty
  <2> QED
    BY <2>1, <2>2, <2>3, ThreeFiles DEF Types
<1>2. ASSUME NEW t \in Threads, SaveWrite(t) PROVE Types'
  <2>1. PICK i \in Written(t) :
          /\ disk' = [disk EXCEPT ![run[t]][Files[i]] = t]
          /\ op' = [op EXCEPT ![t] = IF i < Len(Files) THEN Files[i + 1] ELSE "evict"]
          /\ UNCHANGED <<run, unread, found>>
    BY <1>2 DEF SaveWrite
  <2>2. i \in 1 .. 3 /\ op[t] = Files[i] /\ op[t] \in File
    BY <2>1, AtFile
  <2>3. run[t] \in DOMAIN disk
    BY <2>2 DEF Progress, Saving
  <2>4. op'[t] \in File \cup {"evict"} /\ op' = [op EXCEPT ![t] = op'[t]]
    BY <2>1, <2>2, ThreeFiles DEF Types
  <2>5. /\ DOMAIN disk' = DOMAIN disk
        /\ \A id \in DOMAIN disk' : disk'[id] \in [File -> Threads \cup {None}]
    BY <2>1, <2>2, <2>3 DEF Types
  <2> QED
    BY <2>1, <2>4, <2>5 DEF Types
<1>3. ASSUME NEW t \in Threads, SaveFails(t) PROVE Types'
  <2>1. op[t] \in File /\ Rmtree({run[t]}) /\ UNCHANGED <<run, unread, found>>
        /\ op' = [op EXCEPT ![t] = "failed"]
    BY <1>3, AtFile DEF SaveFails
  <2>2. run[t] \in DOMAIN disk
    BY <2>1 DEF Progress, Saving
  <2> QED
    BY <2>1, <2>2, Removed DEF Types
<1>4. ASSUME NEW t \in Threads, Evict(t) PROVE Types'
  <2>1. PICK ids \in SUBSET DOMAIN disk : Rmtree(ids)
    BY <1>4 DEF Evicting, Evict
  <2>2. UNCHANGED <<run, unread, found>> /\ op' = [op EXCEPT ![t] = "saved"]
    BY <1>4 DEF Evicting, Evict
  <2> QED
    BY <2>1, <2>2, Removed DEF Types
<1>5. ASSUME NEW id \in RunIds, DeleteRun(id) PROVE Types'
  <2>1. {id} \in SUBSET DOMAIN disk /\ Rmtree({id}) /\ UNCHANGED <<op, run, unread, found>>
    BY <1>5 DEF DeleteRun
  <2> QED
    BY <2>1, Removed DEF Types
<1>6. ASSUME NEW t \in Threads,
             \/ SaveRefused(t) \/ EvictRaises(t) \/ List(t) \/ ListAnswer(t)
             \/ RecordRun(t) \/ ExecuteAnswer(t)
      PROVE  Types'
  BY <1>6 DEF SaveRefused, Evicting, EvictRaises, List, ListAnswer, RecordRun, ExecuteAnswer, Types
<1>7. ASSUME NEW t \in Threads, ListRead(t) PROVE Types'
  <2>1. PICK id \in unread[t] : \A j \in unread[t] : id <= j
    BY <1>7, LeastRunId DEF ListRead, Types
  <2> DEFINE least == CHOOSE i \in unread[t] : \A j \in unread[t] : i <= j
  <2>2. least \in unread[t]
    BY <2>1
  <2>3. /\ unread' = [unread EXCEPT ![t] = @ \ {least}]
        /\ \/ found' = [found EXCEPT ![t] = @ \cup {least}]
           \/ found' = [found EXCEPT ![t] = @]
        /\ UNCHANGED <<disk, op, run>>
    BY <1>7 DEF ListRead
  <2> HIDE DEF least
  <2> QED
    BY <2>2, <2>3 DEF Types
<1>8. CASE Crash
  BY <1>8 DEF Crash, Types
<1>9. CASE UNCHANGED vars
  BY <1>9 DEF vars, Types
<1> QED
  BY <1>1, <1>2, <1>3, <1>4, <1>5, <1>6, <1>7, <1>8, <1>9 DEF Next, Step

\* The lock goes with the save.
LEMMA LockStep ==
  ASSUME Types, LockIsHeld, [Next]_vars
  PROVE  LockIsHeld'
<1> USE DEF Saving
<1>1. \A x \in {"none", "list", "saved", "failed", "recorded"} : x \notin File \cup {"evict"}
  BY ThreeFiles
<1>2. ASSUME NEW t \in Threads, NEW x, op' = [op EXCEPT ![t] = x],
             \/ Saving(t) /\ x \in File \cup {"evict"} /\ holder' = holder
             \/ Saving(t) /\ x \notin File \cup {"evict"} /\ holder' = None
             \/ ~Saving(t) /\ x \notin File \cup {"evict"} /\ holder' = holder
             \/ holder = None /\ x \in File \cup {"evict"} /\ holder' = t
      PROVE  LockIsHeld'
  BY <1>2, RunNoneAssumption DEF LockIsHeld, Types
<1>3. ASSUME NEW t \in Threads, SaveBegin(t) PROVE LockIsHeld'
  BY <1>2, <1>3, ThreeFiles DEF SaveBegin
<1>4. ASSUME NEW t \in Threads, SaveWrite(t) PROVE LockIsHeld'
  <2>1. PICK i \in Written(t) :
          op' = [op EXCEPT ![t] = IF i < Len(Files) THEN Files[i + 1] ELSE "evict"]
    BY <1>4 DEF SaveWrite
  <2>2. holder' = holder
    BY <1>4 DEF SaveWrite
  <2>3. i \in 1 .. 3 /\ Saving(t)
    BY <2>1, AtFile
  <2>4. (IF i < Len(Files) THEN Files[i + 1] ELSE "evict") \in File \cup {"evict"}
    BY <2>3, ThreeFiles
  <2> QED
    BY <1>2, <2>1, <2>2, <2>3, <2>4
<1>5. ASSUME NEW t \in Threads, SaveFails(t) \/ Evict(t) \/ EvictRaises(t) PROVE LockIsHeld'
  <2>1. Saving(t) /\ holder' = None
    BY <1>5, AtFile DEF SaveFails, Evicting, Evict, EvictRaises
  <2>2. op' = [op EXCEPT ![t] = "failed"] \/ op' = [op EXCEPT ![t] = "saved"]
    BY <1>5 DEF SaveFails, Evicting, Evict, EvictRaises
  <2> QED
    BY <1>1, <1>2, <2>1, <2>2
<1>6. ASSUME NEW t \in Threads,
             SaveRefused(t) \/ List(t) \/ ListAnswer(t) \/ RecordRun(t) \/ ExecuteAnswer(t)
      PROVE  LockIsHeld'
  <2>1. ~Saving(t) /\ holder' = holder
    BY <1>1, <1>6 DEF SaveRefused, List, ListAnswer, RecordRun, ExecuteAnswer
  <2>2. \E x \in {"none", "list", "failed", "recorded"} : op' = [op EXCEPT ![t] = x]
    BY <1>6 DEF SaveRefused, List, ListAnswer, RecordRun, ExecuteAnswer
  <2> QED
    BY <1>1, <1>2, <2>1, <2>2
<1>7. CASE UNCHANGED <<holder, op>>
  BY <1>7 DEF LockIsHeld
<1>8. CASE Crash
  BY <1>1, <1>8, RunNoneAssumption DEF Crash, LockIsHeld
<1> QED
  BY <1>3, <1>4, <1>5, <1>6, <1>7, <1>8 DEF Next, Step, DeleteRun, ListRead, vars

\* What is in hand has been written as far as its thread has come.
LEMMA ProgressStep ==
  ASSUME Types, LockIsHeld, Progress, [Next]_vars
  PROVE  Progress'
<1>1. ASSUME NEW t \in Threads, SaveBegin(t) PROVE Progress'
  <2>1. PICK id \in RunIds :
          /\ run' = [run EXCEPT ![t] = id]
          /\ disk' = [i \in DOMAIN disk \cup {id} |-> IF i \in DOMAIN disk THEN disk[i] ELSE Empty]
    BY <1>1 DEF SaveBegin
  <2>2. op' = [op EXCEPT ![t] = "run"] /\ \A u \in Threads : ~Saving(u)
    BY <1>1, ThreeFiles, RunNoneAssumption DEF SaveBegin, LockIsHeld
  <2> QED
    BY <2>1, <2>2, ThreeFiles DEF Types, Progress, Saving
<1>2. ASSUME NEW t \in Threads, SaveWrite(t) PROVE Progress'
  <2>1. PICK i \in Written(t) :
          /\ disk' = [disk EXCEPT ![run[t]][Files[i]] = t]
          /\ op' = [op EXCEPT ![t] = IF i < Len(Files) THEN Files[i + 1] ELSE "evict"]
          /\ UNCHANGED run
    BY <1>2 DEF SaveWrite
  <2>2. i \in 1 .. 3 /\ op[t] = Files[i] /\ Saving(t)
    BY <2>1, AtFile DEF Saving
  <2>3. run[t] \in DOMAIN disk /\ disk[run[t]] \in [File -> Threads \cup {None}]
    BY <2>2 DEF Progress, Types
  <2>4. DOMAIN disk' = DOMAIN disk /\ disk'[run[t]] = [disk[run[t]] EXCEPT ![Files[i]] = t]
    BY <2>1, <2>3
  <2>5. \A u \in Threads \ {t} : ~Saving(u) /\ op'[u] = op[u]
    BY <2>1, <2>2 DEF LockIsHeld
  <2>6. CASE i = 1
    BY <2>1, <2>2, <2>3, <2>4, <2>5, <2>6, ThreeFiles DEF Types, Progress, Saving
  <2>7. CASE i = 2
    BY <2>1, <2>2, <2>3, <2>4, <2>5, <2>7, ThreeFiles DEF Types, Progress, Saving
  <2>8. CASE i = 3
    BY <2>1, <2>2, <2>3, <2>4, <2>5, <2>8, ThreeFiles DEF Types, Progress, Saving
  <2> QED
    BY <2>2, <2>6, <2>7, <2>8
<1>3. ASSUME NEW t \in Threads, SaveFails(t) \/ Evict(t) \/ EvictRaises(t) PROVE Progress'
  <2>1. Saving(t)
    BY <1>3, AtFile DEF SaveFails, Evicting, Evict, EvictRaises, Saving
  <2>2. op' = [op EXCEPT ![t] = "failed"] \/ op' = [op EXCEPT ![t] = "saved"]
    BY <1>3 DEF SaveFails, Evicting, Evict, EvictRaises
  <2>3. \A u \in Threads : op'[u] \notin File \cup {"evict"}
    BY <2>1, <2>2, ThreeFiles DEF LockIsHeld, Types, Saving
  <2> QED
    BY <2>3 DEF Progress, Saving
<1>4. ASSUME NEW id \in RunIds, DeleteRun(id) PROVE Progress'
  <2>1. holder = None /\ UNCHANGED op
    BY <1>4 DEF DeleteRun
  <2> QED
    BY <2>1, RunNoneAssumption DEF LockIsHeld, Progress, Saving
<1>5. ASSUME NEW t \in Threads,
             \/ SaveRefused(t) \/ List(t) \/ ListRead(t) \/ ListAnswer(t)
             \/ RecordRun(t) \/ ExecuteAnswer(t)
      PROVE  Progress'
  <2>1. UNCHANGED disk /\ \A u \in Threads \ {t} : op'[u] = op[u] /\ run'[u] = run[u]
    BY <1>5 DEF SaveRefused, List, ListRead, ListAnswer, RecordRun, ExecuteAnswer, Types
  <2>2. op'[t] \in {"none", "list", "failed", "recorded"}
    BY <1>5 DEF SaveRefused, List, ListRead, ListAnswer, RecordRun, ExecuteAnswer, Types
  <2> QED
    BY <2>1, <2>2, ThreeFiles DEF Progress, Saving
<1>6. CASE Crash
  BY <1>6, ThreeFiles DEF Crash, Progress, Saving
<1>7. CASE UNCHANGED vars
  BY <1>7 DEF vars, Progress, Saving
<1> QED
  BY <1>1, <1>2, <1>3, <1>4, <1>5, <1>6, <1>7 DEF Next, Step

\* A run whose eviction raised is settled by it as little as by a crash.
LEMMA EvictRaisesWaits ==
  ASSUME LockIsHeld, LockIsHeld', NEW t \in Threads, EvictRaises(t)
  PROVE  Settled' = Settled /\ UNCHANGED <<disk, saved>>
<1>1. torn' = torn \cup {run[t]} /\ Saving(t) /\ holder' = None /\ UNCHANGED <<disk, saved>>
  BY DEF Evicting, EvictRaises, Saving
<1>2. InHand = {run[t]} /\ InHand' = {}
  BY <1>1, HandOfHolder DEF LockIsHeld
<1> QED
  BY <1>1, <1>2 DEF Settled

\* Every step but an eviction leaves a settled run as it is, or without its
\* standing, and settles none.
LEMMA SettledStay ==
  ASSUME Types, LockIsHeld, Progress, [Next]_vars, \A t \in Threads : ~Evict(t)
  PROVE  Settled' \subseteq Settled /\ \A id \in Settled' : disk'[id] = disk[id]
<1>0. LockIsHeld'
  BY LockStep
<1>1. ASSUME NEW t \in Threads, SaveBegin(t)
      PROVE  Settled' \subseteq Settled /\ \A id \in Settled' : disk'[id] = disk[id]
  <2>1. PICK id \in RunIds :
          /\ run' = [run EXCEPT ![t] = id]
          /\ disk' = [i \in DOMAIN disk \cup {id} |-> IF i \in DOMAIN disk THEN disk[i] ELSE Empty]
    BY <1>1 DEF SaveBegin
  <2>2. holder = None /\ holder' = t /\ torn' = torn
    BY <1>1 DEF SaveBegin
  <2>3. InHand = {} /\ InHand' = {id}
    BY <1>0, <2>1, <2>2, HandOfHolder DEF Types
  <2> QED
    BY <2>1, <2>2, <2>3 DEF Settled
<1>2. ASSUME NEW t \in Threads, SaveWrite(t)
      PROVE  Settled' \subseteq Settled /\ \A id \in Settled' : disk'[id] = disk[id]
  <2>1. PICK i \in Written(t) : disk' = [disk EXCEPT ![run[t]][Files[i]] = t]
    BY <1>2 DEF SaveWrite
  <2>2. Saving(t) /\ UNCHANGED <<holder, run, torn>>
    BY <1>2, <2>1, AtFile DEF SaveWrite, Saving
  <2>3. InHand = {run[t]} /\ InHand' = {run[t]}
    BY <1>0, <2>2, HandOfHolder DEF LockIsHeld
  <2> QED
    BY <2>1, <2>2, <2>3 DEF Settled
<1>3. ASSUME NEW t \in Threads, SaveFails(t)
      PROVE  Settled' \subseteq Settled /\ \A id \in Settled' : disk'[id] = disk[id]
  <2>1. Saving(t) /\ holder' = None /\ Rmtree({run[t]})
    BY <1>3, AtFile DEF SaveFails, Saving
  <2>2. InHand = {run[t]} /\ InHand' = {} /\ run[t] \in DOMAIN disk
    BY <1>0, <2>1, HandOfHolder DEF LockIsHeld, Progress
  <2>3. /\ DOMAIN disk' \ torn' \subseteq DOMAIN disk \ {run[t]} /\ torn \subseteq torn'
        /\ \A id \in DOMAIN disk \ {run[t]} : disk'[id] = disk[id]
    BY <2>1, <2>2, Removed
  <2> QED
    BY <2>2, <2>3 DEF Settled
<1>4. ASSUME NEW i \in RunIds, DeleteRun(i)
      PROVE  Settled' \subseteq Settled /\ \A id \in Settled' : disk'[id] = disk[id]
  <2>1. holder = None /\ holder' = None /\ i \in DOMAIN disk /\ Rmtree({i})
    BY <1>4 DEF DeleteRun
  <2>2. InHand = {} /\ InHand' = {}
    BY <1>0, <2>1, HandOfHolder
  <2>3. /\ DOMAIN disk' \ torn' \subseteq DOMAIN disk \ {i} /\ torn \subseteq torn'
        /\ \A id \in DOMAIN disk \ {i} : disk'[id] = disk[id]
    BY <2>1, Removed
  <2> QED
    BY <2>2, <2>3 DEF Settled
<1>5. ASSUME NEW t \in Threads,
             \/ SaveRefused(t) \/ List(t) \/ ListRead(t) \/ ListAnswer(t)
             \/ RecordRun(t) \/ ExecuteAnswer(t)
      PROVE  Settled' \subseteq Settled /\ \A id \in Settled' : disk'[id] = disk[id]
  <2>1. ~Saving(t) /\ UNCHANGED <<disk, holder, torn>>
        /\ \A u \in Threads \ {t} : run'[u] = run[u]
    BY <1>5, ThreeFiles DEF SaveRefused, List, ListRead, ListAnswer, RecordRun, ExecuteAnswer,
                            Saving, Types
  <2>2. InHand' = InHand
    <3>1. CASE holder = None
      BY <1>0, <2>1, <3>1, HandOfHolder
    <3>2. CASE holder # None
      <4>1. \A u \in Threads : Saving(u) => u # t /\ holder = u
        BY <2>1 DEF LockIsHeld
      <4>2. \A u \in Threads : Saving(u) <=> Saving(u)'
        BY <1>0, <2>1 DEF LockIsHeld
      <4> QED
        BY <2>1, <4>1, <4>2 DEF InHand
    <3> QED
      BY <3>1, <3>2
  <2> QED
    BY <2>1, <2>2 DEF Settled
<1>6. CASE Crash
  <2>1. torn' = torn \cup InHand /\ UNCHANGED disk
    BY <1>6, AtFile DEF Crash, InHand, Saving
  <2> QED
    BY <2>1 DEF Settled
<1>7. CASE UNCHANGED vars
  BY <1>7 DEF vars, Settled, InHand, Saving
<1>8. ASSUME NEW t \in Threads, EvictRaises(t)
      PROVE  Settled' \subseteq Settled /\ \A id \in Settled' : disk'[id] = disk[id]
  BY <1>0, <1>8, EvictRaisesWaits
<1> QED
  BY <1>1, <1>2, <1>3, <1>4, <1>5, <1>6, <1>7, <1>8 DEF Next, Step

\* An eviction settles the run in hand, which is whole by then, among Keep at most.
LEMMA SettledByEvict ==
  ASSUME Types, LockIsHeld, Progress, NEW t \in Threads, Evict(t)
  PROVE  /\ Settled' \subseteq Settled \cup {run[t]}
         /\ \A id \in Settled' : disk'[id] = disk[id]
         /\ Whole(disk[run[t]])
         /\ Cardinality(Settled') <= Keep
<1>1. PICK ids \in SUBSET DOMAIN disk : Cardinality(DOMAIN disk \ ids) <= Keep /\ Rmtree(ids)
  BY DEF Evicting, Evict
<1>2. op[t] = "evict" /\ Saving(t) /\ [Next]_vars /\ holder' = None
  BY DEF Evicting, Evict, Saving, Next, Step
<1>3. InHand = {run[t]} /\ InHand' = {}
  BY <1>2, LockStep, HandOfHolder DEF LockIsHeld
<1>4. Settled' \subseteq DOMAIN disk \ ids /\ torn \subseteq torn'
      /\ \A id \in DOMAIN disk \ ids : disk'[id] = disk[id]
  BY <1>1, <1>3, Removed DEF Settled
<1>5. Settled' \subseteq Settled \cup {run[t]}
  BY <1>3, <1>4 DEF Settled
<1>6. Whole(disk[run[t]])
  BY <1>2, ThreeFiles DEF Progress, Whole
<1>7. Cardinality(Settled') <= Keep
  <2>1. DOMAIN disk \ ids \in SUBSET RunIds
    BY DEF Types
  <2>2. /\ Cardinality(Settled') <= Cardinality(DOMAIN disk \ ids)
        /\ Cardinality(Settled') \in Nat /\ Cardinality(DOMAIN disk \ ids) \in Nat
    BY <1>4, <2>1, Few
  <2> QED
    BY <1>1, <2>2, RunIdsAssumption
<1> QED
  BY <1>4, <1>5, <1>6, <1>7

\* So settled runs are whole, few, and saved.
LEMMA SettledStep ==
  ASSUME Types, LockIsHeld, Progress, SettledAreWhole, SettledAreFew, SettledAreSaved, [Next]_vars
  PROVE  SettledAreWhole' /\ SettledAreFew' /\ SettledAreSaved'
<1>1. CASE \A t \in Threads : ~Evict(t)
  <2>1. Settled' \subseteq Settled /\ \A id \in Settled' : disk'[id] = disk[id]
    BY <1>1, SettledStay
  <2>2. saved \subseteq saved'
    BY <1>1 DEF Next, Step, SaveBegin, SaveRefused, SaveWrite, SaveFails, Evicting, EvictRaises, DeleteRun, List,
                ListRead, ListAnswer, RecordRun, ExecuteAnswer, Crash, vars
  <2>3. Settled \in SUBSET RunIds
    BY DEF Settled, Types
  <2>4. Cardinality(Settled') <= Keep
    BY <2>1, <2>3, Few, RunIdsAssumption DEF SettledAreFew
  <2> QED
    BY <2>1, <2>2, <2>4 DEF SettledAreWhole, SettledAreFew, SettledAreSaved, Whole
<1>2. ASSUME NEW t \in Threads, Evict(t)
      PROVE  SettledAreWhole' /\ SettledAreFew' /\ SettledAreSaved'
  <2>1. /\ Settled' \subseteq Settled \cup {run[t]}
        /\ \A id \in Settled' : disk'[id] = disk[id]
        /\ Whole(disk[run[t]]) /\ Cardinality(Settled') <= Keep
    BY <1>2, SettledByEvict
  <2>2. saved' = saved \cup {run[t]}
    BY <1>2 DEF Evicting, Evict
  <2> QED
    BY <2>1, <2>2 DEF SettledAreWhole, SettledAreFew, SettledAreSaved, Whole
<1> QED
  BY <1>1, <1>2

\* What was saved, or cut short, stays so.
LEMMA SavedGrow ==
  ASSUME Types, LockIsHeld, Progress, [Next]_vars
  PROVE  saved \subseteq saved' /\ torn \subseteq torn'
<1>1. ASSUME NEW t \in Threads, SaveFails(t) \/ Evict(t)
      PROVE  saved \subseteq saved' /\ torn \subseteq torn'
  BY <1>1 DEF SaveFails, Evicting, Evict, Rmtree
<1> QED
  BY <1>1 DEF Next, Step, SaveBegin, SaveRefused, SaveWrite, Evicting, EvictRaises, DeleteRun, Rmtree, List,
              ListRead, ListAnswer, RecordRun, ExecuteAnswer, Crash, vars

\* A listing takes the names of directories while none is in hand: of saved runs.
LEMMA ListedStep ==
  ASSUME Types, LockIsHeld, Progress, SettledAreSaved, ListedWereSaved, [Next]_vars
  PROVE  ListedWereSaved'
<1>0. saved \subseteq saved' /\ torn \subseteq torn'
  BY SavedGrow
<1>1. CASE UNCHANGED <<unread, found>>
  BY <1>0, <1>1 DEF ListedWereSaved
<1>2. ASSUME NEW t \in Threads, List(t) PROVE ListedWereSaved'
  <2>1. /\ holder = None /\ unread' = [unread EXCEPT ![t] = DOMAIN disk]
        /\ found' = [found EXCEPT ![t] = {}]
    BY <1>2 DEF List
  <2>2. DOMAIN disk \subseteq saved \cup torn
    BY <2>1, HandOfHolder DEF Settled, SettledAreSaved
  <2> QED
    BY <1>0, <2>1, <2>2 DEF ListedWereSaved, Types
<1>3. ASSUME NEW t \in Threads, ListRead(t) PROVE ListedWereSaved'
  <2> DEFINE least == CHOOSE i \in unread[t] : \A j \in unread[t] : i <= j
  <2>1. least \in unread[t]
    BY <1>3, LeastRunId DEF ListRead, Types
  <2>2. /\ unread' = [unread EXCEPT ![t] = @ \ {least}]
        /\ \/ found' = [found EXCEPT ![t] = @ \cup {least}]
           \/ found' = [found EXCEPT ![t] = @]
    BY <1>3 DEF ListRead
  <2> HIDE DEF least
  <2> QED
    BY <1>0, <2>1, <2>2 DEF ListedWereSaved, Types
<1>4. ASSUME NEW t \in Threads, ListAnswer(t) PROVE ListedWereSaved'
  BY <1>0, <1>4 DEF ListAnswer, ListedWereSaved, Types
<1>5. CASE Crash
  BY <1>5 DEF Crash, ListedWereSaved
<1> QED
  BY <1>1, <1>2, <1>3, <1>4, <1>5 DEF Next, Step, SaveBegin, SaveRefused, SaveWrite, SaveFails,
    Evicting, Evict, EvictRaises, DeleteRun, RecordRun, ExecuteAnswer, vars

\* An answer names the run that its own save has completed, or none.
LEMMA RecordedStep ==
  ASSUME Types, LockIsHeld, Progress, RecordedWereSaved, [Next]_vars
  PROVE  RecordedWereSaved'
<1>0. saved \subseteq saved' /\ torn \subseteq torn'
  BY SavedGrow
<1>1. ASSUME NEW t \in Threads, op'[t] \notin {"saved", "recorded"},
             \A u \in Threads \ {t} : op'[u] = op[u] /\ run'[u] = run[u]
      PROVE  RecordedWereSaved'
  BY <1>0, <1>1 DEF RecordedWereSaved
<1>2. ASSUME NEW t \in Threads, SaveWrite(t) PROVE RecordedWereSaved'
  <2>1. PICK i \in Written(t) :
          op' = [op EXCEPT ![t] = IF i < Len(Files) THEN Files[i + 1] ELSE "evict"]
    BY <1>2 DEF SaveWrite
  <2>2. i \in 1 .. 3 /\ UNCHANGED run
    BY <1>2, <2>1, AtFile DEF SaveWrite
  <2> QED
    BY <1>1, <2>1, <2>2, ThreeFiles DEF Types
<1>3. ASSUME NEW t \in Threads,
             \/ SaveBegin(t) \/ SaveRefused(t) \/ SaveFails(t) \/ EvictRaises(t)
             \/ List(t) \/ ListAnswer(t) \/ ExecuteAnswer(t)
      PROVE  RecordedWereSaved'
  BY <1>1, <1>3, ThreeFiles DEF SaveBegin, SaveRefused, SaveFails, Evicting, EvictRaises, List, ListAnswer,
                                ExecuteAnswer, Types
<1>4. ASSUME NEW t \in Threads, Evict(t) PROVE RecordedWereSaved'
  BY <1>0, <1>4 DEF Evicting, Evict, RecordedWereSaved, Types
<1>5. ASSUME NEW t \in Threads, RecordRun(t) PROVE RecordedWereSaved'
  BY <1>0, <1>5 DEF RecordRun, RecordedWereSaved, Types
<1>6. CASE Crash
  BY <1>6 DEF Crash, RecordedWereSaved
<1>7. CASE UNCHANGED <<op, run>>
  BY <1>0, <1>7 DEF RecordedWereSaved
<1> QED
  BY <1>2, <1>3, <1>4, <1>5, <1>6, <1>7 DEF Next, Step, DeleteRun, ListRead, vars

-----------------------------------------------------------------------------
LEMMA InitRunInv == Init => RunInv
<1> SUFFICES ASSUME Init PROVE RunInv
  OBVIOUS
<1>1. Types /\ LockIsHeld /\ Progress /\ ListedWereSaved /\ RecordedWereSaved
  BY ThreeFiles, RunNoneAssumption
     DEF Init, Types, LockIsHeld, Progress, Saving, ListedWereSaved, RecordedWereSaved
<1>2. Settled = {}
  BY DEF Init, Settled
<1> QED
  BY <1>1, <1>2, FS_EmptySet, RunIdsAssumption
     DEF RunInv, SettledAreWhole, SettledAreFew, SettledAreSaved

LEMMA RunInvariant == Spec => []RunInv
<1>1. RunInv /\ [Next]_vars => RunInv'
  BY TypesStep, LockStep, ProgressStep, SettledStep, ListedStep, RecordedStep DEF RunInv
<1> QED
  BY <1>1, InitRunInv, PTL DEF Spec

\* Whoever gets the lock finds runs that one save wrote whole, for any number of
\* threads and run ids, with any of them drawn twice, and however often a save or
\* a removal fails or the process dies (runs.py:183-199).
THEOREM RunsWhole == Spec => []RunsAreWhole
<1>1. RunInv => RunsAreWhole
  BY HandOfHolder DEF RunInv, SettledAreWhole, Settled, RunsAreWhole
<1> QED
  BY <1>1, RunInvariant, PTL

\* And no more of them than the cap (runs.py:249-268).
THEOREM CapKept == Spec => []CapIsKept
<1>1. RunInv => CapIsKept
  <2> SUFFICES ASSUME RunInv, holder = None PROVE Cardinality(DOMAIN disk \ torn) <= Keep
    BY DEF CapIsKept
  <2>1. DOMAIN disk \ torn = Settled
    BY HandOfHolder DEF RunInv, Settled
  <2> QED
    BY <2>1 DEF RunInv, SettledAreFew
<1> QED
  BY <1>1, RunInvariant, PTL

\* A listing reports, and an answer names, runs that were saved: the names are
\* taken while no save is under way (runs.py:111-131, service.py:936-939).
THEOREM NamedSaved == Spec => []NamedRunsWereSaved
<1>1. RunInv => NamedRunsWereSaved
  BY DEF RunInv, ListedWereSaved, RecordedWereSaved, NamedRunsWereSaved
<1> QED
  BY <1>1, RunInvariant, PTL

\* The history counts as the store does.
LEMMA HistoryCounts == \A S : History!Cardinality(S) = Cardinality(S)
BY DEF Cardinality, History!Cardinality

\* In terms of the history: nothing has happened.
LEMMA HistoryStutters ==
  ASSUME Settled' = Settled, DOMAIN disk' = DOMAIN disk, saved' = saved,
         \A id \in Settled : disk'[id] = disk[id]
  PROVE  UNCHANGED History!vars
BY DEF History!vars

\* One run is removed, or, where that fails, is no run any more.
LEMMA HistoryRemoves ==
  ASSUME Types, NEW id \in DOMAIN disk, Rmtree({id}), saved' = saved,
         InHand \subseteq {id}, InHand' = {}
  PROVE  History!Remove(id)
<1>1. /\ DOMAIN disk' \subseteq DOMAIN disk
      /\ torn \subseteq torn' /\ torn' \subseteq torn \cup {id}
      /\ DOMAIN disk' \ torn' \subseteq DOMAIN disk \ {id}
      /\ DOMAIN disk \ {id} \subseteq DOMAIN disk'
      /\ \A i \in DOMAIN disk \ {id} : disk'[i] = disk[i]
  BY Removed
<1>2. Settled' = Settled \ {id}
  BY <1>1 DEF Settled
<1>3. \A i \in Settled' : disk'[i] = disk[i]
  BY <1>1, <1>2 DEF Settled
<1>4. [i \in Settled |-> disk[i]]' = History!Without(id)
  BY <1>2, <1>3 DEF History!Without
<1>5. \/ (DOMAIN disk \ Settled)' = (DOMAIN disk \ Settled) \ {id}
      \/ (DOMAIN disk \ Settled)' = (DOMAIN disk \ Settled) \cup {id}
  BY <1>1, <1>2
<1> QED
  BY <1>4, <1>5 DEF History!Remove

\* An id is drawn: what stood under it is in hand, and settled no more.
LEMMA HistoryDraws ==
  ASSUME Types, LockIsHeld, LockIsHeld', NEW t \in Threads, SaveBegin(t)
  PROVE  \E id \in RunIds : History!Draw(id)
<1>1. PICK id \in RunIds :
        /\ run' = [run EXCEPT ![t] = id]
        /\ disk' = [i \in DOMAIN disk \cup {id} |-> IF i \in DOMAIN disk THEN disk[i] ELSE Empty]
  BY DEF SaveBegin
<1>2. holder = None /\ holder' = t /\ torn' = torn /\ saved' = saved
  BY DEF SaveBegin
<1>3. InHand = {} /\ InHand' = {id}
  BY <1>1, <1>2, HandOfHolder DEF Types
<1>4. Settled' = Settled \ {id} /\ DOMAIN disk' = DOMAIN disk \cup {id}
  BY <1>1, <1>2, <1>3 DEF Settled
<1>5. \A i \in Settled' : disk'[i] = disk[i]
  BY <1>1, <1>4 DEF Settled
<1>6. [i \in Settled |-> disk[i]]' = History!Without(id)
  BY <1>4, <1>5 DEF History!Without
<1>7. (DOMAIN disk \ Settled)' = (DOMAIN disk \ Settled) \cup {id}
  BY <1>4 DEF Settled
<1>8. History!Draw(id)
  BY <1>2, <1>6, <1>7 DEF History!Draw
<1> QED
  BY <1>8

\* The eviction completes the save: the run is there from now on, whole, unless
\* it is one of those that have to go.
LEMMA HistorySaves ==
  ASSUME Types, Types', LockIsHeld, Progress, NEW t \in Threads, Evict(t)
  PROVE  \E id \in RunIds : \E written \in {[f \in File |-> u] : u \in Threads},
           kept \in SUBSET RunIds : History!Save(id, written, kept)
<1> DEFINE written == [f \in File |-> t]
<1>0. PICK id : id = run[t]
  OBVIOUS
<1>1. PICK ids \in SUBSET DOMAIN disk :
        (ids # {} => Cardinality(DOMAIN disk \ ids) = Keep) /\ Rmtree(ids)
  BY DEF Evicting, Evict
<1>2. op[t] = "evict" /\ Saving(t) /\ saved' = saved \cup {id}
  BY <1>0 DEF Evicting, Evict, Saving
<1>3. InHand = {id} /\ id \in DOMAIN disk /\ DOMAIN disk \subseteq RunIds
  BY <1>0, <1>2, HandOfHolder DEF LockIsHeld, Progress, Types
<1>4. disk[id] = written
  <2>1. disk[id] \in [File -> Threads \cup {None}]
    BY <1>3 DEF Types
  <2>2. \A f \in File : disk[id][f] = t
    BY <1>0, <1>2, ThreeFiles DEF Progress
  <2> QED
    BY <2>1, <2>2
<1>5. /\ Settled' \subseteq Settled \cup {id} /\ Cardinality(Settled') <= Keep
      /\ \A i \in Settled' : disk'[i] = disk[i]
  BY <1>0, SettledByEvict
<1>6. /\ DOMAIN disk' \subseteq DOMAIN disk
      /\ DOMAIN disk \ ids \subseteq DOMAIN disk'
  BY <1>1, Removed
<1>7. Settled \subseteq DOMAIN disk /\ Settled' \subseteq DOMAIN disk' /\ id \notin Settled
  BY <1>3 DEF Settled
<1>8. [i \in Settled |-> disk[i]]'
        = [i \in Settled' |-> IF i = id THEN written ELSE [j \in Settled |-> disk[j]][i]]
  BY <1>4, <1>5
<1>9. \/ DOMAIN disk \subseteq DOMAIN disk'
      \/ Cardinality(DOMAIN disk') >= Keep
  <2>1. CASE ids = {}
    BY <1>6, <2>1
  <2>2. CASE ids # {}
    <3>1. /\ Cardinality(DOMAIN disk \ ids) <= Cardinality(DOMAIN disk')
          /\ Cardinality(DOMAIN disk \ ids) \in Nat /\ Cardinality(DOMAIN disk') \in Nat
      <4>1. DOMAIN disk' \in SUBSET RunIds
        BY DEF Types
      <4> QED
        BY <1>6, <4>1, Few
    <3> QED
      BY <1>1, <2>2, <3>1
  <2> QED
    BY <2>1, <2>2
<1>10. /\ DOMAIN [i \in Settled |-> disk[i]] \cup (DOMAIN disk \ Settled) = DOMAIN disk
       /\ Settled' \cup (DOMAIN disk \ Settled)' = DOMAIN disk'
  BY <1>7
<1>11. \/ DOMAIN [i \in Settled |-> disk[i]] \cup (DOMAIN disk \ Settled)
            \subseteq Settled' \cup (DOMAIN disk \ Settled)'
       \/ Cardinality(Settled' \cup (DOMAIN disk \ Settled)') >= Keep
  BY <1>9, <1>10
<1>12. /\ id \in DOMAIN disk \ Settled
       /\ Settled' \subseteq DOMAIN [i \in Settled |-> disk[i]] \cup {id}
       /\ (DOMAIN disk \ Settled)' \subseteq
            (DOMAIN disk \ Settled) \cup DOMAIN [i \in Settled |-> disk[i]]
  BY <1>3, <1>5, <1>6, <1>7
<1>13. PICK kept : kept = Settled'
  OBVIOUS
<1>14. written \in {[f \in File |-> u] : u \in Threads}
  OBVIOUS
<1> HIDE DEF written
<1>15. History!Save(id, written, kept)
  BY <1>2, <1>5, <1>8, <1>11, <1>12, <1>13, HistoryCounts DEF History!Save
<1>16. id \in RunIds /\ kept \in SUBSET RunIds
  BY <1>3, <1>5, <1>7, <1>13
<1> QED
  BY <1>14, <1>15, <1>16

\* Every other step of a thread, and a crash, leaves the history as it was.
LEMMA HistoryWaits ==
  ASSUME Types, LockIsHeld, LockIsHeld', Progress,
         \/ \E t \in Threads : \/ SaveRefused(t) \/ SaveWrite(t) \/ EvictRaises(t) \/ List(t)
                               \/ ListRead(t) \/ ListAnswer(t) \/ RecordRun(t) \/ ExecuteAnswer(t)
         \/ Crash \/ UNCHANGED vars
  PROVE  UNCHANGED History!vars
<1>1. ASSUME NEW t \in Threads, SaveWrite(t) PROVE UNCHANGED History!vars
  <2>1. PICK i \in Written(t) : disk' = [disk EXCEPT ![run[t]][Files[i]] = t]
    BY <1>1 DEF SaveWrite
  <2>2. Saving(t) /\ UNCHANGED <<holder, run, torn, saved>>
    BY <1>1, <2>1, AtFile DEF SaveWrite, Saving
  <2>3. InHand = {run[t]} /\ InHand' = {run[t]}
    BY <2>2, HandOfHolder DEF LockIsHeld
  <2>4. Settled' = Settled /\ DOMAIN disk' = DOMAIN disk
    BY <2>1, <2>2, <2>3 DEF Settled
  <2>5. \A id \in Settled : disk'[id] = disk[id]
    BY <2>1, <2>3 DEF Settled
  <2> QED
    BY <2>2, <2>4, <2>5, HistoryStutters
<1>2. ASSUME NEW t \in Threads,
             \/ SaveRefused(t) \/ List(t) \/ ListRead(t) \/ ListAnswer(t)
             \/ RecordRun(t) \/ ExecuteAnswer(t)
      PROVE  UNCHANGED History!vars
  <2>1. ~Saving(t) /\ UNCHANGED <<disk, holder, torn, saved>>
        /\ \A u \in Threads \ {t} : run'[u] = run[u]
    BY <1>2, ThreeFiles DEF SaveRefused, List, ListRead, ListAnswer, RecordRun, ExecuteAnswer,
                            Saving, Types
  <2>2. InHand' = InHand
    <3>1. \A u \in Threads : Saving(u) => u # t
      BY <2>1
    <3>2. \A u \in Threads : Saving(u) <=> Saving(u)'
      BY <2>1 DEF LockIsHeld
    <3> QED
      BY <2>1, <3>1, <3>2 DEF InHand
  <2>3. Settled' = Settled
    BY <2>1, <2>2 DEF Settled
  <2> QED
    BY <2>1, <2>3, HistoryStutters
<1>3. CASE Crash
  <2>1. torn' = torn \cup InHand /\ holder' = None /\ UNCHANGED <<disk, saved>>
    BY <1>3, AtFile DEF Crash, InHand, Saving
  <2>2. Settled' = Settled
    BY <2>1, HandOfHolder DEF Settled
  <2> QED
    BY <2>1, <2>2, HistoryStutters
<1>4. CASE UNCHANGED vars
  BY <1>4, HistoryStutters DEF vars, Settled, InHand, Saving
<1>5. ASSUME NEW t \in Threads, EvictRaises(t) PROVE UNCHANGED History!vars
  <2>1. Settled' = Settled /\ UNCHANGED <<disk, saved>>
    BY <1>5, EvictRaisesWaits
  <2> QED
    BY <2>1, HistoryStutters
<1> QED
  BY <1>1, <1>2, <1>3, <1>4, <1>5

\* The run history is a map that a save changes in one step, for any number of
\* threads, run ids and cap: its three writes, and the removal where one fails,
\* are not seen, and what is seen is never changed, and goes only when it is
\* deleted, drawn again or above the cap (runs.py:183-199, 249-268).
THEOREM RefinesHistory == Spec => ImplementsHistory
<1>1. Init => History!Init
  <2> SUFFICES ASSUME Init PROVE History!Init
    OBVIOUS
  <2>1. Settled = {} /\ DOMAIN disk = {} /\ saved = {}
    BY DEF Init, Settled
  <2> QED
    BY <2>1 DEF History!Init
<1>2. RunInv /\ RunInv' /\ [Next]_vars => [History!Next]_(History!vars)
  <2> SUFFICES ASSUME RunInv, RunInv', [Next]_vars
               PROVE  History!Next \/ UNCHANGED History!vars
    BY DEF History!vars
  <2> USE DEF RunInv
  <2>1. ASSUME NEW t \in Threads, SaveBegin(t) PROVE History!Next
    BY <2>1, HistoryDraws DEF History!Next
  <2>2. ASSUME NEW t \in Threads, SaveFails(t) PROVE History!Next
    <3>1. Saving(t) /\ holder' = None /\ Rmtree({run[t]}) /\ saved' = saved
      BY <2>2, AtFile DEF SaveFails, Saving
    <3>2. InHand = {run[t]} /\ InHand' = {} /\ run[t] \in DOMAIN disk /\ run[t] \in RunIds
      BY <3>1, HandOfHolder DEF LockIsHeld, Progress, Types
    <3>3. PICK id : id = run[t]
      OBVIOUS
    <3>4. History!Remove(id)
      BY <3>1, <3>2, <3>3, HistoryRemoves
    <3> QED
      BY <3>2, <3>3, <3>4 DEF History!Next
  <2>3. ASSUME NEW t \in Threads, Evict(t) PROVE History!Next
    <3>1. \E id \in RunIds : \E written \in {[f \in File |-> u] : u \in Threads},
            kept \in SUBSET RunIds : History!Save(id, written, kept)
      BY <2>3, HistorySaves
    <3> QED
      BY <3>1 DEF History!Next
  <2>4. ASSUME NEW id \in RunIds, DeleteRun(id) PROVE History!Next
    <3>1. /\ holder = None /\ holder' = None /\ saved' = saved
          /\ id \in DOMAIN disk /\ Rmtree({id})
      BY <2>4 DEF DeleteRun
    <3>2. InHand = {} /\ InHand' = {}
      BY <3>1, HandOfHolder
    <3>3. History!Remove(id)
      BY <3>1, <3>2, HistoryRemoves
    <3> QED
      BY <3>3 DEF History!Next
  <2>5. CASE \/ \E t \in Threads : \/ SaveRefused(t) \/ SaveWrite(t) \/ EvictRaises(t) \/ List(t)
                                   \/ ListRead(t) \/ ListAnswer(t) \/ RecordRun(t) \/ ExecuteAnswer(t)
             \/ Crash \/ UNCHANGED vars
    BY <2>5, HistoryWaits
  <2> QED
    BY <2>1, <2>2, <2>3, <2>4, <2>5 DEF Next, Step
<1> QED
  BY <1>1, <1>2, RunInvariant, PTL DEF Spec, ImplementsHistory, History!Spec

-----------------------------------------------------------------------------
\* The agents and the execute stream, beside the run history.  They share no
\* state with it.

\* The mail: what the variables of await_verdict hold.
MailTypes ==
  /\ live \in BOOLEAN /\ verdict \in [Proposals -> Statuses]
  /\ subscribed \subseteq Agents
  /\ inbox \in [Agents -> Seq(Event)]
  /\ agent \in [Agents -> {"idle", "check", "read", "wait", "leave", "done"}]
  /\ asked \in [Agents -> Proposals \cup {Nothing}]
  /\ told \in [Agents -> Statuses \cup {"timeout", Nothing}]

\* An agent that has asked is registered for as long as the session is there,
\* and from its first look until it is told it knows that the proposal exists.
Asking ==
  \A a \in Agents :
    /\ agent[a] = "idle" => told[a] = Nothing
    /\ agent[a] # "idle" => asked[a] \in Proposals
    /\ agent[a] \in {"check", "read", "wait"} /\ live => a \in subscribed
    /\ agent[a] \in {"read", "wait"} => verdict[asked[a]] # "absent"

\* An event in a queue names the verdict of its proposal.
EventsAreVerdicts ==
  \A a \in Agents : \A i \in DOMAIN inbox[a] :
    inbox[a][i] # Noise => verdict[inbox[a][i].of] = inbox[a][i].is

\* What an agent is told is a verdict, that its time is up, or nothing.
ToldIsFinal == \A a \in Agents : told[a] \in {Nothing, "timeout", "accepted", "rejected"}

MailInv == MailTypes /\ Asking /\ EventsAreVerdicts /\ ToldIsFinal /\ NoVerdictIsMissed

-----------------------------------------------------------------------------
Frame == Nat \cup {Failure, Nothing}

StreamTypes ==
  /\ walk \in {"idle", "walk", "check", "over"}
  /\ made \in Nat /\ waiting \in Nat /\ late \in Nat /\ cancel \in BOOLEAN
  /\ frames \in Seq(Frame)
  /\ received \in Seq(Nat \cup {Failure})
  /\ client \in {"idle", "refused", "committed", "streaming", "reading", "closed", "gone"}

Attended == client \in {"committed", "streaming", "reading"}

\* A client that is still there waits with one thread of the pool, or none, and
\* has not set the flag.
ClientIsServed ==
  /\ client \in {"idle", "refused", "committed", "streaming"} => waiting = 0
  /\ client = "reading" => waiting = 1
  /\ client = "idle" => /\ walk = "idle" /\ made = 0 /\ frames = <<>> /\ received = <<>>
  /\ client \in {"idle", "committed", "streaming", "reading"} => ~cancel
  /\ Attended => walk # "idle"
  /\ client = "closed" => walk = "over"

\* What the client has got, and the queue behind it, are the first m events and
\* then the frames of last.
Carries(m, last) ==
  /\ Len(received) + Len(frames) = m + Len(last)
  /\ \A i \in 1 .. Len(received) : received[i] = IF i <= m THEN i ELSE last[i - m]
  /\ \A i \in 1 .. Len(frames) :
       frames[i] = IF Len(received) + i <= m THEN Len(received) + i
                                             ELSE last[Len(received) + i - m]

QueueIsInOrder ==
  Attended =>
    /\ walk = "walk" => Carries(made, <<>>)
    /\ walk = "check" => made > 0 /\ Carries(made - 1, <<>>)
    /\ walk = "over" => \/ Carries(made, <<Nothing>>)
                        \/ \E n \in {made, made - 1} : n >= 0 /\ Carries(n, <<Failure, Nothing>>)

LateIsBounded == late <= 1 /\ (~cancel \/ walk = "walk" => late = 0)

StreamInv == /\ StreamTypes /\ ClientIsServed
             /\ QueueIsInOrder /\ LateIsBounded /\ StreamIsWhole

-----------------------------------------------------------------------------
USE DEF AgentTo

\* A step is one of the agents and their session, or one of the stream; neither
\* touches what is the other's.
MailStep == \/ \E p \in Proposals : \/ Propose(p)
                                    \/ \E v \in Verdicts : Resolve(p, v)
            \/ DeleteSession
            \/ \E a \in Agents : (\E p \in Proposals : Subscribe(a, p)) \/ Agent(a)
StreamStep == \/ FirstEvent \/ Walk
              \/ SendForChunk \/ Chunk \/ Disconnect

LEMMA TwoHalves ==
  [ReadersNext]_readersVars => \/ MailStep /\ UNCHANGED stream
                               \/ StreamStep /\ UNCHANGED mail
                               \/ UNCHANGED <<mail, stream>>
<1>1. MailStep => UNCHANGED stream
  BY DEF MailStep, Agent, stream, Propose, Resolve,
         DeleteSession, Subscribe, Check, Read, Take,
         Timeout, Unsubscribe
<1>2. StreamStep => UNCHANGED mail
  BY DEF StreamStep, Walk, mail, FirstEvent, NextEvent,
         HandOver, WalkRaises, WalkEnds, SendForChunk,
         Chunk, Disconnect
<1>3. ReadersNext => MailStep \/ StreamStep
  BY DEF ReadersNext, MailStep, StreamStep
<1> QED
  BY <1>1, <1>2, <1>3 DEF readersVars

\* The types of the mail are kept.
LEMMA MailTypesStep ==
  ASSUME MailTypes, Asking, [ReadersNext]_readersVars
  PROVE  MailTypes'
<1>1. ASSUME NEW e \in Event, Publish(e)
      PROVE  inbox' \in [Agents -> Seq(Event)]
  BY <1>1 DEF Publish, MailTypes
<1>2. ASSUME NEW p \in Proposals, Propose(p) PROVE MailTypes'
  BY <1>1, <1>2 DEF Propose, MailTypes, Statuses, Event
<1>3. ASSUME NEW p \in Proposals, NEW v \in Verdicts, Resolve(p, v)
      PROVE  MailTypes'
  <2>1. [of |-> p, is |-> v] \in Event BY DEF Event
  <2>2. inbox' \in [Agents -> Seq(Event)] BY <1>1, <1>3, <2>1 DEF Resolve
  <2>3. v \in Statuses BY DEF Verdicts, Statuses
  <2> QED
    BY <1>3, <2>2, <2>3 DEF Resolve, MailTypes
<1>4. CASE DeleteSession
  BY <1>4 DEF DeleteSession, MailTypes
<1>5. ASSUME NEW a \in Agents, NEW p \in Proposals, Subscribe(a, p) PROVE MailTypes'
  BY <1>5 DEF Subscribe, MailTypes
<1>6. ASSUME NEW a \in Agents, Check(a) PROVE MailTypes'
  BY <1>6 DEF Check, MailTypes
<1>7. ASSUME NEW a \in Agents, Read(a) PROVE MailTypes'
  <2>1. verdict[asked[a]] \in Statuses
    BY <1>7 DEF Read, MailTypes, Asking
  <2>2. /\ agent' \in {[agent EXCEPT ![a] = "wait"], [agent EXCEPT ![a] = "leave"]}
        /\ told' \in {told, [told EXCEPT ![a] = verdict[asked[a]]], [told EXCEPT ![a] = Nothing]}
        /\ UNCHANGED <<live, verdict, subscribed, inbox, asked>>
    BY <1>7 DEF Read
  <2> QED
    BY <2>1, <2>2 DEF MailTypes
<1>8. ASSUME NEW a \in Agents, Take(a) PROVE MailTypes'
  <2>1. inbox[a] \in Seq(Event) /\ inbox[a] # <<>> BY <1>8 DEF Take, MailTypes
  <2>2. Tail(inbox[a]) \in Seq(Event) /\ Head(inbox[a]) \in Event BY <2>1
  <2>3. Head(inbox[a]) # Noise => Head(inbox[a]).is \in Statuses
    BY <2>2 DEF Event, Verdicts, Statuses
  <2>4. /\ agent' \in {agent, [agent EXCEPT ![a] = "leave"]}
        /\ \/ told' = told
           \/ Head(inbox[a]) # Noise /\ told' = [told EXCEPT ![a] = Head(inbox[a]).is]
        /\ inbox' = [inbox EXCEPT ![a] = Tail(inbox[a])]
        /\ UNCHANGED <<live, verdict, subscribed, asked>>
    BY <1>8 DEF Take
  <2> QED
    BY <2>2, <2>3, <2>4 DEF MailTypes
<1>9. ASSUME NEW a \in Agents, Timeout(a) \/ Unsubscribe(a) PROVE MailTypes'
  BY <1>9 DEF Timeout, Unsubscribe, MailTypes
<1>10. CASE UNCHANGED mail
  BY <1>10 DEF mail, MailTypes
<1> QED
  BY <1>2, <1>3, <1>4, <1>5, <1>6, <1>7, <1>8, <1>9, <1>10, TwoHalves DEF MailStep, Agent

\* So are the places of the agents.
LEMMA AskingStep ==
  ASSUME MailTypes, Asking, [ReadersNext]_readersVars
  PROVE  Asking'
<1>1. ASSUME NEW p \in Proposals, Propose(p) PROVE Asking'
  BY <1>1 DEF Propose, Asking, MailTypes
<1>2. ASSUME NEW p \in Proposals, NEW v \in Verdicts, Resolve(p, v)
      PROVE  Asking'
  BY <1>2 DEF Resolve, Asking, MailTypes, Verdicts
<1>3. CASE DeleteSession
  BY <1>3 DEF DeleteSession, Asking
<1>4. ASSUME NEW a \in Agents, NEW p \in Proposals, Subscribe(a, p) PROVE Asking'
  BY <1>4 DEF Subscribe, Asking, MailTypes
<1>5. ASSUME NEW a \in Agents, Check(a) PROVE Asking'
  <2>1. \/ agent' = [agent EXCEPT ![a] = "read"] /\ verdict[asked[a]] # "absent"
        \/ agent' = [agent EXCEPT ![a] = "leave"]
    BY <1>5 DEF Check
  <2> QED
    BY <1>5, <2>1 DEF Check, Asking, MailTypes
<1>6. ASSUME NEW a \in Agents, Read(a) PROVE Asking'
  <2>1. agent' \in {[agent EXCEPT ![a] = "wait"], [agent EXCEPT ![a] = "leave"]}
        /\ \A b \in Agents \ {a} : told'[b] = told[b]
    BY <1>6 DEF Read, MailTypes
  <2> QED
    BY <1>6, <2>1 DEF Read, Asking, MailTypes
<1>7. ASSUME NEW a \in Agents, Take(a) PROVE Asking'
  <2>1. agent' \in {agent, [agent EXCEPT ![a] = "leave"]}
        /\ \A b \in Agents \ {a} : told'[b] = told[b]
    BY <1>7 DEF Take, MailTypes
  <2> QED
    BY <1>7, <2>1 DEF Take, Asking, MailTypes
<1>8. ASSUME NEW a \in Agents, Timeout(a) \/ Unsubscribe(a) PROVE Asking'
  BY <1>8 DEF Timeout, Unsubscribe, Asking, MailTypes
<1>9. CASE UNCHANGED mail
  BY <1>9 DEF mail, Asking
<1> QED
  BY <1>1, <1>2, <1>3, <1>4, <1>5, <1>6, <1>7, <1>8, <1>9, TwoHalves DEF MailStep, Agent

\* An event of a proposal goes on the queues with its verdict, which is final.
LEMMA EventsStep ==
  ASSUME MailTypes, Asking, EventsAreVerdicts, [ReadersNext]_readersVars
  PROVE  EventsAreVerdicts'
<1>1. ASSUME NEW e \in Event, Publish(e), NEW a \in Agents,
             NEW i \in DOMAIN inbox'[a],
             inbox'[a][i] # Noise
      PROVE  \/ i \in DOMAIN inbox[a] /\ inbox'[a][i] = inbox[a][i]
             \/ inbox'[a][i] = e
  BY <1>1 DEF Publish, MailTypes
\* What is queued names proposals that are resolved, and those stay as they are.
<1>2. ASSUME NEW a \in Agents, NEW i \in DOMAIN inbox[a], inbox[a][i] # Noise
      PROVE  /\ inbox[a][i].of \in Proposals
             /\ verdict[inbox[a][i].of] = inbox[a][i].is
             /\ verdict[inbox[a][i].of] \in Verdicts
  <2>1. inbox[a][i] \in Event BY DEF MailTypes
  <2> QED
    BY <1>2, <2>1 DEF EventsAreVerdicts, Event
<1>3. ASSUME NEW p \in Proposals, NEW v, verdict[p] \notin Verdicts,
             verdict' = [verdict EXCEPT ![p] = v],
             NEW a \in Agents, NEW i \in DOMAIN inbox[a], inbox[a][i] # Noise
      PROVE  verdict'[inbox[a][i].of] = inbox[a][i].is
  BY <1>2, <1>3 DEF MailTypes
<1>6. ASSUME NEW p \in Proposals, Propose(p) PROVE EventsAreVerdicts'
  <2> SUFFICES ASSUME NEW a \in Agents, NEW i \in DOMAIN inbox'[a], inbox'[a][i] # Noise
               PROVE  verdict'[inbox'[a][i].of] = inbox'[a][i].is
    BY DEF EventsAreVerdicts
  <2>1. i \in DOMAIN inbox[a] /\ inbox'[a][i] = inbox[a][i]
    BY <1>1, <1>6 DEF Propose, Event
  <2>2. verdict[p] \notin Verdicts /\ verdict' = [verdict EXCEPT ![p] = "pending"]
    BY <1>6 DEF Propose, Verdicts
  <2> QED
    BY <1>3, <2>1, <2>2
<1>7. ASSUME NEW p \in Proposals, NEW v \in Verdicts, Resolve(p, v)
      PROVE  EventsAreVerdicts'
  <2> SUFFICES ASSUME NEW a \in Agents, NEW i \in DOMAIN inbox'[a], inbox'[a][i] # Noise
               PROVE  verdict'[inbox'[a][i].of] = inbox'[a][i].is
    BY DEF EventsAreVerdicts
  <2>1. \/ i \in DOMAIN inbox[a] /\ inbox'[a][i] = inbox[a][i]
        \/ inbox'[a][i] = [of |-> p, is |-> v]
    BY <1>1, <1>7 DEF Resolve, Event
  <2>2. verdict[p] \notin Verdicts /\ verdict' = [verdict EXCEPT ![p] = v]
    BY <1>7 DEF Resolve, Verdicts
  <2>3. CASE i \in DOMAIN inbox[a] /\ inbox'[a][i] = inbox[a][i]
    BY <1>3, <2>2, <2>3
  <2>4. CASE inbox'[a][i] = [of |-> p, is |-> v]
    BY <2>2, <2>4 DEF MailTypes
  <2> QED
    BY <2>1, <2>3, <2>4
<1>4. ASSUME NEW a \in Agents, Take(a) PROVE EventsAreVerdicts'
  <2>1. /\ \A b \in Agents \ {a} : inbox'[b] = inbox[b]
        /\ \A i \in DOMAIN inbox'[a] : i + 1 \in DOMAIN inbox[a] /\ inbox'[a][i] = inbox[a][i + 1]
    BY <1>4 DEF Take, MailTypes
  <2> QED
    BY <1>4, <2>1 DEF Take, EventsAreVerdicts
<1>5. CASE UNCHANGED <<verdict, inbox>>
  BY <1>5 DEF EventsAreVerdicts
<1> QED
  BY <1>4, <1>5, <1>6, <1>7, TwoHalves
     DEF MailStep, Agent, mail, DeleteSession, Subscribe,
         Check, Read, Timeout, Unsubscribe

\* Only a proposal that is resolved, or a deadline, ends the wait with an answer.
LEMMA ToldStep ==
  ASSUME MailTypes, Asking, ToldIsFinal, [ReadersNext]_readersVars
  PROVE  ToldIsFinal'
<1>1. ASSUME NEW a \in Agents, Read(a) PROVE ToldIsFinal'
  <2>1. verdict[asked[a]] \in Statuses \ {"absent"}
    BY <1>1 DEF Read, MailTypes, Asking
  <2>2. \/ told' = told
        \/ told' = [told EXCEPT ![a] = Nothing]
        \/ told' = [told EXCEPT ![a] = verdict[asked[a]]] /\ verdict[asked[a]] # "pending"
    BY <1>1 DEF Read
  <2> QED
    BY <2>1, <2>2 DEF ToldIsFinal, MailTypes, Statuses
<1>2. ASSUME NEW a \in Agents, Take(a) PROVE ToldIsFinal'
  <2>1. inbox[a] \in Seq(Event) /\ inbox[a] # <<>> BY <1>2 DEF Take, MailTypes
  <2>2. Head(inbox[a]) # Noise => Head(inbox[a]).is \in Verdicts BY <2>1 DEF Event
  <2>3. \/ told' = told
        \/ Head(inbox[a]) # Noise /\ told' = [told EXCEPT ![a] = Head(inbox[a]).is]
    BY <1>2 DEF Take
  <2> QED
    BY <2>2, <2>3 DEF ToldIsFinal, MailTypes, Verdicts
<1>3. ASSUME NEW a \in Agents, Timeout(a) PROVE ToldIsFinal'
  BY <1>3 DEF Timeout, ToldIsFinal, MailTypes
<1>4. CASE UNCHANGED told
  BY <1>4 DEF ToldIsFinal
<1> QED
  BY <1>1, <1>2, <1>3, <1>4, TwoHalves
     DEF MailStep, Agent, mail, Propose, Resolve,
         DeleteSession, Subscribe, Check, Unsubscribe

\* An agent that waits for a proposal finds its verdict in the queue from the step on
\* that resolves it, and what it is told stays true.
LEMMA MissedStep ==
  ASSUME MailTypes, Asking, EventsAreVerdicts, NoVerdictIsMissed,
         [ReadersNext]_readersVars
  PROVE  NoVerdictIsMissed'
<1>1. ASSUME NEW e \in Event, Publish(e), NEW a \in Agents
      PROVE  /\ \A i \in DOMAIN inbox[a] : i \in DOMAIN inbox'[a] /\ inbox'[a][i] = inbox[a][i]
             /\ a \in subscribed => \E i \in DOMAIN inbox'[a] : inbox'[a][i] = e
  <2>1. CASE a \in subscribed
    <3>1. inbox'[a] = Append(inbox[a], e) /\ inbox[a] \in Seq(Event)
      BY <1>1, <2>1 DEF Publish, MailTypes
    <3>2. Len(inbox[a]) + 1 \in DOMAIN inbox'[a] /\ inbox'[a][Len(inbox[a]) + 1] = e
      BY <3>1
    <3> QED
      BY <3>1, <3>2
  <2>2. CASE a \notin subscribed
    BY <1>1, <2>2 DEF Publish
  <2> QED
    BY <2>1, <2>2
<1>2. ASSUME NEW p \in Proposals, Propose(p) PROVE NoVerdictIsMissed'
  <2>1. \A a \in Agents : \A i \in DOMAIN inbox[a] :
          i \in DOMAIN inbox'[a] /\ inbox'[a][i] = inbox[a][i]
    BY <1>1, <1>2 DEF Propose, Event
  <2>2. /\ verdict[p] = "absent" /\ verdict' = [verdict EXCEPT ![p] = "pending"]
        /\ UNCHANGED <<agent, asked, told>>
    BY <1>2 DEF Propose
  <2>3. ASSUME NEW a \in Agents, agent[a] = "wait", verdict'[asked[a]] # "pending"
        PROVE  \E i \in DOMAIN inbox'[a] : inbox'[a][i] = [of |-> asked[a], is |-> verdict'[asked[a]]]
    <3>1. asked[a] \in Proposals \ {p}
      BY <2>2, <2>3 DEF Asking, MailTypes
    <3>2. verdict[asked[a]] # "pending" /\ verdict'[asked[a]] = verdict[asked[a]]
      BY <2>2, <2>3, <3>1 DEF MailTypes
    <3> QED
      BY <2>1, <2>3, <3>2 DEF NoVerdictIsMissed
  <2>4. ASSUME NEW a \in Agents, told[a] \in Verdicts
        PROVE  told[a] = verdict'[asked[a]]
    <3>1. told[a] = verdict[asked[a]] /\ asked[a] \in Proposals
      BY <2>4, NamesAssumption DEF NoVerdictIsMissed, Asking, MailTypes
    <3> QED
      BY <2>2, <2>4, <3>1 DEF MailTypes, Verdicts
  <2> QED
    BY <2>2, <2>3, <2>4 DEF NoVerdictIsMissed
<1>3. ASSUME NEW p \in Proposals, NEW v \in Verdicts, Resolve(p, v)
      PROVE  NoVerdictIsMissed'
  <2> SUFFICES ASSUME NEW a \in Agents
               PROVE  /\ agent'[a] = "wait" /\ verdict'[asked'[a]] # "pending"
                           => \E i \in DOMAIN inbox'[a] :
                                inbox'[a][i] = [of |-> asked'[a], is |-> verdict'[asked'[a]]]
                      /\ told'[a] \in Verdicts => told'[a] = verdict'[asked'[a]]
    BY DEF NoVerdictIsMissed
  <2>1. /\ live /\ verdict[p] = "pending"
        /\ verdict' = [verdict EXCEPT ![p] = v] /\ Publish([of |-> p, is |-> v])
        /\ UNCHANGED <<agent, asked, told>>
    BY <1>3 DEF Resolve
  <2>2. ASSUME told[a] \in Verdicts PROVE told[a] = verdict'[asked[a]]
    <3>1. asked[a] \in Proposals
      BY <2>2, NamesAssumption DEF Asking, MailTypes
    <3> QED
      BY <2>1, <2>2, <3>1 DEF NoVerdictIsMissed, MailTypes, Verdicts
  <2>3. ASSUME agent[a] = "wait", verdict'[asked[a]] # "pending"
        PROVE  \E i \in DOMAIN inbox'[a] : inbox'[a][i] = [of |-> asked[a], is |-> verdict'[asked[a]]]
    <3>1. asked[a] \in Proposals /\ a \in subscribed
      BY <2>1, <2>3 DEF Asking
    <3>0. [of |-> p, is |-> v] \in Event BY DEF Event
    <3>2. CASE asked[a] = p
      <4>1. verdict'[p] = v BY <2>1 DEF MailTypes
      <4> QED
        BY <1>1, <2>1, <3>0, <3>1, <3>2, <4>1
    <3>3. CASE asked[a] # p
      <4>1. verdict[asked[a]] # "pending" /\ verdict'[asked[a]] = verdict[asked[a]]
        BY <2>1, <2>3, <3>1, <3>3 DEF MailTypes
      <4> QED
        BY <1>1, <2>1, <2>3, <3>0, <4>1 DEF NoVerdictIsMissed
    <3> QED
      BY <3>2, <3>3
  <2> QED
    BY <2>1, <2>2, <2>3
<1>4. ASSUME NEW a \in Agents, NEW p \in Proposals, Subscribe(a, p)
      PROVE  NoVerdictIsMissed'
  BY <1>4, NamesAssumption DEF Subscribe, NoVerdictIsMissed, Asking,
              MailTypes, Verdicts
<1>5. ASSUME NEW a \in Agents, Check(a) \/ Unsubscribe(a)
      PROVE  NoVerdictIsMissed'
  BY <1>5 DEF Check, Unsubscribe, NoVerdictIsMissed, MailTypes
<1>6. ASSUME NEW a \in Agents, Read(a) PROVE NoVerdictIsMissed'
  <2>1. UNCHANGED <<verdict, inbox, asked>>
    BY <1>6 DEF Read
  <2>2. \/ /\ agent' = [agent EXCEPT ![a] = "wait"] /\ told' = told /\ verdict[asked[a]] = "pending"
        \/ /\ agent' = [agent EXCEPT ![a] = "leave"]
           /\ told' \in {[told EXCEPT ![a] = Nothing], [told EXCEPT ![a] = verdict[asked[a]]]}
    BY <1>6 DEF Read
  <2> QED
    BY <2>1, <2>2, NamesAssumption DEF NoVerdictIsMissed, MailTypes
<1>7. ASSUME NEW a \in Agents, Take(a) PROVE NoVerdictIsMissed'
  <2>1. inbox[a] \in Seq(Event) /\ inbox[a] # <<>>
        /\ inbox' = [inbox EXCEPT ![a] = Tail(inbox[a])] /\ UNCHANGED <<verdict, asked>>
    BY <1>7 DEF Take, MailTypes
  <2>2. CASE Head(inbox[a]) # Noise /\ Head(inbox[a]).of = asked[a]
    <3>1. agent' = [agent EXCEPT ![a] = "leave"] /\ told' = [told EXCEPT ![a] = Head(inbox[a]).is]
      BY <1>7, <2>2 DEF Take
    <3>2. 1 \in DOMAIN inbox[a] /\ inbox[a][1] = Head(inbox[a]) BY <2>1
    <3>3. verdict[asked[a]] = Head(inbox[a]).is
      BY <2>2, <3>2 DEF EventsAreVerdicts
    <3> QED
      BY <2>1, <3>1, <3>3 DEF NoVerdictIsMissed, MailTypes
  <2>3. CASE ~(Head(inbox[a]) # Noise /\ Head(inbox[a]).of = asked[a])
    <3> DEFINE event == [of |-> asked[a], is |-> verdict[asked[a]]]
    <3>1. ASSUME NEW i \in DOMAIN inbox[a], inbox[a][i] = event, agent[a] = "wait",
                 verdict[asked[a]] # "pending"
          PROVE  \E j \in DOMAIN Tail(inbox[a]) : Tail(inbox[a])[j] = event
      <4>1. event.of = asked[a] /\ event # Noise
        <5>1. verdict[asked[a]] \in Verdicts /\ asked[a] \in Proposals
          BY <3>1 DEF Asking, MailTypes, Statuses, Verdicts
        <5> QED
          BY <5>1, NamesAssumption
      <4> HIDE DEF event
      <4>2. i # 1 /\ i - 1 \in DOMAIN Tail(inbox[a]) /\ Tail(inbox[a])[i - 1] = inbox[a][i]
        BY <2>1, <2>3, <3>1, <4>1
      <4> QED
        BY <3>1, <4>2
    <3>2. UNCHANGED <<agent, told>>
      BY <1>7, <2>3 DEF Take
    <3> HIDE DEF event
    <3>3. /\ inbox'[a] = Tail(inbox[a]) /\ verdict' = verdict /\ asked' = asked
          /\ \A b \in Agents \ {a} : inbox'[b] = inbox[b]
      BY <2>1 DEF MailTypes
    <3>4. agent[a] = "wait" /\ verdict[asked[a]] # "pending"
            => \E j \in DOMAIN inbox'[a] : inbox'[a][j] = event
      BY <3>1, <3>3 DEF NoVerdictIsMissed, event
    <3> QED
      BY <3>2, <3>3, <3>4 DEF NoVerdictIsMissed, event
  <2> QED
    BY <2>2, <2>3
<1>8. ASSUME NEW a \in Agents, Timeout(a) PROVE NoVerdictIsMissed'
  BY <1>8 DEF Timeout, NoVerdictIsMissed, MailTypes, Verdicts
<1>9. CASE UNCHANGED <<verdict, inbox, agent, asked, told>>
  BY <1>9 DEF NoVerdictIsMissed
<1> QED
  BY <1>2, <1>3, <1>4, <1>5, <1>6, <1>7, <1>8, <1>9, TwoHalves
     DEF MailStep, Agent, mail, DeleteSession

LEMMA MailInvariant == ReadersSpec => []MailInv
<1>1. ReadersInit => MailInv
  BY NamesAssumption DEF ReadersInit, MailInv, MailTypes, Statuses, Asking,
         EventsAreVerdicts, ToldIsFinal, NoVerdictIsMissed, Verdicts
<1>2. MailInv /\ [ReadersNext]_readersVars => MailInv'
  BY MailTypesStep, AskingStep, EventsStep, ToldStep, MissedStep DEF MailInv
<1> QED
  BY <1>1, <1>2, PTL DEF ReadersSpec

\* The promise of await_verdict, for any number of agents and proposals
\* (mcp.py:649-651).
THEOREM NoneIsMissed == ReadersSpec => []NoVerdictIsMissed
  BY MailInvariant, PTL DEF MailInv

-----------------------------------------------------------------------------
\* What the walk puts on the queue comes after what is there.
LEMMA CarriesMore ==
  StreamTypes => \A m \in Nat, last \in Seq(Frame), more \in Seq(Frame) :
    Carries(m, last) /\ frames' = frames \o more /\ received' = received
      => Carries(m, last \o more)'
<1>0. SUFFICES ASSUME StreamTypes, NEW m \in Nat, NEW last \in Seq(Frame), NEW more \in Seq(Frame),
                      Carries(m, last), frames' = frames \o more, received' = received
               PROVE  Carries(m, last \o more)'
  OBVIOUS
<1> DEFINE r == Len(received)
           n == Len(frames)
           k == Len(last)
           l == Len(more)
           all == last \o more
<1>1. /\ r \in Nat /\ n \in Nat /\ k \in Nat /\ l \in Nat /\ m \in Nat
      /\ r + n = m + k
  BY <1>0 DEF StreamTypes, Carries
<1>2. /\ Len(frames') = n + l
      /\ \A i \in 1 .. n + l : frames'[i] = IF i <= n THEN frames[i] ELSE more[i - n]
      /\ Len(all) = k + l
      /\ \A i \in 1 .. k + l : all[i] = IF i <= k THEN last[i] ELSE more[i - k]
      /\ Len(received') = r /\ received' = received
  BY <1>0, ConcatProperties DEF StreamTypes
<1>3. /\ \A i \in 1 .. r : received[i] = IF i <= m THEN i ELSE last[i - m]
      /\ \A i \in 1 .. n : frames[i] = IF r + i <= m THEN r + i ELSE last[r + i - m]
  BY <1>0 DEF Carries
<1> HIDE DEF r, n, k, l, all
<1>4. ASSUME NEW i \in 1 .. r PROVE received[i] = IF i <= m THEN i ELSE all[i - m]
  <2>1. CASE i <= m
    BY <1>3, <2>1
  <2>2. CASE i > m
    <3>1. i - m \in 1 .. k + l /\ i - m <= k
      BY <1>1, <2>2
    <3>2. all[i - m] = last[i - m]
      BY <1>2, <3>1
    <3>3. received[i] = last[i - m]
      BY <1>1, <1>3, <2>2
    <3> QED
      BY <1>1, <2>2, <3>2, <3>3
  <2> QED
    BY <1>1, <2>1, <2>2
<1>5. ASSUME NEW i \in 1 .. n + l
      PROVE  frames'[i] = IF r + i <= m THEN r + i ELSE all[r + i - m]
  <2>1. CASE i <= n
    <3>1. frames'[i] = frames[i] /\ i \in 1 .. n
      BY <1>1, <1>2, <2>1
    <3>2. r + i > m => r + i - m \in 1 .. k + l /\ r + i - m <= k
      BY <1>1, <3>1
    <3>3. r + i > m => all[r + i - m] = last[r + i - m]
      BY <1>2, <3>2
    <3>4. frames[i] = IF r + i <= m THEN r + i ELSE last[r + i - m]
      BY <1>3, <3>1
    <3> QED
      BY <1>1, <3>1, <3>3, <3>4
  <2>2. CASE i > n
    <3>1. r + i > m /\ r + i - m \in 1 .. k + l /\ r + i - m > k /\ (r + i - m) - k = i - n
      BY <1>1, <2>2
    <3>2. frames'[i] = more[i - n]
      BY <1>1, <1>2, <2>2
    <3>3. all[r + i - m] = more[(r + i - m) - k]
      BY <1>1, <1>2, <3>1
    <3> QED
      BY <1>1, <3>1, <3>2, <3>3
  <2> QED
    BY <1>1, <2>1, <2>2
<1>6. r + (n + l) = m + (k + l)
  BY <1>1
<1> QED
  BY <1>2, <1>4, <1>5, <1>6 DEF Carries, all

\* The next event is one more of the events.
LEMMA CarriesNext ==
  ASSUME StreamTypes, NEW m \in Nat,
         Carries(m, <<>>), frames' = Append(frames, m + 1), received' = received
  PROVE  Carries(m + 1, <<>>)'
<1>1. frames' = frames \o <<m + 1>>
  BY AppendIsConcat DEF StreamTypes, Frame
<1>2. <<m + 1>> \in Seq(Frame) /\ <<>> \in Seq(Frame) /\ <<>> \o <<m + 1>> = <<m + 1>>
  BY ConcatEmptySeq DEF Frame
<1>3. Carries(m, <<m + 1>>)'
  <2>1. Carries(m, <<>> \o <<m + 1>>)'
    BY <1>1, <1>2, CarriesMore
  <2> QED
    BY <1>2, <2>1
<1>4. /\ Len(received') \in Nat /\ Len(frames') \in Nat
      /\ Len(received') + Len(frames') = m + 1
      /\ Len(<<m + 1>>) = 1 /\ Len(<<>>) = 0 /\ <<m + 1>>[1] = m + 1
  <2>1. Append(frames, m + 1) \in Seq(Frame) /\ received \in Seq(Nat \cup {Failure})
    BY DEF StreamTypes, Frame
  <2> QED
    BY <1>3, <2>1 DEF Carries
<1> DEFINE r == Len(received')
           n == Len(frames')
<1>5. /\ \A i \in 1 .. r : received'[i] = IF i <= m THEN i ELSE <<m + 1>>[i - m]
      /\ \A i \in 1 .. n : frames'[i] = IF r + i <= m THEN r + i ELSE <<m + 1>>[r + i - m]
  BY <1>3 DEF Carries
<1> HIDE DEF r, n
<1>6. r \in Nat /\ n \in Nat /\ r + n = m + 1
  BY <1>4 DEF r, n
<1>7. /\ \A i \in 1 .. r : received'[i] = i
      /\ \A i \in 1 .. n : frames'[i] = r + i
  <2>1. ASSUME NEW i \in 1 .. r PROVE received'[i] = i
    <3>1. i <= m \/ i - m = 1
      BY <1>6
    <3> QED
      BY <1>4, <1>5, <1>6, <3>1
  <2>2. ASSUME NEW i \in 1 .. n PROVE frames'[i] = r + i
    <3>1. CASE r + i <= m
      BY <1>5, <3>1
    <3>2. CASE ~(r + i <= m)
      <4>1. r + i = m + 1 /\ r + i - m = 1
        BY <1>6, <3>2
      <4>2. frames'[i] = <<m + 1>>[r + i - m]
        BY <1>5, <3>2
      <4> QED
        BY <1>4, <4>1, <4>2
    <3> QED
      BY <3>1, <3>2
  <2> QED
    BY <2>1, <2>2
<1> QED
  BY <1>4, <1>6, <1>7 DEF Carries, r, n

\* What the client takes is the next of what the queue carries.
LEMMA CarriesOver ==
  ASSUME StreamTypes, NEW m \in Nat, NEW last \in Seq(Frame), Carries(m, last),
         frames # <<>>, frames' = Tail(frames), received' = Append(received, Head(frames))
  PROVE  Carries(m, last)'
<1> DEFINE r == Len(received)
           n == Len(frames)
<1>1. /\ r \in Nat /\ n \in Nat /\ n > 0 /\ r + n = m + Len(last) /\ Len(last) \in Nat
      /\ Len(received') = r + 1 /\ Len(frames') = n - 1
      /\ frames[1] = IF r + 1 <= m THEN r + 1 ELSE last[r + 1 - m]
  BY DEF StreamTypes, Carries
<1>2. ASSUME NEW i \in 1 .. Len(received')
      PROVE  received'[i] = IF i <= m THEN i ELSE last[i - m]
  <2>1. CASE i \in 1 .. r
    BY <1>1, <2>1 DEF Carries, StreamTypes
  <2>2. CASE i = r + 1
    BY <1>1, <2>2 DEF StreamTypes
  <2> QED
    BY <1>1, <2>1, <2>2
<1>3. ASSUME NEW i \in 1 .. Len(frames')
      PROVE  frames'[i] = IF (r + 1) + i <= m THEN (r + 1) + i ELSE last[(r + 1) + i - m]
  <2>1. i + 1 \in 1 .. n /\ frames'[i] = frames[i + 1]
    BY <1>1 DEF StreamTypes
  <2>2. frames[i + 1] = IF r + (i + 1) <= m THEN r + (i + 1) ELSE last[r + (i + 1) - m]
    BY <2>1 DEF Carries
  <2>3. r + (i + 1) = (r + 1) + i
    BY <1>1, <2>1
  <2> QED
    BY <2>1, <2>2, <2>3
<1> QED
  BY <1>1, <1>2, <1>3 DEF Carries

\* The frame that ends the response is the last, and the client has got the others.
LEMMA CarriesAll ==
  ASSUME StreamTypes, NEW m \in Nat, frames # <<>>, Head(frames) = Nothing
  PROVE  /\ ~Carries(m, <<>>)
         /\ Carries(m, <<Nothing>>) => received = [i \in 1 .. m |-> i]
         /\ Carries(m, <<Failure, Nothing>>) => received = Append([i \in 1 .. m |-> i], Failure)
<1> DEFINE r == Len(received)
           n == Len(frames)
<1>1. /\ r \in Nat /\ n \in Nat /\ n > 0
      /\ frames[1] = Nothing /\ Nothing \notin Nat /\ Nothing # Failure
      /\ received \in Seq(Nat \cup {Failure})
  BY NamesAssumption DEF StreamTypes
<1>2. ASSUME Carries(m, <<>>) PROVE FALSE
  <2>1. r + n = m /\ (r + 1 <= m => frames[1] = r + 1)
    BY <1>1, <1>2 DEF Carries
  <2> QED
    BY <1>1, <2>1
<1>3. ASSUME Carries(m, <<Nothing>>) PROVE received = [i \in 1 .. m |-> i]
  <2>1. r = m
    BY <1>1, <1>3 DEF Carries
  <2>2. \A i \in 1 .. m : received[i] = i
    BY <1>1, <1>3, <2>1 DEF Carries
  <2> QED
    BY <1>1, <2>1, <2>2
<1>4. ASSUME Carries(m, <<Failure, Nothing>>) PROVE received = Append([i \in 1 .. m |-> i], Failure)
  <2>1. r = m + 1
    <3>1. r + 1 > m /\ r + n = m + 2
      BY <1>1, <1>4 DEF Carries
    <3>2. r + 1 - m \in {1, 2} /\ frames[1] = <<Failure, Nothing>>[r + 1 - m]
      BY <1>1, <1>4, <3>1 DEF Carries
    <3>3. <<Failure, Nothing>>[1] = Failure
      OBVIOUS
    <3>4. r + 1 - m # 1
      BY <1>1, <3>2, <3>3
    <3> QED
      BY <1>1, <3>1, <3>2, <3>4
  <2>2. \A i \in 1 .. m : received[i] = i
    BY <1>1, <1>4, <2>1 DEF Carries
  <2>3. received[m + 1] = Failure
    BY <1>1, <1>4, <2>1 DEF Carries
  <2> DEFINE events == [i \in 1 .. m |-> i]
  <2>4. events \in Seq(Nat \cup {Failure}) /\ Len(events) = m /\ \A i \in 1 .. m : events[i] = i
    OBVIOUS
  <2> HIDE DEF events
  <2>5. /\ Append(events, Failure) \in Seq(Nat \cup {Failure})
        /\ Len(Append(events, Failure)) = m + 1
        /\ \A i \in 1 .. m + 1 : Append(events, Failure)[i] = IF i <= m THEN i ELSE Failure
    BY <2>4
  <2> QED
    BY <1>1, <2>1, <2>2, <2>3, <2>5
<1> QED
  BY <1>2, <1>3, <1>4

-----------------------------------------------------------------------------
LEMMA StreamTypesStep ==
  ASSUME StreamTypes, ClientIsServed, [ReadersNext]_readersVars
  PROVE  StreamTypes'
<1>0. /\ Nothing \in Frame /\ Failure \in Frame /\ Nat \subseteq Frame
      /\ frames \in Seq(Frame) /\ made \in Nat /\ late \in Nat /\ waiting \in Nat
  BY DEF StreamTypes, Frame
<1>1. CASE FirstEvent
  <2>1. made' \in Nat /\ frames' \in Seq(Frame)
    <3>1. <<1>> \in Seq(Frame) /\ 1 \in Nat
      BY <1>0
    <3>2. made' \in {made, 1} /\ frames' \in {frames, <<1>>}
      BY <1>1 DEF FirstEvent
    <3> QED
      BY <1>0, <3>1, <3>2
  <2> QED
    BY <1>1, <2>1 DEF FirstEvent, StreamTypes
<1>2. CASE NextEvent
  <2>1. made' \in Nat /\ late' \in Nat
    BY <1>0, <1>2 DEF NextEvent
  <2> QED
    BY <1>2, <2>1 DEF NextEvent, StreamTypes
<1>3. CASE HandOver \/ WalkRaises \/ WalkEnds
  <2>1. frames' \in Seq(Frame)
    <3>1. <<Failure, Nothing>> \in Seq(Frame)
      BY <1>0
    <3>2. \A f \in Frame : Append(frames, f) \in Seq(Frame)
      BY <1>0, AppendProperties
    <3>3. frames \o <<Failure, Nothing>> \in Seq(Frame)
      BY <1>0, <3>1, ConcatProperties
    <3> QED
      BY <1>0, <1>3, <3>2, <3>3 DEF HandOver, WalkRaises, WalkEnds
  <2> QED
    BY <1>3, <2>1 DEF HandOver, WalkRaises, WalkEnds, StreamTypes
<1>4. CASE SendForChunk \/ Disconnect
  <2>1. waiting' \in Nat
    BY <1>0, <1>4 DEF SendForChunk, Disconnect
  <2>2. cancel' \in BOOLEAN
    BY <1>4 DEF SendForChunk, Disconnect, StreamTypes
  <2> QED
    BY <1>4, <2>1, <2>2 DEF SendForChunk, Disconnect, StreamTypes
<1>5. CASE Chunk
  <2>1. Head(frames) \in Frame /\ Tail(frames) \in Seq(Frame)
    BY <1>0, <1>5 DEF Chunk
  <2>2. waiting - 1 \in Nat
    BY <1>0, <1>5 DEF Chunk
  <2>3. received' \in Seq(Nat \cup {Failure})
    <3>1. received \in Seq(Nat \cup {Failure})
      BY DEF StreamTypes
    <3>2. \/ received' = received
          \/ Head(frames) # Nothing /\ received' = Append(received, Head(frames))
      BY <1>5 DEF Chunk
    <3>3. CASE Head(frames) # Nothing /\ received' = Append(received, Head(frames))
      <4>1. Head(frames) \in Nat \cup {Failure}
        BY <2>1, <3>3 DEF Frame
      <4> QED
        BY <3>1, <3>3, <4>1, AppendProperties
    <3> QED
      BY <3>1, <3>2, <3>3
  <2> QED
    BY <1>5, <2>1, <2>2, <2>3 DEF Chunk, StreamTypes
<1>6. CASE UNCHANGED stream
  BY <1>6 DEF stream, StreamTypes
<1> QED
  BY <1>1, <1>2, <1>3, <1>4, <1>5, <1>6, TwoHalves DEF StreamStep, Walk

\* A client that is still there has a chunk under way when it waits for one, and
\* the response ends after the walk.
LEMMA ServedStep ==
  ASSUME StreamTypes, ClientIsServed, QueueIsInOrder,
         [ReadersNext]_readersVars
  PROVE  ClientIsServed'
<1> USE DEF Attended
<1>1. CASE FirstEvent
  BY <1>1 DEF FirstEvent, ClientIsServed
<1>2. CASE NextEvent \/ HandOver \/ WalkRaises \/ WalkEnds
  BY <1>2 DEF NextEvent, HandOver, WalkRaises, WalkEnds,
              ClientIsServed, StreamTypes
<1>3. CASE SendForChunk \/ Disconnect
  BY <1>3 DEF SendForChunk, Disconnect, ClientIsServed
<1>4. CASE Chunk
  <2>1. CASE client # "reading"
    BY <1>4, <2>1 DEF Chunk, ClientIsServed, StreamTypes
  <2>2. CASE client = "reading" /\ Head(frames) = Nothing
    <3>1. walk = "over"
      BY <1>4, <2>2, CarriesAll DEF Chunk, QueueIsInOrder, ClientIsServed, StreamTypes
    <3> QED
      BY <1>4, <2>2, <3>1 DEF Chunk, ClientIsServed
  <2>3. CASE client = "reading" /\ Head(frames) # Nothing
    BY <1>4, <2>3 DEF Chunk, ClientIsServed
  <2> QED
    BY <2>1, <2>2, <2>3
<1>5. CASE UNCHANGED stream
  BY <1>5 DEF stream, ClientIsServed
<1> QED
  BY <1>1, <1>2, <1>3, <1>4, <1>5, TwoHalves DEF StreamStep, Walk

\* The queue of a client that is still there stays in order.
LEMMA OrderStep ==
  ASSUME StreamTypes, ClientIsServed, QueueIsInOrder, [ReadersNext]_readersVars
  PROVE  QueueIsInOrder'
<1> USE DEF Attended
<1>0. <<>> \in Seq(Frame) /\ <<Nothing>> \in Seq(Frame) /\ <<Failure, Nothing>> \in Seq(Frame)
      /\ <<>> \o <<Nothing>> = <<Nothing>> /\ <<>> \o <<Failure, Nothing>> = <<Failure, Nothing>>
  BY ConcatEmptySeq DEF Frame
<1>1. CASE FirstEvent
  <2>1. client = "idle" /\ made = 0 /\ frames = <<>> /\ received = <<>> /\ received' = received
    BY <1>1 DEF FirstEvent, ClientIsServed
  <2>2. Carries(0, <<>>)
    BY <2>1 DEF Carries
  <2>3. CASE client' = "refused"
    BY <2>3 DEF QueueIsInOrder
  <2>4. CASE walk' = "walk" /\ UNCHANGED <<made, frames>>
    BY <2>1, <2>2, <2>4 DEF QueueIsInOrder, Carries
  <2>5. CASE walk' = "walk" /\ made' = 1 /\ frames' = <<1>>
    <3>1. frames' = Append(frames, 0 + 1)
      BY <2>1, <2>5
    <3>2. Carries(0 + 1, <<>>)'
      BY <2>1, <2>2, <3>1, CarriesNext
    <3> QED
      BY <2>5, <3>2 DEF QueueIsInOrder
  <2> QED
    BY <1>1, <2>3, <2>4, <2>5 DEF FirstEvent
<1>2. CASE NextEvent
  <2>1. /\ walk = "walk" /\ walk' = "check" /\ made' = made + 1 /\ made \in Nat
        /\ UNCHANGED <<frames, client, received>>
    BY <1>2 DEF NextEvent, StreamTypes
  <2>2. made' - 1 = made /\ made' > 0
    BY <2>1
  <2> QED
    BY <2>1, <2>2 DEF QueueIsInOrder, Carries
<1>3. CASE HandOver
  <2>1. walk = "check" /\ UNCHANGED <<made, client, received>> /\ made \in Nat
    BY <1>3 DEF HandOver, StreamTypes
  <2> SUFFICES ASSUME Attended PROVE QueueIsInOrder'
    BY <2>1 DEF QueueIsInOrder
  <2>2. ~cancel /\ made > 0 /\ made - 1 \in Nat /\ Carries(made - 1, <<>>)
    BY <2>1 DEF QueueIsInOrder, ClientIsServed
  <2>3. walk' = "walk" /\ frames' = Append(frames, (made - 1) + 1)
    BY <1>3, <2>1, <2>2 DEF HandOver
  <2>4. Carries((made - 1) + 1, <<>>)'
    BY <2>1, <2>2, <2>3, CarriesNext
  <2> QED
    BY <2>1, <2>3, <2>4 DEF QueueIsInOrder, Carries
<1>4. CASE WalkRaises
  <2>1. /\ walk \in {"walk", "check"} /\ walk' = "over" /\ frames' = frames \o <<Failure, Nothing>>
        /\ made > 0 /\ made \in Nat /\ UNCHANGED <<made, client, received>>
    BY <1>4 DEF WalkRaises, StreamTypes
  <2> SUFFICES ASSUME Attended PROVE QueueIsInOrder'
    BY <2>1 DEF QueueIsInOrder
  <2>2. PICK n \in {made, made - 1} : Carries(n, <<>>)
    BY <2>1 DEF QueueIsInOrder
  <2>3. n \in Nat /\ n >= 0
    BY <2>1
  <2>4. Carries(n, <<Failure, Nothing>>)'
    BY <1>0, <2>1, <2>2, <2>3, CarriesMore
  <2> QED
    BY <2>1, <2>3, <2>4 DEF QueueIsInOrder
<1>5. CASE WalkEnds
  <2>1. /\ walk = "walk" /\ walk' = "over" /\ frames' = frames \o <<Nothing>>
        /\ made \in Nat /\ UNCHANGED <<made, client, received>>
    BY <1>5 DEF WalkEnds, StreamTypes
  <2> SUFFICES ASSUME Attended PROVE QueueIsInOrder'
    BY <2>1 DEF QueueIsInOrder
  <2>2. Carries(made, <<Nothing>>)'
    BY <1>0, <2>1, CarriesMore DEF QueueIsInOrder
  <2> QED
    BY <2>1, <2>2 DEF QueueIsInOrder
<1>6. CASE SendForChunk
  BY <1>6 DEF SendForChunk, QueueIsInOrder, Carries
<1>7. CASE Disconnect
  BY <1>7 DEF Disconnect, QueueIsInOrder
<1>8. CASE Chunk
  <2>1. CASE client # "reading"
    <3>1. ~Attended /\ client' = client
      BY <1>8, <2>1 DEF Chunk, ClientIsServed
    <3> QED
      BY <3>1 DEF QueueIsInOrder
  <2>2. CASE client = "reading" /\ Head(frames) = Nothing
    BY <1>8, <2>2 DEF Chunk, QueueIsInOrder
  <2>3. CASE client = "reading" /\ Head(frames) # Nothing
    <3>1. /\ frames # <<>> /\ frames' = Tail(frames) /\ received' = Append(received, Head(frames))
          /\ UNCHANGED <<walk, made>> /\ made \in Nat
      BY <1>8, <2>3 DEF Chunk, StreamTypes
    <3>2. ASSUME NEW m \in Nat, NEW last \in {<<>>, <<Nothing>>, <<Failure, Nothing>>},
                 Carries(m, last)
          PROVE  Carries(m, last)'
      BY <1>0, <3>1, <3>2, CarriesOver
    <3>3. walk = "walk" => Carries(made, <<>>)'
      BY <2>3, <3>1, <3>2 DEF QueueIsInOrder
    <3>4. walk = "check" => made > 0 /\ Carries(made - 1, <<>>)'
      BY <2>3, <3>1, <3>2 DEF QueueIsInOrder
    <3>5. walk = "over" => \/ Carries(made, <<Nothing>>)'
                           \/ \E n \in {made, made - 1} : n >= 0 /\ Carries(n, <<Failure, Nothing>>)'
      <4> SUFFICES ASSUME walk = "over"
                   PROVE  \/ Carries(made, <<Nothing>>)'
                          \/ \E n \in {made, made - 1} : n >= 0 /\ Carries(n, <<Failure, Nothing>>)'
        OBVIOUS
      <4>1. \/ Carries(made, <<Nothing>>)
            \/ \E n \in {made, made - 1} : n >= 0 /\ Carries(n, <<Failure, Nothing>>)
        BY <2>3 DEF QueueIsInOrder
      <4>2. CASE Carries(made, <<Nothing>>)
        BY <3>1, <3>2, <4>2
      <4>3. ASSUME NEW n \in {made, made - 1}, n >= 0, Carries(n, <<Failure, Nothing>>)
            PROVE  Carries(n, <<Failure, Nothing>>)'
        <5>1. n \in Nat
          BY <3>1, <4>3
        <5> QED
          BY <3>2, <4>3, <5>1
      <4> QED
        BY <4>1, <4>2, <4>3
    <3> QED
      BY <3>1, <3>3, <3>4, <3>5 DEF QueueIsInOrder, Carries
  <2> QED
    BY <2>1, <2>2, <2>3
<1>9. CASE UNCHANGED stream
  BY <1>9 DEF stream, QueueIsInOrder, Carries
<1> QED
  BY <1>1, <1>2, <1>3, <1>4, <1>5, <1>6, <1>7, <1>8, <1>9, TwoHalves DEF StreamStep, Walk

\* The walk looks at the flag after every event, so it makes one at most behind it.
LEMMA LateStep ==
  ASSUME StreamTypes, ClientIsServed, LateIsBounded, [ReadersNext]_readersVars
  PROVE  LateIsBounded'
<1>1. CASE FirstEvent
  BY <1>1 DEF FirstEvent, ClientIsServed, LateIsBounded
<1>2. CASE NextEvent \/ HandOver \/ WalkRaises \/ WalkEnds
  BY <1>2 DEF NextEvent, HandOver, WalkRaises, WalkEnds,
              LateIsBounded, StreamTypes
<1>3. CASE SendForChunk \/ Disconnect \/ Chunk
  BY <1>3 DEF SendForChunk, Disconnect, Chunk, ClientIsServed,
              LateIsBounded, StreamTypes
<1>4. CASE UNCHANGED stream
  BY <1>4 DEF stream, LateIsBounded
<1> QED
  BY <1>1, <1>2, <1>3, <1>4, TwoHalves DEF StreamStep, Walk

\* A response ends with what the queue carried, and then nothing changes it.
LEMMA WholeStep ==
  ASSUME StreamTypes, ClientIsServed, QueueIsInOrder, LateIsBounded,
         StreamIsWhole, [ReadersNext]_readersVars
  PROVE  StreamIsWhole'
<1>0. late' <= 1
  BY LateStep DEF LateIsBounded
<1>1. CASE client' = "closed" /\ client # "closed"
  <2>1. Chunk /\ client = "reading" /\ Head(frames) = Nothing
    BY <1>1, TwoHalves DEF StreamStep, Walk, stream, FirstEvent,
                           NextEvent, HandOver, WalkRaises,
                           WalkEnds, SendForChunk, Chunk,
                           Disconnect
  <2>2. /\ frames # <<>> /\ UNCHANGED <<made, received>> /\ made \in Nat
    BY <2>1 DEF Chunk, StreamTypes
  <2>3. \/ received = [i \in 1 .. made |-> i]
        \/ \E n \in {made, made - 1} : n >= 0 /\ received = Append([i \in 1 .. n |-> i], Failure)
    <3>1. \/ Carries(made, <<Nothing>>)
          \/ \E n \in {made, made - 1} : n >= 0 /\ Carries(n, <<Failure, Nothing>>)
      <4>1. walk # "walk" /\ walk # "check"
        <5>1. \A m \in Nat : ~Carries(m, <<>>)
          BY <2>1, <2>2, CarriesAll
        <5> QED
          BY <2>1, <2>2, <5>1 DEF QueueIsInOrder, Attended
      <4> QED
        BY <2>1, <4>1 DEF QueueIsInOrder, ClientIsServed, Attended, StreamTypes
    <3>2. CASE Carries(made, <<Nothing>>)
      BY <2>1, <2>2, <3>2, CarriesAll
    <3>3. ASSUME NEW n \in {made, made - 1}, n >= 0, Carries(n, <<Failure, Nothing>>)
          PROVE  received = Append([i \in 1 .. n |-> i], Failure)
      <4>1. n \in Nat
        BY <2>2, <3>3
      <4> QED
        BY <2>1, <2>2, <3>3, <4>1, CarriesAll
    <3> QED
      BY <3>1, <3>2, <3>3
  <2> QED
    BY <1>0, <2>2, <2>3 DEF StreamIsWhole
<1>2. CASE client' = "closed" /\ client = "closed"
  <2>1. walk = "over"
    BY <1>2 DEF ClientIsServed
  <2>2. UNCHANGED <<made, received>>
    BY <1>2, <2>1, TwoHalves DEF StreamStep, Walk, stream, FirstEvent,
                                 NextEvent, HandOver, WalkRaises,
                                 WalkEnds, SendForChunk, Chunk,
                                 Disconnect
  <2> QED
    BY <1>0, <1>2, <2>2 DEF StreamIsWhole
<1>3. CASE client' # "closed"
  BY <1>0, <1>3 DEF StreamIsWhole
<1> QED
  BY <1>1, <1>2, <1>3

LEMMA StreamInvariant == ReadersSpec => []StreamInv
<1>1. ReadersInit => StreamInv
  <2> SUFFICES ASSUME ReadersInit PROVE StreamInv
    OBVIOUS
  <2>1. StreamTypes
    <3>1. 0 \in Nat /\ FALSE \in BOOLEAN /\ <<>> \in Seq(Frame) /\ <<>> \in Seq(Nat \cup {Failure})
      OBVIOUS
    <3> QED
      BY <3>1, Zenon DEF ReadersInit, StreamTypes
  <2> QED
    BY <2>1 DEF ReadersInit, StreamInv, ClientIsServed, Attended, QueueIsInOrder, LateIsBounded,
                StreamIsWhole
<1>2. StreamInv /\ [ReadersNext]_readersVars => StreamInv'
  BY StreamTypesStep, ServedStep, OrderStep, LateStep, WholeStep DEF StreamInv
<1> QED
  BY <1>1, <1>2, PTL DEF ReadersSpec

\* A response that ends told its client of every event in order, or ends with
\* run_error, for any number of events; and the walk makes one event at most for a
\* client that is gone (app.py:432-450).
THEOREM StreamWhole == ReadersSpec => []StreamIsWhole
  BY StreamInvariant, PTL DEF StreamInv

=============================================================================
